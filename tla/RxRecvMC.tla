------------------------------ MODULE RxRecvMC ------------------------------
(* Instances of RxRecv for TLC: decoders of each shape rxgen generates. *)
EXTENDS RxRecv

Flat(n) == [form |-> "flat", words |-> n]
Bulk(n) == [form |-> "bulk", words |-> n]
String  == [form |-> "string", words |-> 1]
Opaque  == [form |-> "opaque", words |-> 1]

\* bos GetDates and the like: OUT parameters of fixed size only
FlatReply == <<Flat(5)>>
\* pts ListOwned: OUT prlist *elist, OUT uint32 *over
ListReply == <<Flat(1), Bulk(1), Flat(1)>>
\* the same with array elements of two words
PairsReply == <<Flat(1), Bulk(2), Flat(1)>>
\* bos GetInstanceInfo: a string, then a structure
InfoReply == <<Flat(1), String, Flat(2)>>
\* bos GetStatus: OUT uint32_t *inStat, OUT string statdescr<>
StatusReply == <<Flat(2), String>>
\* bos GetCellName: OUT string name<>
NameReply == <<Flat(1), String>>

\* ka GetTicket: INOUT int32_t *oanswer_BBS_MaxSeqLen, INOUT opaque
\* *oanswer_BBS_Seq<>; with a list after it
TicketReply == <<Flat(2), Opaque>>
OpaqueThenList == <<Flat(1), Opaque, Flat(1), Bulk(1)>>

AllReplies == {FlatReply, PairsReply, InfoReply, StatusReply, NameReply, TicketReply,
               OpaqueThenList}
ListOnly == {ListReply}

\* a word short, exact, a word and more than a buffer too long
AnySlack == {-2, 0, 2, 6}
ExactOnly == {0}
=============================================================================

------------------------ MODULE HttpTransfer_proofs -------------------------
(***************************************************************************)
(* What a call of http.cpp delivers, for texts and answers of any length,  *)
(* cut into pieces of any size, and any set of curl errors: nothing out of *)
(* order, SUCCESS only for what was delivered and done, and so the promise *)
(* of Exchange.                                                            *)
(***************************************************************************)
EXTENDS HttpTransfer, TLAPS

\* The uploaded part is where read's position says; the string holds what
\* curl handed over.
Positions ==
    /\ Len(sent) <= Len(request.data)
    /\ request.kind = "put" => index = Len(sent)
    /\ Len(body) = received

\* What the server did, it did for a whole text and said so; 200 and 201 have
\* no other origin.
Applied ==
    /\ applied => ended /\ reply # NoReply /\ sent = request.data
    /\ reply.status \in {200, 201} => applied

\* The phases: a code after the transfer, a result at the end.
Phases ==
    /\ phase \in {"prepare", "transfer"} => code = "none"
    /\ phase # "done" => result = "none"
    /\ phase = "prepare" => ~ended
    /\ code = "CURLE_OK" =>
         /\ reply # NoReply
         /\ reply.framed => received = Len(reply.body)

IInv ==
    /\ TypeOK
    /\ OctetsInOrder
    /\ Positions
    /\ Applied
    /\ Phases
    /\ SuccessIsDelivered

-----------------------------------------------------------------------------
\* A piece taken behind a prefix makes a longer prefix.
LEMMA PieceExtends ==
    ASSUME NEW S, NEW text \in Seq(S), NEW start \in Seq(S), NEW n \in Nat,
           start = SubSeq(text, 1, Len(start)),
           Len(start) + n <= Len(text)
    PROVE  LET longer == start \o SubSeq(text, Len(start) + 1, Len(start) + n)
           IN /\ longer \in Seq(S)
              /\ Len(longer) = Len(start) + n
              /\ longer = SubSeq(text, 1, Len(longer))
PROOF
  <1> DEFINE piece == SubSeq(text, Len(start) + 1, Len(start) + n)
             longer == start \o piece
             whole == SubSeq(text, 1, Len(start) + n)
  <1>1. /\ piece \in Seq(S) /\ Len(piece) = n
        /\ \A i \in 1 .. n : piece[i] = text[Len(start) + i]
    OBVIOUS
  <1>2. /\ whole \in Seq(S) /\ Len(whole) = Len(start) + n
        /\ \A i \in 1 .. Len(start) + n : whole[i] = text[i]
    OBVIOUS
  <1>3. \A i \in 1 .. Len(start) : start[i] = text[i]
    OBVIOUS
  <1>4. longer \in Seq(S) /\ Len(longer) = Len(start) + n
    BY <1>1
  <1>5. ASSUME NEW i \in 1 .. Len(start) + n
        PROVE  longer[i] = whole[i]
    <2>1. Len(start) \in Nat OBVIOUS
    <2>2. longer[i] = IF i <= Len(start) THEN start[i] ELSE piece[i - Len(start)]
      <3> HIDE DEF piece
      <3> QED BY <1>1
    <2> HIDE DEF piece, whole, longer
    <2>3. CASE i <= Len(start)
      BY <1>2, <1>3, <2>1, <2>2, <2>3
    <2>4. CASE i > Len(start)
      <3>1. i - Len(start) \in 1 .. n /\ Len(start) + (i - Len(start)) = i
        BY <2>1, <2>4
      <3>2. longer[i] = piece[i - Len(start)]
        BY <2>1, <2>2, <2>4
      <3>3. piece[i - Len(start)] = text[i]
        BY <1>1, <3>1
      <3> QED BY <1>2, <3>2, <3>3
    <2> QED BY <2>1, <2>3, <2>4
  <1>6. longer = whole
    <2> HIDE DEF longer, whole
    <2> QED BY <1>2, <1>4, <1>5
  <1> QED BY <1>4, <1>6

LEMMA WholePart ==
    ASSUME NEW S, NEW text \in Seq(S)
    PROVE  SubSeq(text, 1, Len(text)) = text
  OBVIOUS

\* A text without its end is not a document.
LEMMA PartIsNoDocument ==
    ASSUME NEW text \in Payloads, NEW start \in Documents,
           start = SubSeq(text, 1, Len(start)), Len(start) <= Len(text)
    PROVE  start = text
PROOF
  <1>1. text \in Seq(Octet) /\ start \in Seq(Octet)
    BY HttpTransferAssumption
  <1>2. Len(start) \notin 0 .. Len(text) - 1
    BY HttpTransferAssumption
  <1>3. Len(start) = Len(text)
    BY <1>1, <1>2
  <1> QED BY <1>1, <1>3

\* The shapes of what is sent and answered.
LEMMA RequestShape ==
    ASSUME NEW r \in Requests
    PROVE  /\ r.data \in Seq(Octet)
           /\ r.kind \in {"get", "post", "put"}
           /\ r.kind = "get" => r.data = <<>>
           /\ r.kind # "get" => r.data \in Payloads
PROOF
  <1>1. <<>> \in Seq(Octet) OBVIOUS
  <1>2. CASE r \in [kind : {"get"}, data : {<<>>}]
    <2>1. r.kind = "get" /\ r.data = <<>>
      BY <1>2
    <2> QED BY <1>1, <2>1
  <1>3. CASE r \in [kind : {"post", "put"}, data : Payloads]
    <2>1. r.kind \in {"post", "put"} /\ r.data \in Payloads
      BY <1>3
    <2> QED BY <2>1, HttpTransferAssumption
  <1> QED BY <1>2, <1>3 DEF Requests

LEMMA ReplyShape ==
    ASSUME NEW r \in Replies \cup {NoReply}
    PROVE  /\ r.body \in Seq(Octet)
           /\ r.status \in Nat
           /\ r.framed \in BOOLEAN
           /\ r # NoReply <=> r.status # 0
PROOF
  <1>1. <<>> \in Seq(Octet) OBVIOUS
  <1>2. NoReply.status = 0 /\ NoReply.body = <<>> /\ NoReply.framed = FALSE
    BY DEF NoReply
  <1>3. CASE r = NoReply
    <2>1. r.body \in Seq(Octet) /\ r.status = 0
      BY <1>1, <1>2, <1>3, Zenon
    <2>2. r.framed \in BOOLEAN
      BY <1>2, <1>3, Zenon
    <2> QED BY <1>3, <2>1, <2>2
  <1>4. CASE r \in Replies
    <2>1. r.status \in Nat \ {0} /\ r.body \in Bodies /\ r.framed \in BOOLEAN
      BY <1>4, HttpTransferAssumption DEF Replies
    <2> QED BY <1>2, <2>1, HttpTransferAssumption
  <1> QED BY <1>3, <1>4

LEMMA InitIInv == Init => IInv
PROOF
  <1> SUFFICES ASSUME Init PROVE IInv OBVIOUS
  <1>1. request \in Requests /\ request.data \in Seq(Octet)
    BY RequestShape DEF Init
  <1>2. sent = <<>> /\ body = <<>> /\ index = 0 /\ received = 0
    BY DEF Init
  <1>3. <<>> \in Seq(Octet) /\ Len(<<>>) = 0 OBVIOUS
  <1>4. reply = NoReply /\ reply.status = 0 /\ reply.body = <<>>
    BY DEF Init, NoReply
  <1>5. index \in 0 .. Len(request.data) /\ received \in 0 .. Len(reply.body)
    BY <1>1, <1>2, <1>3, <1>4
  <1>6. TypeOK
    <2>1. sent \in Seq(Octet) /\ body \in Seq(Octet)
      BY <1>2, <1>3
    <2>2. status \in {0, reply.status}
      BY DEF Init
    <2> QED BY <1>1, <1>4, <1>5, <2>1, <2>2, Zenon DEF Init, TypeOK
  <1>7. OctetsInOrder
    <2>1. SubSeq(request.data, 1, 0) = <<>> /\ SubSeq(<<>>, 1, 0) = <<>>
      BY <1>1, <1>3
    <2> QED BY <1>2, <1>3, <1>4, <2>1 DEF OctetsInOrder
  <1>8. Positions
    BY <1>1, <1>2, <1>3 DEF Positions
  <1>9. Applied /\ Phases /\ SuccessIsDelivered
    BY <1>4 DEF Init, Applied, Phases, SuccessIsDelivered
  <1> QED BY <1>6, <1>7, <1>8, <1>9 DEF IInv
-----------------------------------------------------------------------------
\* The steps of curl and of the server that only move the request on.
LEMMA NextIInv == IInv /\ [Next]_vars => IInv'
PROOF
  <1> SUFFICES ASSUME IInv, [Next]_vars PROVE IInv'
    OBVIOUS
  <1> USE DEF IInv
  <1>0. /\ request.data \in Seq(Octet)
        /\ request.kind \in {"get", "post", "put"}
        /\ request.kind # "get" => request.data \in Payloads
        /\ request.kind = "get" => request.data = <<>>
    BY RequestShape DEF TypeOK
  <1>1. /\ reply.body \in Seq(Octet)
        /\ reply.status \in Nat
        /\ reply # NoReply <=> reply.status # 0
    BY ReplyShape DEF TypeOK
  <1>2. CASE UNCHANGED vars
    <2>1. UNCHANGED <<request, phase, index, sent, ended, reply, status,
                      received, body, code, result, applied>>
      BY <1>2 DEF vars, upload, answer
    <2>2. TypeOK'
      BY <2>1 DEF TypeOK
    <2>3. OctetsInOrder' /\ Positions' /\ Applied'
      BY <2>1 DEF OctetsInOrder, Positions, Applied
    <2>4. Phases' /\ SuccessIsDelivered'
      BY <2>1 DEF Phases, SuccessIsDelivered
    <2> QED BY <2>2, <2>3, <2>4
  <1>3. CASE Prepare
    BY <1>3 DEF Prepare, answer, TypeOK, OctetsInOrder, Positions,
                Applied, Phases, SuccessIsDelivered
  <1>4. CASE PrepareFails
    BY <1>4 DEF PrepareFails, upload, answer, TypeOK, OctetsInOrder,
                Positions, Applied, Phases, SuccessIsDelivered
  <1>5. ASSUME NEW count \in Count, Read(count)
        PROVE  IInv'
    <2> DEFINE rest == Len(request.data) - index
               read == IF count > rest THEN rest ELSE count
    <2>1. /\ read \in Nat /\ index = Len(sent) /\ Len(sent) + read <= Len(request.data)
          /\ sent' = sent \o SubSeq(request.data, index + 1, index + read)
          /\ index' = index + read
      BY <1>0, <1>5, HttpTransferAssumption DEF Read, Count, TypeOK, Positions
    <2> HIDE DEF read
    <2>2. /\ sent' \in Seq(Octet) /\ Len(sent') = index'
          /\ sent' = SubSeq(request.data, 1, Len(sent'))
      BY <1>0, <2>1, PieceExtends DEF TypeOK, OctetsInOrder
    <2>3. UNCHANGED <<request, phase, reply, answer, code, result, applied>>
          /\ phase = "transfer" /\ ~ended /\ ended' \in BOOLEAN
      BY <1>5 DEF Read
    <2>4. index' \in 0 .. Len(request.data)
      BY <1>0, <2>1 DEF TypeOK
    <2>5. TypeOK'
      BY <2>2, <2>3, <2>4 DEF TypeOK, answer
    <2>6. OctetsInOrder' /\ Positions'
      BY <1>0, <2>1, <2>2, <2>3, <2>4 DEF OctetsInOrder, Positions, answer
    <2>7. Applied' /\ Phases' /\ SuccessIsDelivered'
      BY <2>3 DEF Applied, Phases, SuccessIsDelivered, answer
    <2> QED BY <2>5, <2>6, <2>7
  <1>6. ASSUME NEW count \in Count, SendFields(count)
        PROVE  IInv'
    <2>1. /\ count \in Nat /\ Len(sent) + count <= Len(request.data)
          /\ sent' = sent \o SubSeq(request.data, Len(sent) + 1, Len(sent) + count)
      BY <1>6, HttpTransferAssumption DEF SendFields, Count
    <2>2. /\ sent' \in Seq(Octet) /\ Len(sent') = Len(sent) + count
          /\ sent' = SubSeq(request.data, 1, Len(sent'))
      <3>1. sent \in Seq(Octet) /\ sent = SubSeq(request.data, 1, Len(sent))
        BY DEF TypeOK, OctetsInOrder
      <3> HIDE DEF IInv
      <3> QED BY <1>0, <2>1, <3>1, PieceExtends
    <2>3. UNCHANGED <<request, phase, index, ended, reply, answer, code, result, applied>>
          /\ phase = "transfer" /\ ~ended /\ request.kind = "post"
      BY <1>6 DEF SendFields
    <2>4. TypeOK'
      BY <2>2, <2>3 DEF TypeOK, answer
    <2>5. OctetsInOrder' /\ Positions'
      BY <1>0, <2>1, <2>2, <2>3 DEF OctetsInOrder, Positions, answer
    <2>6. Applied' /\ Phases' /\ SuccessIsDelivered'
      BY <2>3 DEF Applied, Phases, SuccessIsDelivered, answer
    <2> QED BY <2>4, <2>5, <2>6
  <1>7. CASE EndFields
    BY <1>7 DEF EndFields, answer, TypeOK, OctetsInOrder, Positions,
                Applied, Phases, SuccessIsDelivered
  <1>8. CASE Accept
    <2>1. /\ reply' \in Replies
          /\ UNCHANGED <<request, phase, upload, answer, code, result>>
          /\ reply = NoReply /\ ended /\ applied'
      BY <1>8 DEF Accept, Replies
    <2>2. sent = request.data
      <3>1. CASE request.kind = "get"
        BY <1>0, <3>1 DEF Positions, OctetsInOrder, TypeOK
      <3>2. CASE sent \in Documents /\ request.kind # "get"
        BY <1>0, <3>2, PartIsNoDocument DEF Positions, OctetsInOrder
      <3> QED BY <1>8, <3>1, <3>2 DEF Accept
    <2>3. /\ reply'.body \in Seq(Octet) /\ reply'.status # 0
          /\ reply' # NoReply
      BY <2>1, ReplyShape, HttpTransferAssumption DEF Replies, NoReply
    <2>4. status = 0 /\ received = 0 /\ body = <<>>
      BY <1>1, <2>1 DEF TypeOK, Positions, NoReply
    <2>5. code # "CURLE_OK" /\ result # "SUCCESS"
      BY <2>1 DEF Phases, SuccessIsDelivered, Applied
    <2>6. TypeOK'
      BY <2>1, <2>3, <2>4 DEF TypeOK, upload, answer
    <2>7. OctetsInOrder' /\ Positions'
      BY <2>1, <2>3, <2>4 DEF OctetsInOrder, Positions, upload, answer
    <2>8. Applied' /\ Phases' /\ SuccessIsDelivered'
      BY <2>1, <2>2, <2>3, <2>5
         DEF Applied, Phases, SuccessIsDelivered, upload, answer
    <2> QED BY <2>6, <2>7, <2>8
  <1>9. CASE Refuse
    <2>1. /\ reply' \in Replies /\ reply'.status \in Refused
          /\ UNCHANGED <<request, phase, upload, answer, code, result, applied>>
          /\ reply = NoReply
      BY <1>9 DEF Refuse, Replies
    <2>2. /\ reply'.body \in Seq(Octet) /\ reply'.status # 0
          /\ reply' # NoReply /\ reply'.status \notin {200, 201}
      BY <2>1, ReplyShape, HttpTransferAssumption DEF Replies, NoReply
    <2>3. status = 0 /\ received = 0 /\ body = <<>>
      BY <1>1, <2>1 DEF TypeOK, Positions, NoReply
    <2>4. code # "CURLE_OK" /\ result # "SUCCESS" /\ ~applied
      BY <2>1 DEF Phases, SuccessIsDelivered, Applied
    <2>5. TypeOK'
      BY <2>1, <2>2, <2>3 DEF TypeOK, upload, answer
    <2>6. OctetsInOrder' /\ Positions'
      BY <2>1, <2>2, <2>3 DEF OctetsInOrder, Positions, upload, answer
    <2>7. Applied' /\ Phases' /\ SuccessIsDelivered'
      BY <2>1, <2>2, <2>4 DEF Applied, Phases, SuccessIsDelivered, upload, answer
    <2> QED BY <2>5, <2>6, <2>7
  <1>10. CASE ReceiveStatus
    BY <1>10 DEF ReceiveStatus, upload, TypeOK, OctetsInOrder, Positions,
                 Applied, Phases, SuccessIsDelivered
  <1>11. ASSUME NEW count \in Count, Write(count)
         PROVE  IInv'
    <2>1. /\ count \in Nat /\ received = Len(body)
          /\ received + count <= Len(reply.body)
          /\ body' = body \o SubSeq(reply.body, Len(body) + 1, Len(body) + count)
          /\ received' = received + count
      BY <1>11, HttpTransferAssumption DEF Write, Count, Positions
    <2>2. /\ body' \in Seq(Octet) /\ Len(body') = received'
          /\ body' = SubSeq(reply.body, 1, Len(body'))
      BY <1>1, <2>1, PieceExtends DEF TypeOK, OctetsInOrder
    <2>3. UNCHANGED <<request, phase, upload, reply, status, code, result, applied>>
          /\ phase = "transfer"
      BY <1>11 DEF Write
    <2>4. received' \in 0 .. Len(reply.body)
      BY <1>1, <2>1 DEF TypeOK
    <2>5. TypeOK'
      BY <2>2, <2>3, <2>4 DEF TypeOK, upload
    <2>6. OctetsInOrder' /\ Positions'
      BY <2>2, <2>3 DEF OctetsInOrder, Positions, upload
    <2>7. Applied' /\ Phases' /\ SuccessIsDelivered'
      BY <2>3 DEF Applied, Phases, SuccessIsDelivered, upload
    <2> QED BY <2>5, <2>6, <2>7
  <1>12. CASE Complete
    <2>1. reply # NoReply
      BY <1>1, <1>12 DEF Complete, TypeOK
    <2> QED BY <1>12, <2>1 DEF Complete, upload, answer, TypeOK,
              OctetsInOrder, Positions, Applied, Phases, SuccessIsDelivered
  <1>13. ASSUME NEW error \in Errors, Break(error)
         PROVE  IInv'
    BY <1>13, HttpTransferAssumption DEF Break, upload, answer, TypeOK,
       OctetsInOrder, Positions, Applied, Phases, SuccessIsDelivered
  <1>14. CASE Conclude
    <2>1. /\ UNCHANGED <<request, upload, reply, answer, code, applied>>
          /\ phase' = "done" /\ result' \in {"SUCCESS", "FAILURE"}
      BY <1>14 DEF Conclude
    <2>2. /\ TypeOK' /\ OctetsInOrder' /\ Positions' /\ Applied' /\ Phases'
      <3>1. TypeOK'
        BY <2>1 DEF upload, answer, TypeOK
      <3>2. OctetsInOrder' /\ Positions'
        BY <2>1 DEF upload, answer, OctetsInOrder, Positions
      <3>3. Applied'
        BY <2>1 DEF upload, Applied
      <3>4. Phases'
        BY <2>1 DEF upload, answer, Phases
      <3> QED BY <3>1, <3>2, <3>3, <3>4
    <2>3. SuccessIsDelivered'
      <3> SUFFICES ASSUME result' = "SUCCESS" PROVE SuccessIsDelivered'
        BY DEF SuccessIsDelivered
      <3>1. status \in {200, 201}
        BY <1>14 DEF Conclude, Expected
      <3>2. applied /\ sent = request.data
        BY <3>1 DEF TypeOK, Applied
      <3>3. ASSUME code = "CURLE_OK", reply.framed PROVE body = reply.body
        <4>1. Len(body) = Len(reply.body)
          BY <3>3 DEF Phases, Positions
        <4> QED BY <1>1, <4>1, WholePart DEF OctetsInOrder
      <3> QED BY <2>1, <3>2, <3>3 DEF SuccessIsDelivered, upload, answer
    <2> QED BY <2>2, <2>3
  <1> QED BY <1>2, <1>3, <1>4, <1>5, <1>6, <1>7, <1>8, <1>9, <1>10, <1>11,
             <1>12, <1>13, <1>14 DEF Next, Client, Server

LEMMA Invariance == Spec => []IInv
PROOF
  <1> QED BY InitIInv, NextIInv, PTL DEF Spec

-----------------------------------------------------------------------------
\* The fields keep their types and read's position stays within the text, for
\* any text, pieces, answers and errors.
THEOREM TransferTypeCorrect == Spec => []TypeOK
PROOF
  <1>1. IInv => TypeOK BY DEF IInv
  <1> QED BY <1>1, Invariance, PTL

\* The callbacks read and write lose, repeat and reorder nothing, however curl
\* cuts the octets.
THEOREM NothingOutOfOrder == Spec => []OctetsInOrder
PROOF
  <1>1. IInv => OctetsInOrder BY DEF IInv
  <1> QED BY <1>1, Invariance, PTL

\* A call that returns SUCCESS has delivered its whole text to a server that
\* did what was asked.
THEOREM SuccessDelivers == Spec => []SuccessIsDelivered
PROOF
  <1>1. IInv => SuccessIsDelivered BY DEF IInv
  <1> QED BY <1>1, Invariance, PTL

\* A call of get, post or put implements the exchange the commands rely on.
THEOREM ImplementsExchange == Spec => ExchangeSpec
PROOF
  <1>1. Init => ExchangePromise!Init
    BY DEF Init, ExchangePromise!Init
  <1>2. IInv /\ [Next]_vars => [ExchangePromise!Next]_<<applied, result>>
    <2> SUFFICES ASSUME IInv, [Next]_vars
                 PROVE  \/ ExchangePromise!Next
                        \/ UNCHANGED <<applied, result>>
      OBVIOUS
    <2> USE DEF ExchangePromise!Next, ExchangePromise!Apply,
                ExchangePromise!Succeed, ExchangePromise!Fail
    <2>1. CASE Accept
      BY <2>1 DEF Accept, IInv, TypeOK
    <2>2. CASE PrepareFails
      BY <2>2 DEF PrepareFails, IInv, Phases
    <2>3. CASE Conclude
      <3>1. result = "none" /\ UNCHANGED applied
        BY <2>3 DEF Conclude, IInv, Phases
      <3>2. result' = "SUCCESS" => applied
        BY <2>3 DEF Conclude, Expected, IInv, TypeOK, Applied
      <3>3. result' \in {"SUCCESS", "FAILURE"}
        BY <2>3 DEF Conclude
      <3> QED BY <3>1, <3>2, <3>3
    <2>4. CASE UNCHANGED vars
      BY <2>4 DEF vars
    <2>5. CASE Next /\ ~Accept /\ ~PrepareFails /\ ~Conclude
      BY <2>5 DEF Next, Client, Server, Prepare, Read, SendFields, EndFields,
                  Refuse, ReceiveStatus, Write, Complete, Break
    <2> QED BY <2>1, <2>2, <2>3, <2>4, <2>5
  <1> QED BY <1>1, <1>2, Invariance, PTL
          DEF Spec, ExchangeSpec, ExchangePromise!Spec
=============================================================================

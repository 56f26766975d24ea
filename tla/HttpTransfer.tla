---------------------------- MODULE HttpTransfer ----------------------------
(***************************************************************************)
(* One request of http.cpp: the options, the transfer that curl performs   *)
(* with the callbacks read and write, the test of curl's code and the test *)
(* of the status.  The network cuts the octets into pieces of any size and *)
(* may break at any moment; the server may refuse before it has read       *)
(* everything, and may act on a request whose answer is lost.              *)
(***************************************************************************)
EXTENDS Integers, Sequences

CONSTANTS
    Octet, Nul,
    Payloads,     \* the texts the commands send
    Documents,    \* the texts the server takes for a whole document
    Bodies,       \* the bodies of its answers
    Accepted,     \* its statuses for what it has done
    Refused,      \* its statuses for what it has not done
    Errors,       \* the errors of the libcurl in use
    MaxCount      \* bound: octets that curl moves with one call

\* Codes of print_curl_error's switch, two for all of them.
Listed == {"CURLE_COULDNT_CONNECT", "CURLE_RECV_ERROR"}

Expected(kind) == IF kind = "post" THEN 201 ELSE 200

\* A document starts with its only unnested bracket, so that no proper part
\* from its start is one; 200 and 201 are never said of what was not done.
ASSUME HttpTransferAssumption ==
    /\ Nul \in Octet
    /\ Payloads \subseteq Seq(Octet) /\ Bodies \subseteq Seq(Octet)
    /\ Documents \subseteq Seq(Octet)
    /\ \A text \in Payloads : \A n \in 0 .. Len(text) - 1 :
         SubSeq(text, 1, n) \notin Documents
    /\ Accepted \subseteq Nat \ {0} /\ Refused \subseteq Nat \ {0}
    /\ {200, 201} \subseteq Accepted /\ Refused \cap {200, 201} = {}
    /\ "CURLE_OK" \notin Errors
    /\ MaxCount \in Nat

VARIABLES
    request,    \* [kind, data]: which function was called, with which text
    phase,      \* "prepare", "transfer", "performed", "done"
    index,      \* read_state.index
    sent,       \* octets of the text that the server has
    ended,      \* the server has seen the end of the request
    reply,      \* its answer, NoReply before
    status,     \* status line that has arrived, 0 before
    received,   \* octets of the answer that curl has handed over
    body,       \* the caller's string
    code,       \* what curl_easy_perform returned
    result,     \* what the function returned
    applied     \* history: the server has done what was asked

upload == <<index, sent, ended>>
answer == <<status, received, body>>
vars == <<request, phase, upload, reply, answer, code, result, applied>>

NoReply == [status |-> 0, body |-> <<>>, framed |-> FALSE]
Requests == [kind : {"get"}, data : {<<>>}] \cup [kind : {"post", "put"}, data : Payloads]
Replies == [status : Accepted \cup Refused, body : Bodies, framed : BOOLEAN]

Init ==
    /\ request \in Requests
    /\ phase = "prepare"
    /\ index = 0 /\ sent = <<>> /\ ended = FALSE
    /\ reply = NoReply
    /\ status = 0 /\ received = 0 /\ body = <<>>
    /\ code = "none" /\ result = "none"
    /\ applied = FALSE

-----------------------------------------------------------------------------
\* curl_easy_init and the options: done, or given up before anything is sent.
Prepare ==
    /\ phase = "prepare"
    /\ phase' = "transfer"
    /\ ended' = (request.kind = "get")
    /\ UNCHANGED <<request, index, sent, reply, answer, code, result, applied>>

PrepareFails ==
    /\ phase = "prepare"
    /\ phase' = "done" /\ result' = "FAILURE"
    /\ UNCHANGED <<request, upload, reply, answer, code, applied>>

\* Mutant: the position advances by what curl asked for.
ReadAdvancesByCount(count) ==
    LET rest == Len(request.data) - index
        read == IF count > rest THEN rest ELSE count
    IN /\ phase = "transfer" /\ request.kind = "put" /\ ~ended
       /\ sent' = sent \o SubSeq(request.data, index + 1, index + read)
       /\ index' = index + count
       /\ ended' = (read = 0)
       /\ UNCHANGED <<request, phase, reply, answer, code, result, applied>>

\* Mutant: the position is not advanced past the first octet read.
ReadRepeats(count) ==
    LET rest == Len(request.data) - index
        read == IF count > rest THEN rest ELSE count
    IN /\ phase = "transfer" /\ request.kind = "put" /\ ~ended
       /\ sent' = sent \o SubSeq(request.data, index + 1, index + read)
       /\ index' = IF read = 0 THEN index ELSE index + 1
       /\ ended' = (read = 0)
       /\ UNCHANGED <<request, phase, reply, answer, code, result, applied>>

\* Mutant: the callback waits instead of returning 0 at the end.
ReadNeverEnds(count) ==
    LET rest == Len(request.data) - index
        read == IF count > rest THEN rest ELSE count
    IN /\ phase = "transfer" /\ request.kind = "put" /\ ~ended
       /\ read > 0
       /\ sent' = sent \o SubSeq(request.data, index + 1, index + read)
       /\ index' = index + read
       /\ UNCHANGED <<request, phase, ended, reply, answer, code, result, applied>>

\* PUT: curl asks read for up to count octets until it is given none.
Read(count) ==
    LET rest == Len(request.data) - index
        read == IF count > rest THEN rest ELSE count
    IN /\ phase = "transfer" /\ request.kind = "put" /\ ~ended
       /\ sent' = sent \o SubSeq(request.data, index + 1, index + read)
       /\ index' = index + read
       /\ ended' = (read = 0)
       /\ UNCHANGED <<request, phase, reply, answer, code, result, applied>>

\* POST: the text is passed as a C string, so that curl sends what is before
\* the first Nul.
AtEnd == Len(sent) < Len(request.data) => request.data[Len(sent) + 1] = Nul

SendFields(count) ==
    /\ phase = "transfer" /\ request.kind = "post" /\ ~ended /\ ~AtEnd
    /\ Len(sent) + count <= Len(request.data)
    /\ \A i \in 1 .. count : request.data[Len(sent) + i] # Nul
    /\ sent' = sent \o SubSeq(request.data, Len(sent) + 1, Len(sent) + count)
    /\ UNCHANGED <<request, phase, index, ended, reply, answer, code, result, applied>>

EndFields ==
    /\ phase = "transfer" /\ request.kind = "post" /\ ~ended /\ AtEnd
    /\ ended' = TRUE
    /\ UNCHANGED <<request, phase, index, sent, reply, answer, code, result, applied>>

-----------------------------------------------------------------------------
\* The server acts on a whole request, even when nobody waits any more.
Accept ==
    /\ ended /\ reply = NoReply
    /\ request.kind = "get" \/ sent \in Documents
    /\ reply' \in [status : Accepted, body : Bodies, framed : BOOLEAN]
    /\ applied' = TRUE
    /\ UNCHANGED <<request, phase, upload, answer, code, result>>

\* It may refuse before it has read everything.
Refuse ==
    /\ phase = "transfer" /\ reply = NoReply
    /\ reply' \in [status : Refused, body : Bodies, framed : BOOLEAN]
    /\ UNCHANGED <<request, phase, upload, answer, code, result, applied>>

ReceiveStatus ==
    /\ phase = "transfer" /\ reply # NoReply /\ status = 0
    /\ status' = reply.status
    /\ UNCHANGED <<request, phase, upload, reply, received, body, code, result, applied>>

\* Mutant: the string is assigned the last piece.
WriteAssigns(count) ==
    /\ phase = "transfer" /\ status # 0
    /\ received + count <= Len(reply.body)
    /\ body' = SubSeq(reply.body, received + 1, received + count)
    /\ received' = received + count
    /\ UNCHANGED <<request, phase, upload, reply, status, code, result, applied>>

\* curl hands count octets of the answer to write.
Write(count) ==
    /\ phase = "transfer" /\ status # 0
    /\ received + count <= Len(reply.body)
    /\ body' = body \o SubSeq(reply.body, received + 1, received + count)
    /\ received' = received + count
    /\ UNCHANGED <<request, phase, upload, reply, status, code, result, applied>>

\* The end of an answer without a length is the end of the connection.
Complete ==
    /\ phase = "transfer" /\ status # 0
    /\ reply.framed => received = Len(reply.body)
    /\ code' = "CURLE_OK" /\ phase' = "performed"
    /\ UNCHANGED <<request, upload, reply, answer, result, applied>>

Break(error) ==
    /\ phase = "transfer"
    /\ code' = error /\ phase' = "performed"
    /\ UNCHANGED <<request, upload, reply, answer, result, applied>>

-----------------------------------------------------------------------------
\* A code that is not in the switch counts as success.
print_curl_error == IF code \in Listed THEN "FAILURE" ELSE "SUCCESS"

\* Mutant: the status is printed and not returned on.
ConcludeWithoutStatus ==
    /\ phase = "performed"
    /\ phase' = "done"
    /\ result' = print_curl_error
    /\ UNCHANGED <<request, upload, reply, answer, code, applied>>

Conclude ==
    /\ phase = "performed"
    /\ phase' = "done"
    /\ result' = IF print_curl_error = "SUCCESS" /\ status = Expected(request.kind)
                   THEN "SUCCESS" ELSE "FAILURE"
    /\ UNCHANGED <<request, upload, reply, answer, code, applied>>

Count == 1 .. MaxCount

Client ==
    \/ Prepare \/ PrepareFails
    \/ \E count \in Count : Read(count) \/ SendFields(count)
    \/ EndFields
    \/ ReceiveStatus
    \/ \E count \in Count : Write(count)
    \/ Complete
    \/ Conclude

Server == Accept \/ Refuse

Next == Client \/ Server \/ \E error \in Errors : Break(error)

Spec == Init /\ [][Next]_vars

\* The process and its connection go on, and a server that has a whole
\* request answers it; nothing obliges it to refuse early or to break.
FairSpec == Spec /\ WF_vars(Client) /\ WF_vars(ended /\ Server)

-----------------------------------------------------------------------------
\* The fields keep their types; read's position stays within the text
\* (http.cpp:62), or the next call would copy what is behind it.
TypeOK ==
    /\ request \in Requests
    /\ phase \in {"prepare", "transfer", "performed", "done"}
    /\ index \in 0 .. Len(request.data)
    /\ sent \in Seq(Octet) /\ ended \in BOOLEAN
    /\ reply \in Replies \cup {NoReply}
    /\ status \in {0, reply.status}
    /\ received \in 0 .. Len(reply.body)
    /\ body \in Seq(Octet)
    /\ code \in Errors \cup {"none", "CURLE_OK"}
    /\ result \in {"none", "SUCCESS", "FAILURE"}
    /\ applied \in BOOLEAN

\* Whatever pieces curl moves, the server has the text from its start without
\* a gap or a repetition (read, http.cpp:62), and the caller has the answer in
\* the same way (write, http.cpp:76).
OctetsInOrder ==
    /\ sent = SubSeq(request.data, 1, Len(sent))
    /\ body = SubSeq(reply.body, 1, Len(body))

\* A call that returns SUCCESS has delivered its whole text, to a server that
\* did what was asked (http.cpp:119-179); and if curl reported no error and
\* the answer carried its length, the caller has all of the answer.
SuccessIsDelivered == result = "SUCCESS" =>
    /\ applied
    /\ sent = request.data
    /\ code = "CURLE_OK" /\ reply.framed => body = reply.body

\* A call is an exchange: it returns once, and never SUCCESS for what the
\* server has not done (http.cpp:119-179).
ExchangePromise == INSTANCE Exchange
ExchangeSpec == ExchangePromise!Spec

\* Every call returns: the upload comes to an end and the answer to a result.
Returns == <>(result # "none")
=============================================================================

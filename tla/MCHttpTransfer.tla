--------------------------- MODULE MCHttpTransfer ---------------------------
(***************************************************************************)
(* One request with a document of four octets, or with a text that has a   *)
(* Nul inside, which the server never takes; pieces of one or two octets.  *)
(***************************************************************************)
EXTENDS HttpTransfer

CONSTANTS open, close, nul

MCOctet == {open, close, nul}
MCDocuments == {<<open, open, close, close>>, <<open, close>>}
MCPayloads == {<<open, open, close, close>>, <<open, nul, close>>}
MCBodies == {<<>>, <<open, close, nul>>}
MCAccepted == {200, 201, 204}
MCRefused == {302, 422}
MCErrors == {"CURLE_COULDNT_CONNECT", "CURLE_RECV_ERROR", "CURLE_HTTP2_STREAM"}
=============================================================================

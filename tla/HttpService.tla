----------------------------- MODULE HttpService -----------------------------
(***************************************************************************)
(* The HTTP service on one connection object: http_processor_t             *)
(* (HttpProcessor), the responses that its routines write into send_buf    *)
(* (HttpResponse), and the texts of the lines (HttpLine).                  *)
(***************************************************************************)
EXTENDS HttpProcessor

CONSTANTS
  Codes, ErrorCodes, Configs, LongestLength, MaxCalls, MaxContent,  \* see HttpResponse
  Lines,     \* see HttpLine
  Busy       \* bound: clients whose routines do more than return

VARIABLES
  config, sendBuf, old, resp, calls, said,  \* see HttpResponse
  line                                      \* see HttpLine

R == INSTANCE HttpResponse WITH buf <- sendBuf
L == INSTANCE HttpLine

(* 200 is what http_response_t starts with. *)
ASSUME HttpServiceAssumption ==
  /\ 200 \in Codes /\ Configs \subseteq SUBSET R!Options
  /\ LongestLength \in Nat /\ MaxCalls \in Nat /\ MaxContent \in Nat
  /\ L!LinesAreBytes

responseVars == <<config, sendBuf, old, resp, calls, said>>
serviceVars == <<vars, responseVars, line>>

ServiceInit == Init /\ R!Off /\ line = [kind |-> "none", text |-> <<>>]

(* on_received(), up to the call of the routine. *)
Received ==
  /\ Receive
  /\ IF running' THEN R!Attach ELSE UNCHANGED responseVars

(* What the routine does with the response. *)
Routine == running /\ script \in Busy /\ R!Call /\ UNCHANGED vars

Done == RoutineDone /\ R!DetachDone
Abandoned == RoutineAbandons /\ R!DetachAbandoned

(* send_buf was sent; the connection object is given up. *)
Sent == Flush /\ R!TurnOff
Closed == ConnClosed /\ R!TurnOff

ServiceNext ==
  \/ /\ line.kind = "none" /\ UNCHANGED line
     /\ \/ (ClientComes \/ ClientSends) /\ UNCHANGED responseVars
        \/ Received \/ Routine \/ Done \/ Abandoned \/ Sent \/ Closed
  \/ script = <<>> /\ L!ReadLine /\ UNCHANGED <<vars, responseVars>>

ServiceSpec == ServiceInit /\ [][ServiceNext]_serviceVars

-----------------------------------------------------------------------------
(* Properties *)

(* Every variable has its type. *)
ServiceTypeOK == TypeOK /\ R!ResponseTypeOK

(* "response status code is permitted to update at any time"                *)
(* (http_response.h:81-82), "you do not need to write header                *)
(* `Content-Length' because it's handled by http_response_t automatically"  *)
(* (http_response.h:90-91): in whatever order a routine gives code, headers *)
(* and content, what is sent is that response, with the length of its       *)
(* content and each automatic header once; patching touches nothing else.   *)
SentAsAsked == pending => \E word \in {"OK", "ER"} : sendBuf = R!Asked(word)

(* A routine that gives up leaves nothing of its response to be sent, and   *)
(* neither does a client that goes away.                                    *)
NothingAbandoned == ~running /\ ~pending => sendBuf = <<>>

(* However a line is written, the request says what the line says: decoding *)
(* one part in place spoils none of the others, and nothing is decoded      *)
(* twice or split after it was decoded (http_request.cpp, decode_i).        *)
LineAsDefined == L!LineAsDefined
=============================================================================

------------------------------- MODULE Mailbox -------------------------------
(***************************************************************************)
(* What a program running on a core may rely on when it talks to the host  *)
(* through tohost and fromhost: a request the mailbox has accepted is      *)
(* handed to the host once, in order, and its answer comes back once, in   *)
(* order. SimHtif implements this specification.                           *)
(*                                                                         *)
(* Requests are numbered; the answer to a request bears its number.        *)
(***************************************************************************)
EXTENDS Naturals, Sequences

CONSTANTS
  Core,
  MaxRequests  (* a program makes at most this many, then may exit         *)

VARIABLES
  asked,       (* number of requests accepted                              *)
  request,     (* the request the host has not fetched yet, 0 if none      *)
  answers,     (* requests fetched, not yet answered to the program        *)
  taken        (* number of the last answer the program has taken          *)

vars == <<asked, request, answers, taken>>

Exit == MaxRequests + 1

Init ==
  /\ asked = [c \in Core |-> 0]
  /\ request = [c \in Core |-> 0]
  /\ answers = [c \in Core |-> <<>>]
  /\ taken = [c \in Core |-> 0]

(* What the program does with its mailbox between two visits of the host:  *)
(* it may take an answer and may leave a request.                          *)
Use(c, take, ask) ==
  /\ take \/ ask # 0
  /\ take => answers[c] # <<>> /\ Head(answers[c]) = taken[c] + 1
  /\ taken' = IF take THEN [taken EXCEPT ![c] = @ + 1] ELSE taken
  /\ answers' = IF take THEN [answers EXCEPT ![c] = Tail(@)] ELSE answers
  /\ ask # 0 => request[c] = 0 /\ ask \in {asked[c] + 1, Exit}
  /\ request' = IF ask # 0 THEN [request EXCEPT ![c] = ask] ELSE request
  /\ asked' = IF ask \in 1 .. MaxRequests THEN [asked EXCEPT ![c] = ask] ELSE asked

(* The host fetches a request.                                             *)
Fetch(c) ==
  /\ request[c] # 0
  /\ request' = [request EXCEPT ![c] = 0]
  /\ answers' = IF request[c] = Exit THEN answers
                ELSE [answers EXCEPT ![c] = Append(@, request[c])]
  /\ UNCHANGED <<asked, taken>>

(* The host stops the core; what is in its mailbox is discarded.           *)
Halt(c) ==
  /\ request' = [request EXCEPT ![c] = 0]
  /\ answers' = [answers EXCEPT ![c] = <<>>]
  /\ UNCHANGED <<asked, taken>>

Next ==
  \E c \in Core :
    \/ \E take \in BOOLEAN, ask \in 0 .. Exit : Use(c, take, ask)
    \/ Fetch(c)
    \/ Halt(c)

Spec == Init /\ [][Next]_vars
=============================================================================

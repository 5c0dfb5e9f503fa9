------------------------------ MODULE SqlGate -------------------------------
(***************************************************************************)
(* What the proxy promises of a session, whatever the protocol: the        *)
(* client's requests are dealt with one after the other, each once and for *)
(* all; a refused one is not sent on; and the server runs nothing but what *)
(* was sent on after a decision to let it pass, in that order.  Requests   *)
(* that make the server run something but hold no SQL text are the         *)
(* exception: nobody decides about them.                                   *)
(*                                                                         *)
(* PgSession and MySqlSession implement this specification; their          *)
(* refinement mappings say which of their states is a decision.            *)
(***************************************************************************)
EXTENDS Naturals, Sequences

CONSTANT Ids         \* the places of the client's stream

VARIABLES
  reached,           \* how many requests have been dealt with
  decision,          \* per request: open, pass or refuse
  flight,            \* the requests on their way to the server
  ran,               \* the requests the server has run
  blank              \* the requests that hold no SQL text and yet make it run something

vars == <<reached, decision, flight, ran, blank>>

Init ==
  /\ reached = 0 /\ decision = [i \in Ids |-> "open"] /\ flight = <<>>
  /\ ran = {} /\ blank = {}

\* The client makes a request without SQL text.
OfferBlank ==
  /\ \E i \in Ids : i > reached /\ blank' = blank \cup {i}
  /\ UNCHANGED <<reached, decision, flight, ran>>

\* The next request; none is passed over and none is taken up again.
Deal == reached + 1 \in Ids /\ reached' = reached + 1

SendOn == flight' = Append(flight, reached + 1)

Decide(d) == decision' = [decision EXCEPT ![reached + 1] = d]

Pass == Deal /\ Decide("pass") /\ SendOn /\ UNCHANGED <<ran, blank>>

Refuse == Deal /\ Decide("refuse") /\ UNCHANGED <<flight, ran, blank>>

\* There is nothing to decide about a request without SQL text.
SendUndecided == Deal /\ SendOn /\ UNCHANGED <<decision, ran, blank>>

\* Discarded in the recovery from an error, or answered without the server.
Discard == Deal /\ UNCHANGED <<decision, flight, ran, blank>>

\* The server takes the next request; it may run it if it was let through,
\* or if there was no SQL text to decide about.
Serve ==
  /\ flight # <<>>
  /\ flight' = Tail(flight)
  /\ \/ UNCHANGED ran
     \/ /\ decision[Head(flight)] = "pass" \/ Head(flight) \in blank
        /\ ran' = ran \cup {Head(flight)}
  /\ UNCHANGED <<reached, decision, blank>>

Next == OfferBlank \/ Pass \/ Refuse \/ SendUndecided \/ Discard \/ Serve

Spec == Init /\ [][Next]_vars

=============================================================================

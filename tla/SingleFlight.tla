----------------------------- MODULE SingleFlight -----------------------------
(***************************************************************************)
(* What the de-duplication of cold loads promises its callers: for each    *)
(* key at most one caller leads, the callers that arrive while the flight  *)
(* is open follow it, and landing hands every follower the very answer the *)
(* leader got.  A leader that fails leaves; its followers stay where they  *)
(* are.  SessionStore implements this module.                              *)
(***************************************************************************)
CONSTANTS Caller,   \* tasks that ask for a key
          Key,      \* what is asked for
          NoKey,    \* not a key
          NoAnswer  \* no answer yet

VARIABLES open,     \* keys that have a flight
          leads,    \* [Caller -> Key or NoKey]: the flight a caller leads
          follows,  \* [Caller -> Key or NoKey]: the flight a caller follows
          answer    \* [Caller -> an answer or NoAnswer]: what a caller was given

vars == <<open, leads, follows, answer>>

Aground(c) == leads[c] = NoKey /\ follows[c] = NoKey

Init ==
    /\ open = {}
    /\ leads = [c \in Caller |-> NoKey]
    /\ follows = [c \in Caller |-> NoKey]
    /\ answer = [c \in Caller |-> NoAnswer]

(* A caller asks for a key that has no flight: it leads one. *)
Lead(c, k) ==
    /\ Aground(c)
    /\ k \notin open
    /\ open' = open \cup {k}
    /\ leads' = [leads EXCEPT ![c] = k]
    /\ UNCHANGED <<follows, answer>>

(* A caller asks for a key that has a flight: it follows. *)
Follow(c, k) ==
    /\ Aground(c)
    /\ k \in open
    /\ follows' = [follows EXCEPT ![c] = k]
    /\ UNCHANGED <<open, leads, answer>>

(* The leader lands: it and all its followers get the same answer. *)
Land(c) ==
    /\ leads[c] # NoKey
    /\ answer'[c] # NoAnswer
    /\ open' = open \ {leads[c]}
    /\ leads' = [leads EXCEPT ![c] = NoKey]
    /\ follows' = [d \in Caller |->
                     IF follows[d] = leads[c] THEN NoKey ELSE follows[d]]
    /\ answer' = [d \in Caller |->
                     IF d = c \/ follows[d] = leads[c] THEN answer'[c] ELSE answer[d]]

(* The leader fails: the flight stays open and nobody leads it. *)
Fail(c) ==
    /\ leads[c] # NoKey
    /\ leads' = [leads EXCEPT ![c] = NoKey]
    /\ UNCHANGED <<open, follows, answer>>

(* A caller in no flight is answered from the cache or forgets its answer. *)
Elsewhere(c) ==
    /\ Aground(c)
    /\ answer' = [answer EXCEPT ![c] = answer'[c]]
    /\ UNCHANGED <<open, leads, follows>>

(* A restart loses every flight. *)
Restart ==
    /\ open' = {}
    /\ leads' = [c \in Caller |-> NoKey]
    /\ follows' = [c \in Caller |-> NoKey]
    /\ answer' = [c \in Caller |-> NoAnswer]

Next ==
    \/ \E c \in Caller : \/ \E k \in Key : Lead(c, k) \/ Follow(c, k)
                         \/ Land(c)
                         \/ Fail(c)
                         \/ Elsewhere(c)
    \/ Restart

Spec == Init /\ [][Next]_vars
===============================================================================

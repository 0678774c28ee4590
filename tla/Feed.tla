-------------------------------- MODULE Feed --------------------------------
(***************************************************************************)
(* What a Broadcaster promises its readers, without its history, its       *)
(* channels and their sizes: values are published one after another; a     *)
(* reader that joins is owed an unbroken run of recent ones; it takes what *)
(* it is owed in the order of publication, each once; and a value is       *)
(* withheld only from a reader that has something left to take             *)
(* (internal/broadcast/broadcast.go: "a subscriber that falls behind       *)
(* misses values rather than stalling the producer").                      *)
(***************************************************************************)
EXTENDS Naturals

CONSTANTS Readers

VARIABLES
    last,    \* values published
    state,   \* "none", "live" or "closed": nothing more is published to it
    owed,    \* the values a reader will take
    taken    \* the last it took, or the one before its first

vars == <<last, state, owed, taken>>

Init ==
    /\ last = 0
    /\ state = [r \in Readers |-> "none"]
    /\ owed = [r \in Readers |-> {}]
    /\ taken = [r \in Readers |-> 0]

Join(r) ==
    /\ state[r] = "none"
    /\ state' = [state EXCEPT ![r] = "live"]
    /\ \E from \in 0 .. last : \E to \in from .. last :
        /\ taken' = [taken EXCEPT ![r] = from]
        /\ owed' = [owed EXCEPT ![r] = from + 1 .. to]
    /\ UNCHANGED last

Leave(r) ==
    /\ state[r] # "none"
    /\ state' = [state EXCEPT ![r] = "none"]
    /\ owed' = [owed EXCEPT ![r] = {}]
    /\ UNCHANGED <<last, taken>>

Publish ==
    /\ last' = last + 1
    /\ \E missed \in SUBSET {r \in Readers : state[r] = "live" /\ owed[r] # {}} :
        owed' = [r \in Readers |-> IF state[r] = "live" /\ r \notin missed
                                   THEN owed[r] \union {last + 1} ELSE owed[r]]
    /\ UNCHANGED <<state, taken>>

Close ==
    /\ state' = [r \in Readers |-> IF state[r] = "live" THEN "closed" ELSE state[r]]
    /\ UNCHANGED <<last, owed, taken>>

Take(r) ==
    /\ \E v \in owed[r] :
        /\ \A w \in owed[r] : v <= w
        /\ taken' = [taken EXCEPT ![r] = v]
        /\ owed' = [owed EXCEPT ![r] = @ \ {v}]
    /\ UNCHANGED <<last, state>>

Next ==
    \/ \E r \in Readers : Join(r) \/ Leave(r) \/ Take(r)
    \/ Publish \/ Close

Spec == Init /\ [][Next]_vars
=============================================================================

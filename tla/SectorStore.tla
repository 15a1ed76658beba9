---------------------------- MODULE SectorStore ----------------------------
(* What the buffer cache promises its users: a store of sectors in which   *)
(* nothing changes but what a thread changes, and every change is seen by  *)
(* every later look.                                                       *)
CONSTANTS Thread, Sector, Part, Value

VARIABLES content,  \* what each sector holds
          part,     \* the byte ranges a thread has changed and not yet saved
          got       \* what each thread saw when it last looked

Content == [Part -> Value]

Init ==
    /\ content \in [Sector -> Content]
    /\ part = [t \in Thread |-> {}]
    /\ got \in [Thread -> Content]

Look(t, s) == got' = [got EXCEPT ![t] = content[s]] /\ UNCHANGED <<content, part>>

Change(t, s, P, v) ==
    /\ part[t] = {}
    /\ part' = [part EXCEPT ![t] = P]
    /\ content' = [content EXCEPT ![s] = [p \in Part |-> IF p \in P THEN v ELSE @[p]]]
    /\ UNCHANGED got

Save(t) == part' = [part EXCEPT ![t] = {}] /\ UNCHANGED <<content, got>>

Next ==
    \E t \in Thread :
        \/ \E s \in Sector : Look(t, s)
        \/ \E s \in Sector, P \in SUBSET Part, v \in Value : Change(t, s, P, v)
        \/ Save(t)

Spec == Init /\ [][Next]_<<content, part, got>>
=============================================================================

------------------------------- MODULE ZoneSpec ------------------------------
(***************************************************************************)
(* What the zone allocator promises (spec 4.4, sections 7 and 8): a zone  *)
(* created from (element size, total bytes) has total / size slots;        *)
(* zalloc hands out a slot not in use, zfree takes back a slot in use, and *)
(* allocating beyond capacity (invariant 12), freeing an address not in    *)
(* use (section 7), a zero size and a full zone table are fatal panics.    *)
(* `call` is the last call seen at the interface, so that a call that     *)
(* returns without doing anything is still a step of the specification.   *)
(***************************************************************************)
EXTENDS Integers, FiniteSets

CONSTANTS
    MAX_NUM_ZONES,  \* size of the zone table
    Requests        \* the (size, max) pairs zone_create is called with

ZoneIds == 0 .. (MAX_NUM_ZONES - 1)

VARIABLES
    zoneUsed,   \* the zones created so far
    cap,        \* cap[z]: the slots of zone z
    inuse,      \* inuse[z]: the slots of z handed out and not freed
    down,       \* a fatal panic has happened
    call        \* the last zalloc or zfree: op, zone, slot

vars == <<zoneUsed, cap, inuse, down, call>>

NoCall == [op |-> "none", zone |-> 0, addr |-> 0]

Init ==
    /\ zoneUsed = {}
    /\ cap = [z \in ZoneIds |-> 0]
    /\ inuse = [z \in ZoneIds |-> {}]
    /\ down = FALSE
    /\ call = NoCall

Create(r) ==
    LET free == ZoneIds \ zoneUsed IN
    /\ ~down
    /\ IF free = {} \/ r.size = 0 \/ r.max = 0
       THEN /\ down' = TRUE
            /\ UNCHANGED <<zoneUsed, cap, inuse>>
       ELSE LET i == CHOOSE k \in free : \A k2 \in free : k <= k2 IN
            /\ zoneUsed' = zoneUsed \cup {i}
            /\ cap' = [cap EXCEPT ![i] = r.max \div r.size]
            /\ UNCHANGED <<inuse, down>>
    /\ call' = NoCall

Alloc(z) ==
    /\ ~down /\ z \in zoneUsed
    /\ IF Cardinality(inuse[z]) = cap[z]
       THEN /\ down' = TRUE
            /\ call' = [op |-> "alloc", zone |-> z, addr |-> 0]
            /\ UNCHANGED inuse
       ELSE \E a \in (1 .. cap[z]) \ inuse[z] :
            /\ inuse' = [inuse EXCEPT ![z] = @ \cup {a}]
            /\ call' = [op |-> "alloc", zone |-> z, addr |-> a]
            /\ UNCHANGED down
    /\ UNCHANGED <<zoneUsed, cap>>

Free(z, a) ==
    /\ ~down /\ z \in zoneUsed /\ a \in 1 .. cap[z]
    /\ IF a \in inuse[z]
       THEN /\ inuse' = [inuse EXCEPT ![z] = @ \ {a}]
            /\ UNCHANGED down
       ELSE /\ down' = TRUE
            /\ UNCHANGED inuse
    /\ call' = [op |-> "free", zone |-> z, addr |-> a]
    /\ UNCHANGED <<zoneUsed, cap>>

Next ==
    \/ \E r \in Requests : Create(r)
    \/ \E z \in ZoneIds : Alloc(z)
    \/ \E z \in zoneUsed : \E a \in 1 .. cap[z] : Free(z, a)

Spec == Init /\ [][Next]_vars
=============================================================================

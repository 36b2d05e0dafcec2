---------------------------- MODULE MemoryBudget ----------------------------
(***************************************************************************)
(* Support/MemoryBudget.cpp and the trimming of the caches that            *)
(* ONScripter::serviceMemoryBudget does once a frame.  A charge lives as   *)
(* long as somebody holds a lease of it: the cache that retains the        *)
(* resource, or a user (a loader staging it, a sprite or channel using it).*)
(* Every operation is one critical section of the budget's mutex, taken by *)
(* main or by a worker.  Sizes are counted in units.  The code's sizes are *)
(* unsigned words: the subtraction of two that reserve() does not order by *)
(* a test of their own is taken modulo the word; what is in use stays      *)
(* within it, as the invariants show.                                      *)
(***************************************************************************)
EXTENDS Integers, FiniteSets

CONSTANTS
    Charge,      \* charge objects; one is made again when nobody holds it
    Kind,        \* the kinds of resource, among them Prefetch and Pools
    Prefetch,
    Pools,
    Configured,  \* the budget
    Word,        \* size_t holds 0 to Word - 1
    Sizes,       \* the sizes that are reserved
    MaxPolls     \* polls of the memory situation in the 30 s of a restriction

ASSUME ConstantsAssumption ==
    /\ {Prefetch, Pools} \subseteq Kind
    /\ Word \in Nat \ {0}
    /\ Configured \in 0..(Word - 1)
    /\ Sizes \subseteq 0..(Word - 1)
    /\ MaxPolls \in Nat \ {0}

VARIABLES
    limit,       \* stats.limit
    used,        \* stats.used
    bytes,       \* stats.bytes, by kind
    trim,        \* the trim requested
    needed,      \* ... and the headroom asked for
    restricted,  \* polls until restrictedUntil, 0 when not restricted
    charge,      \* the charges
    main,        \* where main is in serviceMemoryBudget
    goal         \* the trim main is doing: pressure or not, target and headroom

stats == <<limit, used, bytes>>
request == <<trim, needed, restricted>>
vars == <<stats, request, charge, main, goal>>

Holders == {"cache", "user"}
ChargeRecord == [kind : Kind, bytes : Nat, holders : SUBSET Holders]
Dead == [kind |-> Pools, bytes |-> 0, holders |-> {}]
NoGoal == [pressure |-> FALSE, target |-> 0, needed |-> 0]

TypeOK ==
    /\ limit \in Nat /\ used \in Nat
    /\ bytes \in [Kind -> Nat]
    /\ trim \in {"none", "idle", "budget", "pressure"}
    /\ needed \in Nat
    /\ restricted \in 0..MaxPolls
    /\ charge \in [Charge -> ChargeRecord]
    /\ main \in {"frame", "measure", "take", "idle", "trim", "late"}
    /\ goal \in [pressure : BOOLEAN, target : Nat, needed : Nat]

Larger(a, b) == IF a > b THEN a ELSE b
Smaller(a, b) == IF a < b THEN a ELSE b
\* Subtraction of words.
Difference(a, b) == IF b <= a THEN a - b ELSE a - b + Word

Init ==
    /\ limit = Configured /\ used = 0
    /\ bytes = [k \in Kind |-> 0]
    /\ trim = "none" /\ needed = 0 /\ restricted = 0
    /\ charge = [c \in Charge |-> Dead]
    /\ main = "frame"
    /\ goal = NoGoal

\* ~Charge: what a charge nobody holds any more gives back.
Drop(c, holders) ==
    LET left == charge[c].holders \ holders
    IN  IF left = {}
          THEN /\ charge' = [charge EXCEPT ![c] = Dead]
               /\ used' = used - charge[c].bytes
               /\ bytes' = [bytes EXCEPT ![charge[c].kind] = @ - charge[c].bytes]
          ELSE /\ charge' = [charge EXCEPT ![c].holders = left]
               /\ UNCHANGED <<used, bytes>>

\* requestTrim.
RequestTrim(pressure, headroom) ==
    /\ needed' = Larger(needed, headroom)
    /\ IF pressure
         THEN /\ limit' = Configured \div 4
              /\ restricted' = MaxPolls
              /\ trim' = "pressure"
         ELSE /\ trim' = IF trim \in {"none", "idle"} THEN "budget" ELSE trim
              /\ UNCHANGED <<limit, restricted>>

-----------------------------------------------------------------------------
(* Faulty variants of the operations below; each breaks a property.        *)

\* reserve() leaving it to the subtraction whether the size fits at all.
AdmitsWrapped(kind, size) ==
    /\ used <= Difference(limit, size)
    /\ kind = Prefetch => restricted = 0

\* reserve()'s test.
Admits(kind, size) ==
    /\ size <= limit
    /\ used <= Difference(limit, size)
    /\ kind = Prefetch => restricted = 0

\* reserve() asking for a trim whatever has been asked for.
RefuseOverwriting(kind, size) ==
    /\ ~Admits(kind, size)
    /\ IF size <= limit /\ restricted = 0
         THEN /\ trim' = "budget"
              /\ needed' = Larger(needed, size)
         ELSE /\ trim' = "budget"
              /\ UNCHANGED needed
    /\ UNCHANGED <<stats, restricted, charge, main, goal>>

\* reclassify() moving a charge without its bytes.
ReclassifyBare(c, kind) ==
    /\ charge[c].holders # {}
    /\ charge' = [charge EXCEPT ![c].kind = kind]
    /\ UNCHANGED <<stats, request, main, goal>>

\* A trim that could not reach its target asking for another, whether or not
\* it has evicted anything.
TrimDoneRetrying ==
    /\ main = "trim"
    /\ \/ used <= goal.target
       \/ \A c \in Charge : "cache" \in charge[c].holders =>
                             ~goal.pressure /\ charge[c].kind = Pools
    /\ IF used > goal.target
         THEN RequestTrim(goal.pressure, goal.needed)
         ELSE UNCHANGED <<limit, request>>
    /\ main' = "frame" /\ goal' = NoGoal
    /\ UNCHANGED <<used, bytes, charge>>

-----------------------------------------------------------------------------
(* Leases, on any thread.                                                  *)

\* reserve(): a lease for a user, or for a cache.
Reserve(c, kind, size) ==
    /\ charge[c].holders = {}
    /\ Admits(kind, size)
    /\ used' = used + size
    /\ bytes' = [bytes EXCEPT ![kind] = @ + size]
    /\ \E h \in Holders :
          charge' = [charge EXCEPT ![c] = [kind |-> kind, bytes |-> size, holders |-> {h}]]
    /\ UNCHANGED <<limit, request, main, goal>>

\* reserve() declines; a request that fits asks for a trim.
Refuse(kind, size) ==
    /\ ~Admits(kind, size)
    /\ IF size <= limit /\ restricted = 0
         THEN /\ trim' = IF trim \in {"none", "idle"} THEN "budget" ELSE trim
              /\ needed' = Larger(needed, size)
         ELSE UNCHANGED <<trim, needed>>
    /\ UNCHANGED <<stats, restricted, charge, main, goal>>

\* A cache and a user come to share the resource and its charge.
Share(c) ==
    /\ charge[c].holders # {}
    /\ charge' = [charge EXCEPT ![c].holders = Holders]
    /\ UNCHANGED <<stats, request, main, goal>>

\* The user's lease goes.
Release(c) ==
    /\ "user" \in charge[c].holders
    /\ Drop(c, {"user"})
    /\ UNCHANGED <<limit, request, main, goal>>

ShrinkTo(c, size) ==
    /\ charge[c].holders # {}
    /\ size < charge[c].bytes
    /\ used' = used - (charge[c].bytes - size)
    /\ bytes' = [bytes EXCEPT ![charge[c].kind] = @ - (charge[c].bytes - size)]
    /\ charge' = [charge EXCEPT ![c].bytes = size]
    /\ UNCHANGED <<limit, request, main, goal>>

Reclassify(c, kind) ==
    /\ charge[c].holders # {}
    /\ bytes' = [k \in Kind |->
          bytes[k] - (IF k = charge[c].kind THEN charge[c].bytes ELSE 0)
                   + (IF k = kind THEN charge[c].bytes ELSE 0)]
    /\ charge' = [charge EXCEPT ![c].kind = kind]
    /\ UNCHANGED <<limit, used, request, main, goal>>

-----------------------------------------------------------------------------
(* The main thread: serviceMemoryBudget.                                   *)

\* pollPressure, once a second: idle trimming, and the end of a restriction.
Poll ==
    /\ main = "frame"
    /\ trim' = IF trim = "none" THEN "idle" ELSE trim
    /\ IF restricted = 0
         THEN UNCHANGED <<restricted, limit>>
         ELSE /\ restricted' \in 0..(restricted - 1)
              /\ limit' = IF restricted' = 0 THEN Configured ELSE limit
    /\ main' = "measure"
    /\ UNCHANGED <<used, bytes, needed, charge, goal>>

\* The rest of pollPressure: the system may be short of memory.
Measure ==
    /\ main = "measure"
    /\ RequestTrim(TRUE, 0) \/ UNCHANGED <<limit, request>>
    /\ main' = "take"
    /\ UNCHANGED <<used, bytes, charge, goal>>

\* A frame in the same second.  (The early return while servicing never
\* happens: servicing is set only around an upload that runs no frame.)
SkipPoll ==
    /\ main = "frame"
    /\ main' = "take"
    /\ UNCHANGED <<stats, request, charge, goal>>

\* The system (Android), or the script's moreram, says memory is short.
LowMemory ==
    /\ main = "frame"
    /\ RequestTrim(TRUE, 0)
    /\ UNCHANGED <<used, bytes, charge, main, goal>>

\* takeTrimRequest, and the target it sets.
TakeTrim ==
    /\ main = "take"
    /\ trim' = "none" /\ needed' = 0
    /\ main' = CASE trim = "none" -> "frame"
                 [] trim = "idle" -> "idle"
                 [] OTHER -> "trim"
    /\ goal' = IF main' = "trim"
                 THEN [pressure |-> trim = "pressure",
                       target |-> IF trim = "pressure" THEN 0
                                  ELSE limit - Smaller(needed, limit),
                       needed |-> needed]
                 ELSE goal
    /\ UNCHANGED <<stats, restricted, charge>>

Evictable == {c \in Charge : "cache" \in charge[c].holders}

\* A pooled buffer that has been idle is freed; then there may be no time.
EvictIdle(c, next) ==
    /\ main = "idle"
    /\ c \in Evictable /\ charge[c].kind = Pools
    /\ Drop(c, {"cache"})
    /\ main' = next
    /\ UNCHANGED <<limit, request, goal>>

IdleDone ==
    /\ main = "idle"
    /\ main' = "frame"
    /\ UNCHANGED <<stats, request, charge, goal>>

\* One allocation is evicted; then there may be no time for another.
Evict(c, next) ==
    /\ main = "trim"
    /\ used > goal.target
    /\ c \in Evictable
    /\ Drop(c, {"cache"})
    /\ main' = next
    /\ UNCHANGED <<limit, request, goal>>

\* The target is reached, or nothing is left to evict; short of pressure,
\* a buffer pooled in the last second stays.
TrimDone ==
    /\ main = "trim"
    /\ \/ used <= goal.target
       \/ \A c \in Evictable : ~goal.pressure /\ charge[c].kind = Pools
    /\ main' = "frame" /\ goal' = NoGoal
    /\ UNCHANGED <<stats, request, charge>>

\* Out of time: the rest is asked for again, for the next frame.
TrimLate ==
    /\ main = "late"
    /\ IF used > goal.target
         THEN RequestTrim(goal.pressure, goal.needed)
         ELSE UNCHANGED <<limit, request>>
    /\ main' = "frame" /\ goal' = NoGoal
    /\ UNCHANGED <<used, bytes, charge>>

-----------------------------------------------------------------------------

Lease(c) ==
    \/ \E k \in Kind, n \in Sizes : Reserve(c, k, n)
    \/ \E k \in Kind : Reclassify(c, k)
    \/ \E n \in Sizes : ShrinkTo(c, n)
    \/ Share(c) \/ Release(c)

EvictInTime == \E c \in Charge : Evict(c, "trim") \/ EvictIdle(c, "idle")
EvictLast == \E c \in Charge : Evict(c, "late") \/ EvictIdle(c, "frame")
EvictOne == EvictInTime \/ EvictLast

Service == Poll \/ SkipPoll \/ Measure \/ TakeTrim \/ EvictOne \/ IdleDone \/ TrimDone \/ TrimLate

Next ==
    \/ Service
    \/ LowMemory
    \/ \E c \in Charge : Lease(c)
    \/ \E k \in Kind, n \in Sizes : Refuse(k, n)

Spec == Init /\ [][Next]_vars

\* Main runs its frames; time passes between them (Poll) and while it
\* evicts, which stops after 2 ms (EvictLast).
FairSpec == Spec /\ WF_vars(Service) /\ SF_vars(Poll) /\ SF_vars(EvictLast)

-----------------------------------------------------------------------------
(* Properties.                                                             *)

Live == {c \in Charge : charge[c].holders # {}}

\* The units that the charges of S hold, one by one, and how many they are.
Units(charges, S) == UNION {{c} \X (1..charges[c].bytes) : c \in S}
BytesOf(S) == Cardinality(Units(charge, S))

\* What is accounted, in all and by kind, is what the living charges hold:
\* sharing, shrinking, reclassifying and evicting never lose or repeat a
\* byte.  (stats.used, stats.bytes.)
Accounts ==
    /\ used = BytesOf(Live)
    /\ \A k \in Kind : bytes[k] = BytesOf({c \in Live : charge[c].kind = k})

\* No admission goes beyond the configured budget, and only a restriction
\* that lowered the limit under what was in use leaves more in use than it.
WithinLimit ==
    /\ used <= Configured
    /\ used > limit => restricted > 0

\* A trim asked for under pressure is done as one: nothing that declines an
\* admission meanwhile turns it into the gentler trim.  (requestTrim,
\* reserve, takeTrimRequest.)
PressureServed == trim = "pressure" ~> main = "trim" /\ goal.pressure

\* Memory is reported short, and something becomes evictable.
ReportsShortage == LowMemory \/ (Measure /\ RequestTrim(TRUE, 0))
CachesMore == ~(Evictable' \subseteq Evictable)

\* A restriction ends once memory is no longer reported short, although a
\* trim under pressure that runs out of time renews it: with nothing new to
\* evict such a trim comes to its end, whatever users keep on holding, and
\* does not ask for another.  (serviceMemoryBudget, pollPressure.)
RestrictionEnds ==
    <>[][~ReportsShortage /\ ~CachesMore]_vars => []<>(restricted = 0 /\ limit = Configured)
=============================================================================

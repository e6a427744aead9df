--------------------------- MODULE ConnTextProofs ---------------------------
(* Theorems about ConnText, for any endpoints, designs, batches and workers. *)
EXTENDS ConnText, SequenceTheorems, FiniteSetTheorems, TLAPS

\* A worker that has counted the pair it is on; that has both of its ends.
Late == {"lookup", "connect", "walk", "store"}
Ended == Late \cup {"count"}
Busy == Ended \cup {"resolve", "remember"}

(* Where a worker is in its check.                                         *)
Cursor(w) ==
  /\ pc[w] \notin Busy => ends[w] = <<>>
  /\ pc[w] = "idle" => subs[w] = <<>>
  /\ pc[w] # "idle" => request.gates[job[w]] # "reject"
  /\ pc[w] \in Busy => Len(subs[w]) < Len(request.checks[job[w]])
  /\ pc[w] = "sum" => Len(subs[w]) = Len(request.checks[job[w]])
  /\ Len(ends[w]) <= 2
  /\ pc[w] = "remember" => Len(ends[w]) < 2
  /\ pc[w] \in Ended => Len(ends[w]) = 2
  /\ verdict[w] # None <=> pc[w] = "store"

CursorInv == design \in Designs /\ \A w \in Workers : Cursor(w)

CachesOK ==
  /\ session \in [Ends -> Flag] /\ local \in [Ends -> Flag]
  /\ walked \in [Ends \X Ends -> Flag] /\ blurred \in BOOLEAN
  /\ dedup \in [Keys -> Flag] /\ leaves \in Nat /\ unique \in Nat

TypeInv == TypeOK /\ CursorInv

LEMMA RequestFacts ==
  ASSUME request \in Requests
  PROVE  /\ request.checks \in Seq(Seq(Ends \X Ends))
         /\ request.gates \in Seq({"reject", "pass", "fallback"})
         /\ request.pipeline \in BOOLEAN
         /\ Len(request.gates) = Len(request.checks)
         /\ \A c \in Checks : /\ request.checks[c] \in Seq(Ends \X Ends)
                              /\ Len(request.checks[c]) \in Nat \ {0}
BY ConnTextAssumption DEF Request, Checks

LEMMA PairFacts ==
  ASSUME TypeInv, NEW w \in Workers, pc[w] \in Busy
  PROVE  /\ job[w] \in Checks /\ job[w] # 0
         /\ Len(subs[w]) + 1 \in DOMAIN request.checks[job[w]]
         /\ Pair(w) \in Ends \X Ends /\ Pair(w)[1] \in Ends /\ Pair(w)[2] \in Ends
         /\ Pair(w) \in Asked
         /\ Len(ends[w]) < 2 => NextEnd(w) \in Ends
<1>1. job[w] \in Checks /\ pc[w] # "idle"
  BY DEF TypeInv, TypeOK, Checks, Busy, Ended, Late
<1>2. request.checks[job[w]] \in Seq(Ends \X Ends)
  BY <1>1, RequestFacts DEF TypeInv, TypeOK
<1>3. Len(subs[w]) + 1 \in 1 .. Len(request.checks[job[w]])
  BY <1>2 DEF TypeInv, TypeOK, CursorInv, Cursor
<1>4. Pair(w) \in Ends \X Ends
  BY <1>2, <1>3 DEF Pair
<1>5. Len(ends[w]) < 2 => NextEnd(w) \in Ends
  <2>1. Len(ends[w]) \in Nat
    BY DEF TypeInv, TypeOK
  <2>2. Len(ends[w]) < 2 => Len(ends[w]) + 1 \in {1, 2}
    BY <2>1
  <2> QED
    BY <1>4, <2>2 DEF NextEnd
<1>6. Len(subs[w]) + 1 \in DOMAIN request.checks[job[w]]
  BY <1>2, <1>3
<1>7. request.gates[job[w]] # "reject"
  BY <1>1 DEF TypeInv, CursorInv, Cursor
<1>8. Pair(w) \in Asked
  BY <1>1, <1>4, <1>6, <1>7 DEF Asked, Pair
<1>9. job[w] # 0
  BY <1>1 DEF TypeInv, TypeOK
<1> QED
  BY <1>1, <1>4, <1>5, <1>6, <1>8, <1>9

LEMMA FlagFacts ==
  ASSUME TypeInv, NEW w \in Workers, NEW e \in Ends
  PROVE  Cached(w, e) \in Flag /\ Answers(w, e) \in BOOLEAN
BY DEF TypeInv, TypeOK, Cached, Answers

\* The keys of two ends are keys of the dedup cache.
LEMMA KeyFacts ==
  ASSUME TypeInv, NEW w \in Workers, pc[w] \in Ended
  PROVE  /\ KeyOf(w) \in Keys
         /\ Len(ends[w]) = 2 /\ ends[w][1] \in BOOLEAN /\ ends[w][2] \in BOOLEAN
         /\ KeyOf(w)[1] = Coarse[Pair(w)[1]] /\ KeyOf(w)[2] = ends[w][1]
         /\ KeyOf(w)[3] = Coarse[Pair(w)[2]] /\ KeyOf(w)[4] = ends[w][2]
<1>1. Pair(w)[1] \in Ends /\ Pair(w)[2] \in Ends
  BY PairFacts DEF Busy
<1>2. ends[w] \in Seq(BOOLEAN) /\ Len(ends[w]) = 2
  BY DEF TypeInv, TypeOK, CursorInv, Cursor
<1>3. ends[w][1] \in BOOLEAN /\ ends[w][2] \in BOOLEAN
  BY <1>2
<1> QED
  BY <1>1, <1>2, <1>3 DEF KeyOf, Key, Keys, Bases

LEMMA RepsFacts ==
  ASSUME TypeInv, NEW w \in Workers, pc[w] \in Busy
  PROVE  Reps(Pair(w)) \in Ends \X Ends
<1>1. Pair(w)[1] \in Ends /\ Pair(w)[2] \in Ends
  BY PairFacts
<1>2. design.rep \in [Ends -> Ends]
  BY DEF TypeInv, TypeOK, Design
<1> QED
  BY <1>1, <1>2 DEF Reps

-----------------------------------------------------------------------------
(* Types.                                                                  *)

LEMMA TypeInit == Init => TypeInv
<1> SUFFICES ASSUME Init PROVE TypeInv
  OBVIOUS
<1>1. request \in Requests /\ design \in Design
  BY ConnTextAssumption DEF Init
<1>2. NoEnds \in [Ends -> Flag] /\ [k \in Keys |-> None] \in [Keys -> Flag]
      /\ [q \in Ends \X Ends |-> None] \in [Ends \X Ends -> Flag]
  BY DEF NoEnds, Flag
<1>3. Len(request.checks) \in Nat
  BY <1>1, RequestFacts
<1>4. TypeOK
  <2>1. None \in Flag /\ <<>> \in Seq(BOOLEAN) /\ 0 \in 0 .. Len(request.checks)
    BY <1>3 DEF Flag
  <2>2. /\ session \in [Ends -> Flag] /\ local \in [Ends -> Flag] /\ dedup \in [Keys -> Flag]
        /\ walked \in [Ends \X Ends -> Flag] /\ blurred \in BOOLEAN
    BY <1>2 DEF Init
  <2>3. /\ subs \in [Workers -> Seq(BOOLEAN)] /\ ends \in [Workers -> Seq(BOOLEAN)]
        /\ verdict \in [Workers -> Flag] /\ tally \in [Workers -> Nat]
        /\ results \in [Checks -> Seq(BOOLEAN)]
    BY <2>1 DEF Init
  <2> QED
    BY <1>1, <2>1, <2>2, <2>3 DEF Init, TypeOK
<1>5. CursorInv
  BY DEF Init, CursorInv, Cursor, Busy, Ended, Late
<1> QED
  BY <1>4, <1>5 DEF TypeInv

\* An answer moves a worker to the next pair or to the end of its check.
LEMMA ConcludeTypes ==
  ASSUME TypeInv, NEW w \in Workers, pc[w] \in Busy, NEW v \in BOOLEAN, Conclude(w, v),
         UNCHANGED <<input, taken, job, clamped, tally, results>>, CachesOK'
  PROVE  TypeInv'
<1>1. subs[w] \in Seq(BOOLEAN)
  BY DEF TypeInv, TypeOK
<1>2. Append(subs[w], v) \in Seq(BOOLEAN) /\ Len(Append(subs[w], v)) = Len(subs[w]) + 1
  BY <1>1
<1>3. TypeOK'
  <2>1. \A u \in Workers : pc'[u] = "idle" <=> job'[u] = 0
    BY DEF Conclude, TypeInv, TypeOK, Busy, Ended, Late
  <2>2. /\ pc' \in [Workers -> {"idle", "resolve", "remember", "count", "lookup", "connect",
                                "walk", "store", "sum"}]
        /\ subs' \in [Workers -> Seq(BOOLEAN)] /\ ends' \in [Workers -> Seq(BOOLEAN)]
        /\ verdict' \in [Workers -> Flag]
    BY <1>2 DEF Conclude, TypeInv, TypeOK, Flag
  <2> QED
    BY <2>1, <2>2 DEF TypeInv, TypeOK, CachesOK, input, Checks
<1>4. Len(request.checks[job[w]]) \in Nat /\ Len(subs[w]) \in Nat
  BY <1>1, PairFacts, RequestFacts DEF TypeInv, TypeOK
<1>5. CursorInv'
  <2> SUFFICES ASSUME NEW u \in Workers PROVE Cursor(u)'
    BY DEF CursorInv, TypeInv, input
  <2>1. CASE u = w
    BY <1>2, <1>4, <2>1 DEF Conclude, TypeInv, TypeOK, CursorInv, Cursor, Busy, Ended, Late, input
  <2>2. CASE u # w
    BY <2>2 DEF Conclude, TypeInv, TypeOK, CursorInv, Cursor, input
  <2> QED
    BY <2>1, <2>2
<1> QED
  BY <1>3, <1>5 DEF TypeInv

\* Steps that move no worker but w, and leave its check alone.
LEMMA MovesTypes ==
  ASSUME TypeInv, NEW w \in Workers, UNCHANGED <<input, taken, job, clamped, subs, results>>,
         pc[w] # "idle", NEW at \in Busy, pc' = [pc EXCEPT ![w] = at],
         ends' \in [Workers -> Seq(BOOLEAN)], tally' \in [Workers -> Nat],
         verdict' \in [Workers -> Flag], CachesOK',
         \A u \in Workers : u # w => ends'[u] = ends[u] /\ verdict'[u] = verdict[u],
         Cursor(w)'
  PROVE  TypeInv'
<1>1. pc' \in [Workers -> {"idle", "resolve", "remember", "count", "lookup", "connect",
                           "walk", "store", "sum"}]
  BY DEF TypeInv, TypeOK, Busy, Ended, Late
<1>2. \A u \in Workers : pc'[u] = "idle" <=> job'[u] = 0
  BY DEF TypeInv, TypeOK, Busy, Ended, Late
<1>3. TypeOK'
  BY <1>1, <1>2 DEF TypeInv, TypeOK, CachesOK, input, Checks
<1>4. ASSUME NEW u \in Workers, u # w PROVE Cursor(u)'
  <2>1. pc'[u] = pc[u] /\ Cursor(u)
    BY <1>4 DEF TypeInv, TypeOK, CursorInv
  <2> QED
    BY <1>4, <2>1 DEF Cursor, input
<1> QED
  BY <1>3, <1>4 DEF TypeInv, CursorInv, input

\* Of these, the ones that keep the ends.
LEMMA StepTypes ==
  ASSUME TypeInv, NEW w \in Workers,
         UNCHANGED <<input, taken, job, clamped, subs, ends, results>>,
         pc[w] \in Busy, NEW at \in Busy, pc' = [pc EXCEPT ![w] = at],
         tally' \in [Workers -> Nat], NEW v \in Flag, verdict' = [verdict EXCEPT ![w] = v],
         CachesOK', v # None <=> at = "store",
         at = "remember" => Len(ends[w]) < 2, at \in Ended => Len(ends[w]) = 2
  PROVE  TypeInv'
<1>1. pc'[w] = at /\ verdict'[w] = v /\ pc[w] # "idle"
  BY DEF TypeInv, TypeOK, Busy, Ended, Late
<1>2. at # "idle" /\ at # "sum"
  BY DEF Busy, Ended, Late
<1>3. Cursor(w)'
  BY <1>1, <1>2 DEF TypeInv, CursorInv, Cursor, input
<1>4. verdict' \in [Workers -> Flag] /\ ends' \in [Workers -> Seq(BOOLEAN)]
      /\ \A u \in Workers : u # w => ends'[u] = ends[u] /\ verdict'[u] = verdict[u]
  BY DEF TypeInv, TypeOK
<1> QED
  BY <1>1, <1>3, <1>4, MovesTypes

\* Of those, the ones that leave the verdict out.
LEMMA QuietTypes ==
  ASSUME TypeInv, NEW w \in Workers,
         UNCHANGED <<input, taken, job, clamped, subs, ends, verdict, results>>,
         pc[w] \in Busy \ {"store"}, NEW at \in Busy \ {"store"}, pc' = [pc EXCEPT ![w] = at],
         tally' \in [Workers -> Nat], CachesOK',
         at = "remember" => Len(ends[w]) < 2, at \in Ended => Len(ends[w]) = 2
  PROVE  TypeInv'
<1>1. verdict[w] = None /\ None \in Flag
  BY DEF TypeInv, CursorInv, Cursor, Flag
<1>2. verdict' = [verdict EXCEPT ![w] = None]
  BY <1>1 DEF TypeInv, TypeOK
<1> QED
  BY <1>1, <1>2, StepTypes

LEMMA LearnType ==
  ASSUME NEW S, NEW cache \in [S -> Flag], NEW e \in S, NEW v \in BOOLEAN
  PROVE  Learn(cache, e, v) \in [S -> Flag]
BY DEF Learn, Flag

\* What a walk answers: a path it finds is one; it misses none it can see.
LEMMA WalksFacts ==
  ASSUME NEW w \in Workers, NEW v \in Walks(w)
  PROVE  /\ v \in BOOLEAN
         /\ v = TRUE => Truth(Pair(w))
         /\ ~ design.hides \/ (~ clamped[w] /\ ~ blurred) =>
              (~ Unkeyed(w) => (v = FALSE => ~ Truth(Pair(w))))
<1>1. CASE Truth(Pair(w))
  <2>1. (Pair(w) \in design.joined) = TRUE
    BY <1>1 DEF Truth
  <2>2. Walks(w) = IF (~ design.hides \/ (~ clamped[w] /\ ~ blurred)) /\ ~ Unkeyed(w)
                     THEN {TRUE} ELSE {FALSE, TRUE}
    BY <2>1 DEF Walks
  <2>3. v \in {FALSE, TRUE}
    BY <2>2
  <2>4. (~ design.hides \/ (~ clamped[w] /\ ~ blurred)) /\ ~ Unkeyed(w) => v \in {TRUE}
    BY <2>2
  <2> QED
    BY <1>1, <2>3, <2>4
<1>2. CASE ~ Truth(Pair(w))
  <2>1. (Pair(w) \in design.joined) = FALSE
    BY <1>2 DEF Truth
  <2>2. Walks(w) = {FALSE}
    BY <2>1 DEF Walks
  <2> QED
    BY <1>2, <2>2
<1> QED
  BY <1>1, <1>2

LEMMA TypeNext == TypeInv /\ [Next]_vars => TypeInv'
<1> SUFFICES ASSUME TypeInv, [Next]_vars PROVE TypeInv'
  OBVIOUS
<1>0. /\ request \in Requests /\ taken \in 0 .. Len(request.checks)
      /\ Len(request.checks) \in Nat /\ Len(request.gates) = Len(request.checks)
  BY RequestFacts DEF TypeInv, TypeOK
<1>00. NoEnds \in [Ends -> Flag] /\ None \notin BOOLEAN /\ None \in Flag
  BY ConnTextAssumption DEF NoEnds, Flag
<1>000. /\ CachesOK /\ (UNCHANGED caches => CachesOK')
        /\ tally \in [Workers -> Nat] /\ verdict \in [Workers -> Flag]
  BY DEF TypeInv, TypeOK, CachesOK, caches, walks
<1>1. ASSUME NEW w \in Workers, Take(w) PROVE TypeInv'
  <2>1. taken + 1 \in Checks
    BY <1>0, <1>1 DEF Take, Checks
  <2>2. Len(request.checks[taken + 1]) \in Nat \ {0}
    BY <1>0, <2>1, RequestFacts
  <2>3. local' \in [Ends -> Flag]
    BY <1>1, <1>00 DEF Take, Fresh, TypeInv, TypeOK
  <2>4. pc[w] = "idle" /\ taken' = taken + 1 /\ taken + 1 # 0
    BY <1>0, <1>1 DEF Take, TypeInv, TypeOK
  <2>5. job' \in [Workers -> 0 .. Len(request.checks)]
    BY <1>1, <2>1 DEF Take, TypeInv, TypeOK, Checks
  <2>6. clamped' \in [Workers -> BOOLEAN]
    BY <1>1 DEF Take, TypeInv, TypeOK
  <2>7. \A u \in Workers : pc'[u] = "idle" <=> job'[u] = 0
    BY <1>1, <2>4 DEF Take, TypeInv, TypeOK
  <2>8. TypeOK'
    BY <1>1, <2>1, <2>3, <2>4, <2>5, <2>6, <2>7 DEF Take, TypeInv, TypeOK, walks, input, Checks
  <2>9. Cursor(w)'
    <3>1. /\ pc'[w] = "resolve" /\ job'[w] = taken + 1 /\ subs'[w] = <<>> /\ ends'[w] = <<>>
          /\ verdict'[w] = None /\ request' = request /\ request.gates[taken + 1] # "reject"
      BY <1>1, <2>4 DEF Take, TypeInv, TypeOK, CursorInv, Cursor, Busy, Ended, Late, input
    <3> QED
      BY <2>2, <3>1 DEF Cursor, Busy, Ended, Late
  <2>10. ASSUME NEW u \in Workers, u # w PROVE Cursor(u)'
    <3>1. pc'[u] = pc[u] /\ job'[u] = job[u] /\ UNCHANGED <<input, subs, ends, verdict>>
          /\ Cursor(u)
      BY <1>1, <2>10 DEF Take, TypeInv, TypeOK, CursorInv
    <3> QED
      BY <3>1 DEF Cursor, input
  <2> QED
    BY <1>1, <2>8, <2>9, <2>10 DEF Take, TypeInv, CursorInv, input
<1>2. ASSUME NEW w \in Workers, Reject(w) PROVE TypeInv'
  <2>1. taken + 1 \in Checks
    BY <1>0, <1>2 DEF Reject, Checks
  <2>2. request.checks[taken + 1] \in Seq(Ends \X Ends)
    BY <1>0, <2>1, RequestFacts
  <2>3. [i \in DOMAIN request.checks[taken + 1] |-> FALSE] \in Seq(BOOLEAN)
    <3>1. DOMAIN request.checks[taken + 1] = 1 .. Len(request.checks[taken + 1])
          /\ Len(request.checks[taken + 1]) \in Nat
      BY <2>2
    <3> QED
      BY <3>1, SeqDef
  <2>4. TypeOK'
    BY <1>2, <2>1, <2>3 DEF Reject, TypeInv, TypeOK, input, worker, caches, walks, Checks
  <2>5. CursorInv'
    BY <1>2 DEF Reject, TypeInv, CursorInv, Cursor, input, worker
  <2> QED
    BY <2>4, <2>5 DEF TypeInv
<1>3. ASSUME NEW w \in Workers, ResolveHit(w) PROVE TypeInv'
  <2>1. NextEnd(w) \in Ends /\ ends[w] \in Seq(BOOLEAN) /\ Len(ends[w]) < 2
        /\ pc[w] = "resolve"
    BY <1>3, PairFacts DEF ResolveHit, Busy, TypeInv, TypeOK
  <2>2. Cached(w, NextEnd(w)) \in BOOLEAN
    BY <1>3, <2>1, FlagFacts DEF ResolveHit, Flag
  <2>3. /\ ends' \in [Workers -> Seq(BOOLEAN)] /\ Len(ends'[w]) <= 2
        /\ \A u \in Workers : u # w => ends'[u] = ends[u]
    BY <1>3, <2>1, <2>2 DEF ResolveHit, TypeInv, TypeOK
  <2>4. /\ UNCHANGED <<input, taken, job, clamped, subs, tally, verdict, results, caches>>
        /\ pc' = [pc EXCEPT ![w] = "resolve"] /\ pc'[w] = "resolve"
    BY <1>3, <2>1 DEF ResolveHit, TypeInv, TypeOK
  <2>5. Cursor(w)'
    BY <2>1, <2>3, <2>4 DEF TypeInv, CursorInv, Cursor, Busy, Ended, Late, input
  <2> QED
    BY <1>000, <2>1, <2>3, <2>4, <2>5, MovesTypes DEF Busy
<1>4. ASSUME NEW w \in Workers, ResolveMiss(w) PROVE TypeInv'
  <2>1. /\ UNCHANGED <<input, taken, job, clamped, subs, ends, tally, verdict, results, caches>>
        /\ pc[w] = "resolve" /\ pc' = [pc EXCEPT ![w] = "remember"] /\ Len(ends[w]) < 2
    BY <1>4 DEF ResolveMiss, TypeInv, CursorInv, Cursor
  <2> QED
    BY <1>000, <2>1, QuietTypes DEF Busy, Ended, Late
<1>5. ASSUME NEW w \in Workers, Remember(w) PROVE TypeInv'
  <2>1. NextEnd(w) \in Ends /\ ends[w] \in Seq(BOOLEAN) /\ Len(ends[w]) < 2
        /\ pc[w] = "remember"
    BY <1>5, PairFacts DEF Remember, Busy, TypeInv, TypeOK, CursorInv, Cursor
  <2>2. Answers(w, NextEnd(w)) \in BOOLEAN
    BY DEF Answers
  <2>3. /\ ends' \in [Workers -> Seq(BOOLEAN)] /\ Len(ends'[w]) <= 2
        /\ \A u \in Workers : u # w => ends'[u] = ends[u]
    BY <1>5, <2>1, <2>2 DEF Remember, TypeInv, TypeOK
  <2>4. /\ UNCHANGED <<input, taken, job, clamped, subs, tally, verdict, results>>
        /\ pc' = [pc EXCEPT ![w] = "resolve"] /\ pc'[w] = "resolve" /\ pc[w] # "idle"
    BY <1>5, <2>1 DEF Remember, TypeInv, TypeOK
  <2>5. Cursor(w)'
    BY <2>1, <2>3, <2>4 DEF TypeInv, CursorInv, Cursor, Busy, Ended, Late, input
  <2>6. session' \in [Ends -> Flag] /\ local' \in [Ends -> Flag]
    BY <1>5, <2>1, <2>2, LearnType DEF Remember, TypeInv, TypeOK
  <2>7. CachesOK'
    <3>1. UNCHANGED <<walked, blurred, dedup, leaves, unique>>
      BY <1>5 DEF Remember, walks
    <3> QED
      BY <1>000, <2>6, <3>1 DEF CachesOK
  <2> QED
    BY <1>000, <2>3, <2>4, <2>5, <2>7, MovesTypes DEF Busy
<1>6. ASSUME NEW w \in Workers, Count(w) PROVE TypeInv'
  <2>1. /\ UNCHANGED <<input, taken, job, clamped, subs, ends, verdict, results, caches>>
        /\ pc[w] = "resolve" /\ pc' = [pc EXCEPT ![w] = "count"] /\ Len(ends[w]) = 2
        /\ tally' \in [Workers -> Nat]
    BY <1>6 DEF Count, TypeInv, TypeOK, CursorInv, Cursor
  <2> QED
    BY <1>000, <2>1, QuietTypes DEF Busy, Ended, Late
<1>7. ASSUME NEW w \in Workers, Counted(w) PROVE TypeInv'
  <2>1. /\ UNCHANGED <<input, taken, job, clamped, subs, ends, verdict, results>>
        /\ pc[w] = "count" /\ pc' = [pc EXCEPT ![w] = "lookup"] /\ Len(ends[w]) = 2
        /\ tally' \in [Workers -> Nat]
    BY <1>7 DEF Counted, TypeInv, TypeOK, CursorInv, Cursor, Ended
  <2>2. CachesOK'
    <3>1. leaves' \in Nat
      BY <1>7 DEF Counted, TypeInv, TypeOK
    <3>2. UNCHANGED <<session, local, walked, blurred, dedup, unique>>
      BY <1>7 DEF Counted, walks
    <3> QED
      BY <1>000, <3>1, <3>2 DEF CachesOK
  <2> QED
    BY <1>000, <2>1, <2>2, QuietTypes DEF Busy, Ended, Late
<1>8. ASSUME NEW w \in Workers, DedupHit(w) PROVE TypeInv'
  <2>1. KeyOf(w) \in Keys /\ pc[w] \in Busy
    BY <1>8, KeyFacts DEF DedupHit, Busy, Ended, Late
  <2>2. dedup[KeyOf(w)] \in BOOLEAN
    BY <1>8, <2>1 DEF DedupHit, Flag, TypeInv, TypeOK
  <2> QED
    BY <1>8, <1>000, <2>1, <2>2, ConcludeTypes DEF DedupHit
<1>9. ASSUME NEW w \in Workers, DedupMiss(w) PROVE TypeInv'
  <2>1. /\ UNCHANGED <<input, taken, job, clamped, subs, ends, tally, verdict, results, caches>>
        /\ pc[w] = "lookup" /\ pc' = [pc EXCEPT ![w] = "connect"] /\ Len(ends[w]) = 2
    BY <1>9 DEF DedupMiss, TypeInv, CursorInv, Cursor, Ended, Late
  <2> QED
    BY <1>000, <2>1, QuietTypes DEF Busy, Ended, Late
<1>10. ASSUME NEW w \in Workers, NEW v \in BOOLEAN, Judge(w, v), pc[w] \in Ended,
              blurred' = blurred, walked' \in [Ends \X Ends -> Flag]
       PROVE  TypeInv'
  <2>1. Len(ends[w]) = 2
    BY <1>10 DEF TypeInv, CursorInv, Cursor
  <2>2. CachesOK'
    <3>1. UNCHANGED <<session, local, dedup, leaves, unique>>
      BY <1>10 DEF Judge
    <3> QED
      BY <1>10, <1>000, <3>1 DEF CachesOK
  <2>3. v \in Flag /\ v # None /\ "store" \in Busy /\ pc[w] \in Busy
    BY <1>10, <1>00 DEF Flag, Busy, Ended, Late
  <2> QED
    BY <1>10, <1>000, <2>1, <2>2, <2>3, StepTypes DEF Judge
<1>11. ASSUME NEW w \in Workers, PortMiss(w) \/ WalkHit(w) PROVE TypeInv'
  <2>1. pc[w] \in Ended /\ UNCHANGED walks
    BY <1>11 DEF PortMiss, WalkHit, Ended, Late
  <2>2. Reps(Pair(w)) \in Ends \X Ends
    BY <2>1, RepsFacts DEF Busy
  <2>3. PICK v \in BOOLEAN : Judge(w, v)
    <3>1. WalkHit(w) => walked[Reps(Pair(w))] \in BOOLEAN
      BY <2>2 DEF WalkHit, Flag, TypeInv, TypeOK
    <3> QED
      BY <1>11, <3>1 DEF PortMiss, WalkHit
  <2> QED
    BY <1>10, <2>1, <2>3 DEF walks, TypeInv, TypeOK
<1>12. ASSUME NEW w \in Workers, WalkMiss(w) PROVE TypeInv'
  <2>1. /\ UNCHANGED <<input, taken, job, clamped, subs, ends, tally, verdict, results>>
        /\ pc[w] = "connect" /\ pc' = [pc EXCEPT ![w] = "walk"] /\ Len(ends[w]) = 2
    BY <1>12 DEF WalkMiss, TypeInv, CursorInv, Cursor, Ended, Late
  <2>2. blurred' \in BOOLEAN
    BY <1>12 DEF WalkMiss, TypeInv, TypeOK
  <2>3. CachesOK'
    <3>1. UNCHANGED <<session, local, walked, dedup, leaves, unique>>
      BY <1>12 DEF WalkMiss
    <3> QED
      BY <1>000, <2>2, <3>1 DEF CachesOK
  <2> QED
    BY <1>000, <2>1, <2>3, QuietTypes DEF Busy, Ended, Late
<1>13. ASSUME NEW w \in Workers, Walk(w) PROVE TypeInv'
  <2>1. pc[w] \in Ended /\ UNCHANGED blurred
    BY <1>13 DEF Walk, Ended, Late
  <2>2. Reps(Pair(w)) \in Ends \X Ends
    BY <2>1, RepsFacts DEF Busy
  <2>3. PICK v \in BOOLEAN :
          Judge(w, v) /\ walked' \in {walked, Learn(walked, Reps(Pair(w)), v)}
    <3>1. \A v \in Walks(w) : v \in BOOLEAN
      BY WalksFacts
    <3>2. PICK v \in Walks(w) :
            Judge(w, v) /\ walked' \in {walked, Learn(walked, Reps(Pair(w)), v)}
      BY <1>13 DEF Walk
    <3> QED
      BY <3>1, <3>2
  <2>4. walked' \in [Ends \X Ends -> Flag]
    <3>1. walked \in [Ends \X Ends -> Flag]
      BY DEF TypeInv, TypeOK
    <3>2. Learn(walked, Reps(Pair(w)), v) \in [Ends \X Ends -> Flag]
      BY <2>2, <3>1, LearnType
    <3> QED
      BY <2>3, <3>1, <3>2
  <2> QED
    BY <1>10, <2>1, <2>3, <2>4
<1>14. ASSUME NEW w \in Workers, Connect(w) PROVE TypeInv'
  <2>1. KeyOf(w) \in Keys /\ pc[w] \in Busy /\ pc[w] = "store"
    BY <1>14, KeyFacts DEF Connect, Busy, Ended, Late
  <2>2. CASE Stored(w) # None
    <3>1. Stored(w) \in BOOLEAN
      BY <2>1, <2>2 DEF Stored, Flag, TypeInv, TypeOK
    <3>2. UNCHANGED caches
      BY <1>14, <2>2 DEF Connect, caches
    <3> QED
      BY <1>14, <1>000, <2>1, <2>2, <3>1, <3>2, ConcludeTypes DEF Connect
  <2>3. CASE Stored(w) = None
    <3>1. verdict[w] \in BOOLEAN
      BY <2>1 DEF TypeInv, TypeOK, CursorInv, Cursor, Flag
    <3>2. dedup' \in [Keys -> Flag] /\ unique' \in Nat
      <4>1. unique' = unique + 1 /\ dedup' = [dedup EXCEPT ![KeyOf(w)] = verdict[w]]
        BY <1>14, <2>3 DEF Connect
      <4> QED
        BY <2>1, <3>1, <4>1 DEF Flag, TypeInv, TypeOK
    <3>3. CachesOK'
      <4>1. UNCHANGED <<session, local, walked, blurred, leaves>>
        BY <1>14 DEF Connect, walks
      <4> QED
        BY <1>000, <3>2, <4>1 DEF CachesOK
    <3> QED
      BY <1>14, <2>1, <2>3, <3>1, <3>3, ConcludeTypes DEF Connect
  <2> QED
    BY <2>2, <2>3
<1>15. ASSUME NEW w \in Workers, Answer(w) PROVE TypeInv'
  <2>1. job[w] \in Checks /\ subs[w] \in Seq(BOOLEAN)
    BY <1>15 DEF Answer, TypeInv, TypeOK, Checks
  <2>2. TypeOK'
    BY <1>15, <2>1 DEF Answer, Release, TypeInv, TypeOK, input, caches, walks, Checks
  <2>3. CursorInv'
    BY <1>15 DEF Answer, Release, TypeInv, TypeOK, CursorInv, Cursor, Busy, Ended, Late, input
  <2> QED
    BY <2>2, <2>3 DEF TypeInv
<1>16. ASSUME NEW w \in Workers, FastMiss(w) PROVE TypeInv'
  <2>1. job[w] \in Checks
    BY <1>16 DEF FastMiss, TypeInv, TypeOK, Checks
  <2>2. Len(request.checks[job[w]]) \in Nat \ {0}
    BY <1>0, <2>1, RequestFacts
  <2>3. TypeOK'
    BY <1>16, <1>00 DEF FastMiss, TypeInv, TypeOK, walks, input, Checks
  <2>4. ASSUME NEW u \in Workers PROVE Cursor(u)'
    <3>1. /\ UNCHANGED <<input, job, ends, verdict>> /\ pc[w] = "sum" /\ Cursor(u) /\ Cursor(w)
          /\ pc'[w] = "resolve" /\ subs'[w] = <<>>
          /\ u # w => pc'[u] = pc[u] /\ subs'[u] = subs[u]
      BY <1>16 DEF FastMiss, TypeInv, TypeOK, CursorInv
    <3> QED
      BY <2>2, <3>1 DEF Cursor, Busy, Ended, Late, input
  <2> QED
    BY <1>16, <2>3, <2>4 DEF FastMiss, TypeInv, CursorInv, input
<1>17. CASE UNCHANGED vars
  BY <1>17 DEF vars, input, worker, caches, walks, TypeInv, TypeOK, CursorInv, Cursor, Checks
<1> QED
  BY <1>1, <1>2, <1>3, <1>4, <1>5, <1>6, <1>7, <1>8, <1>9, <1>11, <1>12, <1>13, <1>14, <1>15,
     <1>16, <1>17 DEF Next, Done

LEMMA Typed == Spec => []TypeInv
BY TypeInit, TypeNext, PTL DEF Spec

(* Every variable of the text phase keeps its type, and a worker is idle     *)
(* exactly while it has no check.                                            *)
THEOREM TypeCorrect == Spec => []TypeOK
<1>1. TypeInv => TypeOK
  BY DEF TypeInv
<1> QED
  BY <1>1, Typed, PTL

-----------------------------------------------------------------------------
(* A batch answered check by check.                                        *)

SerialInv == Serial => \A u, v \in Workers : job[u] # 0 /\ job[v] # 0 => u = v

LEMMA SerialNext == TypeInv /\ SerialInv /\ [Next]_vars => SerialInv'
<1> SUFFICES ASSUME TypeInv, SerialInv, [Next]_vars PROVE SerialInv'
  OBVIOUS
<1>1. ASSUME NEW w \in Workers, Take(w) PROVE SerialInv'
  BY <1>1 DEF Take, SerialInv, Serial, TypeInv, TypeOK, input
<1>2. ASSUME NEW w \in Workers, Answer(w) PROVE SerialInv'
  BY <1>2 DEF Answer, Release, SerialInv, Serial, TypeInv, TypeOK, input
<1>3. ASSUME UNCHANGED <<job, input>> PROVE SerialInv'
  BY <1>3 DEF SerialInv, Serial, input
<1>4. ASSUME NEW w \in Workers,
             \/ Reject(w) \/ ResolveHit(w) \/ ResolveMiss(w) \/ Remember(w) \/ Count(w)
             \/ Counted(w) \/ DedupHit(w) \/ DedupMiss(w) \/ PortMiss(w) \/ WalkHit(w)
             \/ WalkMiss(w) \/ Walk(w) \/ Connect(w) \/ FastMiss(w)
      PROVE  UNCHANGED <<job, input>>
  BY <1>4 DEF Reject, ResolveHit, ResolveMiss, Remember, Count, Counted, DedupHit, DedupMiss,
              PortMiss, WalkHit, WalkMiss, Walk, Judge, Connect, FastMiss, worker
<1>5. CASE UNCHANGED vars
  BY <1>3, <1>5 DEF vars, worker
<1> QED
  BY <1>1, <1>2, <1>3, <1>4, <1>5 DEF Next, Done

LEMMA Serially == Spec => []SerialInv
<1>1. Init => SerialInv
  BY DEF Init, SerialInv
<1> QED
  BY <1>1, SerialNext, Typed, PTL DEF Spec

\* Nobody else is on a check.
LEMMA OthersIdle ==
  ASSUME TypeInv, SerialInv, Serial, NEW w \in Workers, NEW u \in Workers, u # w, job[w] # 0
  PROVE  job[u] = 0 /\ pc[u] = "idle" /\ ends[u] = <<>> /\ subs[u] = <<>>
BY DEF SerialInv, TypeInv, TypeOK, CursorInv, Cursor, Busy, Ended, Late

-----------------------------------------------------------------------------
(* What the caches know of the ports.                                      *)

Ungated == \A c \in Checks : ~ Gated(c)
HidesPorts == request.pipeline /\ ~ design.hides
\* Where a missing port, or a walk that finds nothing, is to be believed; where
\* a connection is.
Exact == Ungated \/ HidesPorts
Sound == Ungated \/ Serial

\* Nothing that takes part in the answers is filled over a clamp that hides.
PortInv ==
  /\ \A e \in Ends : (session[e] = TRUE => e \in design.found)
                     /\ (local[e] = TRUE => e \in design.found)
  /\ request.pipeline => \A e \in Ends : session[e] = TRUE => e \in design.shown
  /\ Exact => \A e \in Ends : local[e] = FALSE => e \notin design.found
  /\ Ungated => /\ \A e \in Ends : session[e] = FALSE => e \notin design.found
                /\ \A w \in Workers : ~ clamped[w]
                /\ ~ blurred

LEMMA ModesKept ==
  ASSUME UNCHANGED input
  PROVE  /\ Ungated' <=> Ungated
         /\ HidesPorts' <=> HidesPorts
         /\ Exact' <=> Exact
         /\ Serial' <=> Serial
         /\ Sound' <=> Sound
         /\ Checks' = Checks /\ design' = design /\ request' = request
BY DEF input, Ungated, HidesPorts, Exact, Serial, Sound, Gated, Checks

LEMMA InputKept == [Next]_vars => UNCHANGED input
BY DEF Next, Done, vars, Take, Reject, ResolveHit, ResolveMiss, Remember, Count, Counted,
       DedupHit, DedupMiss, PortMiss, WalkHit, WalkMiss, Walk, Judge, Connect, Answer, FastMiss

\* Answers of either scope find no port that does not exist.
LEMMA AnswersFound ==
  ASSUME TypeInv, NEW w \in Workers, NEW e \in Ends
  PROVE  /\ Answers(w, e) = TRUE => e \in design.found
         /\ ~ clamped[w] => (Answers(w, e) = FALSE => e \notin design.found)
         /\ clamped[w] => (Answers(w, e) = TRUE => e \in design.shown)
BY ConnTextAssumption DEF Answers, TypeInv, CursorInv

LEMMA PortInit == Init => PortInv
<1> SUFFICES ASSUME Init PROVE PortInv
  OBVIOUS
<1>1. None # TRUE /\ None # FALSE
  BY ConnTextAssumption
<1> QED
  BY <1>1 DEF Init, PortInv, NoEnds

LEMMA PortNext == TypeInv /\ PortInv /\ [Next]_vars => PortInv'
<1> SUFFICES ASSUME TypeInv, PortInv, [Next]_vars PROVE PortInv'
  OBVIOUS
<1>0. None # TRUE /\ None # FALSE
  BY ConnTextAssumption
<1>k. /\ Ungated' <=> Ungated
      /\ Exact' <=> Exact
      /\ design' = design /\ request' = request
  BY InputKept, ModesKept
<1>n. \A e \in Ends : NoEnds[e] = None
  BY DEF NoEnds
<1>t. session \in [Ends -> Flag] /\ local \in [Ends -> Flag]
  BY DEF TypeInv, TypeOK
<1>1. ASSUME NEW w \in Workers, Take(w) PROVE PortInv'
  <2>1. /\ UNCHANGED <<session, blurred>> /\ local' \in {local, NoEnds}
        /\ \A u \in Workers : u # w => clamped'[u] = clamped[u]
    BY <1>1 DEF Take, Fresh, walks, TypeInv, TypeOK
  <2>2. Ungated => ~ clamped'[w]
    <3>1. taken + 1 \in Checks
      BY <1>1 DEF Take, TypeInv, TypeOK, Checks
    <3>2. clamped'[w] = (request.gates[taken + 1] = "pass")
      BY <1>1 DEF Take, TypeInv, TypeOK
    <3> QED
      BY <3>1, <3>2 DEF Ungated, Gated
  <2>3. \A e \in Ends : local'[e] \in {local[e], None}
    BY <1>n, <2>1
  <2> QED
    BY <1>0, <1>k, <2>1, <2>2, <2>3 DEF PortInv
<1>2. ASSUME NEW w \in Workers, Remember(w) PROVE PortInv'
  <2>1. pc[w] \in Busy /\ Len(ends[w]) < 2
    BY <1>2 DEF Remember, Busy, TypeInv, CursorInv, Cursor
  <2>e. PICK e \in Ends : e = NextEnd(w)
    BY <2>1, PairFacts
  <2>v. PICK v \in BOOLEAN : v = Answers(w, e)
    <3>1. Answers(w, e) \in BOOLEAN
      BY FlagFacts
    <3> QED
      BY <3>1
  <2>2. /\ UNCHANGED <<clamped, blurred>>
        /\ local' = IF Local(w) THEN Learn(local, e, v) ELSE local
        /\ session' = IF Local(w) THEN session ELSE Learn(session, e, v)
    BY <1>2, <2>e, <2>v DEF Remember, walks
  <2>3. /\ v = TRUE => e \in design.found
        /\ ~ clamped[w] => (v = FALSE => e \notin design.found)
        /\ clamped[w] => (v = TRUE => e \in design.shown)
    BY <2>v, AnswersFound
  <2>4. Local(w) <=> request.pipeline /\ ~ clamped[w]
    BY DEF Local
  <2>5. \A x \in Ends : local'[x] = local[x] \/ (Local(w) /\ x = e /\ local'[x] = v)
    BY <1>t, <2>2 DEF Learn
  <2>6. \A x \in Ends : session'[x] = session[x] \/ (~ Local(w) /\ x = e /\ session'[x] = v)
    BY <1>t, <2>2 DEF Learn
  <2>7. \A x \in Ends : /\ local'[x] = TRUE => x \in design.found
                        /\ session'[x] = TRUE => x \in design.found
                        /\ request.pipeline => (session'[x] = TRUE => x \in design.shown)
    BY <2>3, <2>4, <2>5, <2>6 DEF PortInv
  <2>8. Exact => \A x \in Ends : local'[x] = FALSE => x \notin design.found
    BY <2>3, <2>4, <2>5 DEF PortInv
  <2>9. Ungated => \A x \in Ends : session'[x] = FALSE => x \notin design.found
    BY <2>3, <2>6 DEF PortInv
  <2> QED
    BY <1>k, <2>2, <2>7, <2>8, <2>9 DEF PortInv
<1>3. ASSUME NEW w \in Workers, WalkMiss(w) PROVE PortInv'
  <2>1. UNCHANGED <<session, local, clamped>>
        /\ blurred' = (blurred \/ (clamped[w] /\ design.hides))
    BY <1>3 DEF WalkMiss
  <2> QED
    BY <1>k, <2>1 DEF PortInv
<1>4. ASSUME NEW w \in Workers, Answer(w) \/ FastMiss(w) PROVE PortInv'
  <2>1. /\ UNCHANGED <<session, blurred>> /\ local' \in {local, NoEnds}
        /\ clamped' = [clamped EXCEPT ![w] = FALSE]
    BY <1>4 DEF Answer, FastMiss, caches, walks
  <2>2. \A e \in Ends : local'[e] \in {local[e], None}
    BY <1>n, <2>1
  <2> QED
    BY <1>0, <1>k, <2>1, <2>2 DEF PortInv, TypeInv, TypeOK
<1>5. ASSUME UNCHANGED <<session, local, clamped, blurred>> PROVE PortInv'
  BY <1>5, <1>k DEF PortInv
<1>6. ASSUME NEW w \in Workers,
             \/ Reject(w) \/ ResolveHit(w) \/ ResolveMiss(w) \/ Count(w) \/ Counted(w)
             \/ DedupHit(w) \/ DedupMiss(w) \/ PortMiss(w) \/ WalkHit(w) \/ Walk(w) \/ Connect(w)
      PROVE  UNCHANGED <<session, local, clamped, blurred>>
  BY <1>6 DEF Reject, ResolveHit, ResolveMiss, Count, Counted, DedupHit, DedupMiss, PortMiss,
              WalkHit, Walk, Judge, Connect, worker, caches, walks
<1>7. CASE UNCHANGED vars
  BY <1>5, <1>7 DEF vars, worker, caches, walks
<1> QED
  BY <1>1, <1>2, <1>3, <1>4, <1>5, <1>6, <1>7 DEF Next, Done

LEMMA PortsKnown == Spec => []PortInv
BY Typed, PortInit, PortNext, PTL DEF Spec

-----------------------------------------------------------------------------
(* What a worker has found of its pair is what its cache holds.            *)

Holds(w) ==
  /\ \A i \in 1 .. Len(ends[w]) : Cached(w, Pair(w)[i]) = ends[w][i]
  /\ Serial /\ pc[w] = "remember" => Cached(w, NextEnd(w)) = None
  /\ pc[w] = "walk" => ends[w][1] = TRUE /\ ends[w][2] = TRUE

EndsInv == Sound => \A w \in Workers : Holds(w)

LEMMA IdleHolds ==
  ASSUME NEW w \in Workers, ends[w] = <<>>, pc[w] \notin {"remember", "walk"}
  PROVE  Holds(w)
BY DEF Holds

\* Caches that only learn leave a worker who does not move with what it has.
LEMMA HoldsKept ==
  ASSUME TypeInv, NEW w \in Workers, Holds(w), UNCHANGED input,
         job'[w] = job[w], subs'[w] = subs[w], ends'[w] = ends[w], clamped'[w] = clamped[w],
         Serial /\ pc'[w] = "remember" => pc[w] = "remember" /\ UNCHANGED <<session, local>>,
         pc'[w] = "walk" => ends[w][1] = TRUE /\ ends[w][2] = TRUE,
         \A e \in Ends : session[e] # None => session'[e] = session[e],
         \A e \in Ends : local[e] # None => local'[e] = local[e]
  PROVE  Holds(w)'
<1>1. Pair(w)' = Pair(w) /\ NextEnd(w)' = NextEnd(w)
  BY DEF Pair, NextEnd, input
<1>2. ASSUME NEW e \in Ends, Cached(w, e) # None PROVE Cached(w, e)' = Cached(w, e)
  BY <1>2 DEF Cached, Local, input
<1>3. ASSUME NEW i \in 1 .. Len(ends[w]) PROVE Cached(w, Pair(w)[i])' = ends[w][i]
  <2>1. Len(ends[w]) # 0 /\ Len(ends[w]) <= 2 /\ Len(ends[w]) \in Nat /\ ends[w] \in Seq(BOOLEAN)
    BY <1>3 DEF TypeInv, TypeOK, CursorInv, Cursor
  <2>2. ends[w] # <<>>
    BY <2>1
  <2>3. pc[w] \in Busy /\ i \in {1, 2}
    BY <2>1, <2>2, <1>3 DEF TypeInv, CursorInv, Cursor
  <2>4. Pair(w)[i] \in Ends /\ ends[w][i] \in BOOLEAN
    BY <1>3, <2>1, <2>3, PairFacts
  <2>5. Cached(w, Pair(w)[i]) = ends[w][i] /\ ends[w][i] # None
    BY <1>3, <2>4, ConnTextAssumption DEF Holds
  <2>6. PICK e \in Ends : e = Pair(w)[i]
    BY <2>4
  <2>7. Cached(w, e)' = ends[w][i]
    BY <1>2, <2>5, <2>6
  <2> QED
    BY <1>1, <2>6, <2>7
<1>4. (Serial /\ pc[w] = "remember")' => Cached(w, NextEnd(w))' = None
  <2>s. Serial' <=> Serial
    BY ModesKept
  <2>1. ASSUME Serial, pc'[w] = "remember" PROVE Cached(w, NextEnd(w))' = Cached(w, NextEnd(w))
    BY <1>1, <2>1 DEF Cached, Local, input
  <2> QED
    BY <2>s, <2>1 DEF Holds
<1> QED
  BY <1>1, <1>3, <1>4 DEF Holds

\* A step of w: nobody else is on a check, or the caches only learn.
LEMMA EndsKept ==
  ASSUME TypeInv, TypeInv', EndsInv, NEW w \in Workers, UNCHANGED input,
         Serial => \A u \in Workers : u # w => job[u] = 0,
         \A u \in Workers : u # w => /\ pc'[u] = pc[u] /\ job'[u] = job[u] /\ subs'[u] = subs[u]
                                     /\ ends'[u] = ends[u] /\ clamped'[u] = clamped[u],
         ~ Serial /\ Sound => /\ \A e \in Ends : session[e] # None => session'[e] = session[e]
                              /\ \A e \in Ends : local[e] # None => local'[e] = local[e],
         Sound => Holds(w)'
  PROVE  EndsInv'
<1> SUFFICES ASSUME Sound, NEW u \in Workers, u # w PROVE Holds(u)'
  BY ModesKept DEF EndsInv
<1>1. CASE Serial
  <2>1. job'[u] = 0
    BY <1>1
  <2>2. pc'[u] = "idle" /\ ends'[u] = <<>>
    BY <2>1 DEF TypeInv, TypeOK, CursorInv, Cursor, Busy, Ended, Late
  <2> QED
    BY <2>2 DEF Holds
<1>2. CASE ~ Serial
  <2>1. Holds(u) /\ (pc[u] = "walk" => ends[u][1] = TRUE /\ ends[u][2] = TRUE)
    BY DEF EndsInv, Holds
  <2> QED
    BY <1>2, <2>1, HoldsKept
<1> QED
  BY <1>1, <1>2

\* One more end of the pair, as the cache has it by then.
LEMMA EndAdded ==
  ASSUME TypeInv, NEW w \in Workers, NEW v \in BOOLEAN, Len(ends[w]) < 2, pc[w] \in Busy,
         Holds(w), UNCHANGED <<input, job, subs, clamped>>,
         ends' = [ends EXCEPT ![w] = Append(@, v)], pc'[w] = "resolve",
         NEW e \in Ends, e = NextEnd(w), Cached(w, e)' = v,
         \A x \in Ends : Cached(w, x) # None => Cached(w, x)' = Cached(w, x)
  PROVE  Holds(w)'
<1>1. ends[w] \in Seq(BOOLEAN)
  BY DEF TypeInv, TypeOK
<1>2. /\ Len(ends'[w]) = Len(ends[w]) + 1 /\ Len(ends[w]) \in Nat
      /\ \A i \in 1 .. Len(ends[w]) : ends'[w][i] = ends[w][i]
      /\ ends'[w][Len(ends[w]) + 1] = v
  BY <1>1 DEF TypeInv, TypeOK
<1>3. Pair(w)' = Pair(w) /\ NextEnd(w) \in Ends
  BY PairFacts DEF Pair, input
<1>4. ASSUME NEW i \in 1 .. Len(ends'[w]) PROVE Cached(w, Pair(w)[i])' = ends'[w][i]
  <2>1. CASE i = Len(ends[w]) + 1
    <3>1. e = Pair(w)[i]
      BY <2>1 DEF NextEnd
    <3> QED
      BY <1>2, <1>3, <2>1, <3>1
  <2>2. CASE i # Len(ends[w]) + 1
    <3>1. i \in 1 .. Len(ends[w]) /\ i \in {1, 2}
      BY <1>2, <1>4, <2>2
    <3>2. PICK x \in Ends : x = Pair(w)[i]
      BY <3>1, PairFacts
    <3>3. Cached(w, x) = ends[w][i] /\ ends[w][i] \in BOOLEAN
      BY <1>1, <3>1, <3>2 DEF Holds
    <3>4. Cached(w, x)' = ends[w][i]
      BY <3>3, ConnTextAssumption
    <3> QED
      BY <1>2, <1>3, <3>1, <3>2, <3>4
  <2> QED
    BY <2>1, <2>2
<1> QED
  BY <1>4 DEF Holds

LEMMA EndsNext ==
  TypeInv /\ TypeInv' /\ SerialInv /\ PortInv /\ PortInv' /\ EndsInv /\ [Next]_vars => EndsInv'
<1> SUFFICES ASSUME TypeInv, TypeInv', SerialInv, PortInv, PortInv', EndsInv, [Next]_vars
             PROVE  EndsInv'
  OBVIOUS
<1>i. UNCHANGED input
  BY InputKept
<1>s. Sound => \A w \in Workers : Holds(w)
  BY DEF EndsInv
<1>o. ASSUME NEW w \in Workers, pc[w] # "idle"
      PROVE  Serial => \A u \in Workers : u # w => job[u] = 0
  <2>1. job[w] # 0
    BY <1>o DEF TypeInv, TypeOK
  <2> QED
    BY <2>1, OthersIdle
<1>1. ASSUME NEW w \in Workers, Take(w) PROVE EndsInv'
  <2>1. /\ UNCHANGED <<subs, ends, session>> /\ pc'[w] = "resolve"
        /\ \A u \in Workers : u # w => /\ pc'[u] = pc[u] /\ job'[u] = job[u]
                                       /\ clamped'[u] = clamped[u]
        /\ Serial => \A u \in Workers : job[u] = 0
        /\ ~ request.pipeline => local' = local
    BY <1>1 DEF Take, Fresh, TypeInv, TypeOK
  <2>2. ends'[w] = <<>>
    <3>1. pc[w] = "idle"
      BY <1>1 DEF Take, TypeInv, TypeOK
    <3>2. ends[w] = <<>>
      BY <3>1 DEF TypeInv, CursorInv, Cursor, Busy, Ended, Late
    <3> QED
      BY <2>1, <3>2
  <2>3. Holds(w)'
    BY <2>1, <2>2 DEF Holds
  <2>4. ~ Serial => local' = local
    BY <2>1 DEF Serial
  <2> QED
    BY <1>i, <2>1, <2>3, <2>4, EndsKept
<1>2. ASSUME NEW w \in Workers, Reject(w) PROVE EndsInv'
  <2>1. UNCHANGED <<job, pc, clamped, subs, ends, session, local>>
    BY <1>2 DEF Reject, worker, caches
  <2> SUFFICES ASSUME Sound, NEW u \in Workers PROVE Holds(u)'
    BY <1>i, ModesKept DEF EndsInv
  <2>2. Holds(u)
    BY <1>s
  <2>3. pc[u] = "walk" => ends[u][1] = TRUE /\ ends[u][2] = TRUE
    BY <2>2 DEF Holds
  <2> QED
    BY <1>i, <2>1, <2>2, <2>3, HoldsKept
<1>3. ASSUME NEW w \in Workers, ResolveHit(w) PROVE EndsInv'
  <2>1. /\ UNCHANGED <<job, pc, clamped, subs, session, local>>
        /\ ends' = [ends EXCEPT ![w] = Append(@, Cached(w, NextEnd(w)))]
        /\ pc[w] = "resolve" /\ Len(ends[w]) < 2 /\ Cached(w, NextEnd(w)) # None
        /\ pc[w] \in Busy /\ pc[w] # "idle"
    BY <1>3 DEF ResolveHit, caches, Busy
  <2>2. PICK e \in Ends : e = NextEnd(w)
    BY <2>1, PairFacts
  <2>3. PICK v \in BOOLEAN : v = Cached(w, e)
    BY <2>1, <2>2, FlagFacts DEF Flag
  <2>4. \A x \in Ends : Cached(w, x)' = Cached(w, x)
    BY <1>i, <2>1 DEF Cached, Local, input
  <2>5. Cached(w, e)' = v /\ ends' = [ends EXCEPT ![w] = Append(@, v)] /\ pc'[w] = "resolve"
    BY <2>1, <2>2, <2>3, <2>4
  <2>6. Sound => Holds(w)'
    BY <1>i, <1>s, <2>1, <2>2, <2>4, <2>5, EndAdded
  <2>7. \A u \in Workers : u # w => ends'[u] = ends[u]
    BY <2>5 DEF TypeInv, TypeOK
  <2> QED
    BY <1>i, <1>o, <2>1, <2>6, <2>7, EndsKept
<1>4. ASSUME NEW w \in Workers, Remember(w) PROVE EndsInv'
  <2>1. pc[w] \in Busy /\ Len(ends[w]) < 2 /\ pc[w] = "remember" /\ pc[w] # "idle"
    BY <1>4 DEF Remember, Busy, TypeInv, CursorInv, Cursor
  <2>e. PICK e \in Ends : e = NextEnd(w)
    BY <2>1, PairFacts
  <2>v. PICK v \in BOOLEAN : v = Answers(w, e)
    <3>1. Answers(w, e) \in BOOLEAN
      BY FlagFacts
    <3> QED
      BY <3>1
  <2>2. /\ UNCHANGED <<job, clamped, subs>>
        /\ ends' = [ends EXCEPT ![w] = Append(@, v)]
        /\ local' = IF Local(w) THEN Learn(local, e, v) ELSE local
        /\ session' = IF Local(w) THEN session ELSE Learn(session, e, v)
        /\ pc' = [pc EXCEPT ![w] = "resolve"]
    BY <1>4, <2>e, <2>v DEF Remember
  <2>3. session \in [Ends -> Flag] /\ local \in [Ends -> Flag]
    BY DEF TypeInv, TypeOK
  <2>4. /\ \A x \in Ends : session[x] # None => session'[x] = session[x]
        /\ \A x \in Ends : local[x] # None => local'[x] = local[x]
    BY <2>2, <2>3 DEF Learn
  <2>5. Local(w)' <=> Local(w)
    BY <1>i, <2>2 DEF Local, input
  <2>6. \A x \in Ends : Cached(w, x) # None => Cached(w, x)' = Cached(w, x)
    BY <2>4, <2>5 DEF Cached
  <2>7. Cached(w, e) = None => Cached(w, e)' = v
    BY <2>2, <2>3, <2>5 DEF Cached, Learn
  <2>8. ASSUME Sound PROVE Cached(w, e)' = v
    <3>1. CASE Serial
      BY <1>s, <2>1, <2>e, <2>7, <2>8, <3>1 DEF Holds
    <3>2. CASE Ungated
      <4>1. Cached(w, e) \in Flag /\ ~ clamped[w]
        BY <3>2, FlagFacts DEF PortInv
      <4>2. /\ Cached(w, e) = TRUE => e \in design.found
            /\ Cached(w, e) = FALSE => e \notin design.found
        BY <3>2 DEF PortInv, Cached, Exact
      <4>3. Cached(w, e) # None => Cached(w, e) = v
        BY <2>v, <4>1, <4>2, AnswersFound DEF Flag
      <4> QED
        BY <2>6, <2>7, <4>3
    <3> QED
      BY <2>8, <3>1, <3>2 DEF Sound
  <2>9. Sound => Holds(w)'
    <3>1. pc'[w] = "resolve"
      BY <2>2 DEF TypeInv, TypeOK
    <3> QED
      BY <1>i, <1>s, <2>1, <2>2, <2>e, <2>6, <2>8, <3>1, EndAdded
  <2>10. \A u \in Workers : u # w => ends'[u] = ends[u] /\ pc'[u] = pc[u]
    BY <2>2 DEF TypeInv, TypeOK
  <2> QED
    BY <1>i, <1>o, <2>1, <2>2, <2>4, <2>9, <2>10, EndsKept
<1>5. ASSUME NEW w \in Workers, UNCHANGED <<job, subs, ends, clamped, session, local>>,
             pc[w] # "idle", pc'[w] = "remember" => Cached(w, NextEnd(w)) = None,
             pc'[w] = "walk" /\ Sound => ends[w][1] = TRUE /\ ends[w][2] = TRUE,
             \A u \in Workers : u # w => pc'[u] = pc[u]
      PROVE  EndsInv'
  <2>1. ASSUME Sound PROVE Holds(w)'
    <3>1. Pair(w)' = Pair(w) /\ NextEnd(w)' = NextEnd(w)
      BY <1>i, <1>5 DEF Pair, NextEnd, input
    <3>2. /\ \A x : Cached(w, x)' = Cached(w, x)
          /\ Cached(w, NextEnd(w))' = Cached(w, NextEnd(w))
      BY <1>i, <1>5, <3>1 DEF Cached, Local, input
    <3>3. Holds(w)
      BY <1>s, <2>1
    <3> QED
      BY <1>5, <2>1, <3>1, <3>2, <3>3 DEF Holds
  <2> QED
    BY <1>i, <1>o, <1>5, <2>1, EndsKept
<1>6. ASSUME NEW w \in Workers,
             \/ ResolveMiss(w) \/ Count(w) \/ Counted(w) \/ DedupMiss(w) \/ PortMiss(w)
             \/ WalkHit(w) \/ Walk(w)
      PROVE  EndsInv'
  <2>1. /\ UNCHANGED <<job, subs, ends, clamped, session, local>> /\ pc[w] # "idle"
        /\ pc'[w] = "remember" => Cached(w, NextEnd(w)) = None
        /\ pc'[w] # "walk" /\ \A u \in Workers : u # w => pc'[u] = pc[u]
    BY <1>6 DEF ResolveMiss, Count, Counted, DedupMiss, PortMiss, WalkHit, Walk, Judge, caches,
                walks, TypeInv, TypeOK
  <2> QED
    BY <1>5, <2>1
<1>7. ASSUME NEW w \in Workers, WalkMiss(w) PROVE EndsInv'
  <2>1. /\ UNCHANGED <<job, subs, ends, clamped, session, local>>
        /\ pc[w] = "connect" /\ Resolved(w) /\ pc'[w] = "walk"
        /\ \A u \in Workers : u # w => pc'[u] = pc[u]
    BY <1>7 DEF WalkMiss, TypeInv, TypeOK
  <2>2. Len(ends[w]) = 2
    BY <2>1, KeyFacts DEF Ended, Late
  <2>3. Sound => ends[w][1] = TRUE /\ ends[w][2] = TRUE
    BY <1>s, <2>1, <2>2 DEF Holds, Resolved
  <2> QED
    BY <1>5, <2>1, <2>3
<1>8. ASSUME NEW w \in Workers, UNCHANGED <<job, clamped, session, local>>, NEW v,
             Conclude(w, v), pc[w] # "idle"
      PROVE  EndsInv'
  <2>1. /\ ends'[w] = <<>> /\ pc'[w] \notin {"remember", "walk"}
        /\ \A u \in Workers : u # w => /\ pc'[u] = pc[u] /\ subs'[u] = subs[u]
                                       /\ ends'[u] = ends[u]
    BY <1>8 DEF Conclude, TypeInv, TypeOK
  <2>2. Holds(w)'
    BY <2>1 DEF Holds
  <2> QED
    BY <1>i, <1>o, <1>8, <2>1, <2>2, EndsKept
<1>9. ASSUME NEW w \in Workers, DedupHit(w) \/ Connect(w) PROVE EndsInv'
  <2>1. UNCHANGED <<job, clamped, session, local>> /\ pc[w] # "idle" /\ \E v : Conclude(w, v)
    BY <1>9 DEF DedupHit, Connect, caches
  <2> QED
    BY <1>8, <2>1
<1>10. ASSUME NEW w \in Workers, Answer(w) \/ FastMiss(w) PROVE EndsInv'
  <2>1. /\ UNCHANGED <<ends, session>> /\ pc[w] = "sum"
        /\ pc'[w] \notin {"remember", "walk"}
        /\ \A u \in Workers : u # w => /\ pc'[u] = pc[u] /\ job'[u] = job[u] /\ subs'[u] = subs[u]
                                       /\ clamped'[u] = clamped[u]
        /\ local' # local => clamped[w]
    BY <1>10 DEF Answer, Release, FastMiss, caches, TypeInv, TypeOK
  <2>2. ends'[w] = <<>>
    BY <2>1 DEF TypeInv, CursorInv, Cursor, Busy, Ended, Late
  <2>3. Holds(w)'
    BY <2>1, <2>2 DEF Holds
  <2>4. ~ Serial /\ Sound => local' = local
    BY <2>1 DEF Sound, PortInv
  <2> QED
    BY <1>i, <1>o, <2>1, <2>3, <2>4, EndsKept
<1>11. ASSUME UNCHANGED vars PROVE EndsInv'
  <2>1. UNCHANGED <<job, pc, clamped, subs, ends, session, local>>
    BY <1>11 DEF vars, worker, caches
  <2> SUFFICES ASSUME Sound, NEW u \in Workers PROVE Holds(u)'
    BY <1>i, ModesKept DEF EndsInv
  <2>2. Holds(u)
    BY <1>s
  <2>3. pc[u] = "walk" => ends[u][1] = TRUE /\ ends[u][2] = TRUE
    BY <2>2 DEF Holds
  <2> QED
    BY <1>i, <2>1, <2>2, <2>3, HoldsKept
<1> QED
  BY <1>1, <1>2, <1>3, <1>4, <1>6, <1>7, <1>9, <1>10, <1>11 DEF Next, Done

LEMMA EndsKnown == Spec => []EndsInv
<1>1. Init => EndsInv
  BY DEF Init, EndsInv, Holds
<1> QED
  BY <1>1, Typed, Serially, PortsKnown, EndsNext, PTL DEF Spec

-----------------------------------------------------------------------------
(* What a verdict tells of the pairs it may be of.                         *)

\* The pairs whose walk may stand in the dedup cache under k; in the cache of
\* walks under x.
KeyKin(k) == {q \in Asked : Found(q) /\ \E r \in Asked :
                Found(r) /\ Coarse[r[1]] = k[1] /\ Coarse[r[2]] = k[3] /\ OneWalk(r, q)}
WalkKin(x) == {q \in Asked : Found(q) /\ ~ request.trace /\ Reps(q) = x}

KeyTold(k, v) ==
  /\ v = TRUE => k[2] = TRUE /\ k[4] = TRUE /\ \E q \in KeyKin(k) : Truth(q)
  /\ Exact /\ v = FALSE => (k[2] = TRUE /\ k[4] = TRUE => \E q \in KeyKin(k) : ~ Truth(q))
WalkTold(x, v) ==
  /\ v = TRUE => \E q \in WalkKin(x) : Truth(q)
  /\ Exact /\ v = FALSE => \E q \in WalkKin(x) : ~ Truth(q)
\* A miss tells something where it is not the clamp's or the gate's.
PairTold(p, v, whole) ==
  /\ v = TRUE => Found(p) /\ \E q \in Kin(p) : Truth(q)
  /\ Exact /\ whole /\ v = FALSE => (Found(p) => \E q \in Kin(p) : ~ Truth(q))

Judged(w) == pc[w] = "store" => KeyTold(KeyOf(w), verdict[w])
Says(w) ==
  \A i \in 1 .. Len(subs[w]) : PairTold(request.checks[job[w]][i], subs[w][i], ~ clamped[w])
DedupInv == \A k \in Keys : KeyTold(k, dedup[k])
WalkedInv == \A x \in Ends \X Ends : WalkTold(x, walked[x])
SaidInv ==
  \A c \in Checks : \A i \in DOMAIN results[c] :
    PairTold(request.checks[c][i], results[c][i], request.gates[c] # "reject")

VerdictInv ==
  Sound => DedupInv /\ WalkedInv /\ SaidInv /\ \A w \in Workers : Judged(w) /\ Says(w)

LEMMA NoneTold ==
  ASSUME NEW k PROVE KeyTold(k, None) /\ WalkTold(k, None)
<1>1. None # TRUE /\ None # FALSE
  BY ConnTextAssumption
<1> QED
  BY <1>1 DEF KeyTold, WalkTold

LEMMA KinKept ==
  ASSUME UNCHANGED input
  PROVE  /\ Asked' = Asked
         /\ \A p : Kin(p)' = Kin(p) /\ KeyKin(p)' = KeyKin(p) /\ WalkKin(p)' = WalkKin(p)
         /\ \A p : (Truth(p)' <=> Truth(p)) /\ (Found(p)' <=> Found(p))
<1>1. /\ design' = design /\ request' = request /\ Asked' = Asked
  BY DEF input, Asked, Checks
<1>2. \A p : (Truth(p)' <=> Truth(p)) /\ (Found(p)' <=> Found(p)) /\ Reps(p)' = Reps(p)
  BY <1>1 DEF Truth, Found, Reps
<1>3. \A p, q : OneWalk(p, q)' <=> OneWalk(p, q)
  BY <1>1, <1>2 DEF OneWalk
<1>4. \A p : Kin(p)' = Kin(p)
  BY <1>1, <1>2, <1>3 DEF Kin, OneVerdict
<1>5. \A p : KeyKin(p)' = KeyKin(p)
  BY <1>1, <1>2, <1>3 DEF KeyKin
<1>6. \A p : WalkKin(p)' = WalkKin(p)
  BY <1>1, <1>2 DEF WalkKin
<1> QED
  BY <1>1, <1>2, <1>4, <1>5, <1>6

LEMMA ToldKept ==
  ASSUME UNCHANGED input, NEW k, NEW v, NEW b
  PROVE  /\ KeyTold(k, v)' <=> KeyTold(k, v)
         /\ WalkTold(k, v)' <=> WalkTold(k, v)
         /\ PairTold(k, v, b)' <=> PairTold(k, v, b)
BY KinKept, ModesKept DEF KeyTold, WalkTold, PairTold

-----------------------------------------------------------------------------
(* What the steps of a pair tell.                                          *)

\* Both ends are there where both flags say so, and the other way round where
\* nothing is clamped away.
LEMMA FlagsTell ==
  ASSUME TypeInv, PortInv, EndsInv, Sound, NEW w \in Workers, pc[w] \in Ended
  PROVE  /\ ends[w][1] = TRUE /\ ends[w][2] = TRUE <=> Resolved(w)
         /\ Resolved(w) => Found(Pair(w))
         /\ Exact /\ ~ clamped[w] => (Found(Pair(w)) => Resolved(w))
         /\ Exact => (Resolved(w) => ~ Unkeyed(w))
<1>1. /\ Pair(w)[1] \in Ends /\ Pair(w)[2] \in Ends /\ Len(ends[w]) = 2
      /\ ends[w][1] \in BOOLEAN /\ ends[w][2] \in BOOLEAN
  BY PairFacts, KeyFacts DEF Busy
<1>2. ends[w][1] = Cached(w, Pair(w)[1]) /\ ends[w][2] = Cached(w, Pair(w)[2])
  BY <1>1 DEF EndsInv, Holds
<1>3. ends[w][1] = TRUE /\ ends[w][2] = TRUE <=> Resolved(w)
  BY <1>2 DEF Resolved
<1>4. ASSUME NEW e \in Ends, Cached(w, e) = TRUE PROVE e \in design.found
  BY <1>4 DEF Cached, PortInv
<1>5. ASSUME NEW e \in Ends, Cached(w, e) = FALSE, Exact, ~ clamped[w] PROVE e \notin design.found
  BY <1>5 DEF Cached, Local, PortInv, Exact, HidesPorts
<1>6. ASSUME NEW e \in Ends, Cached(w, e) = TRUE, Exact, clamped[w] PROVE e \in design.shown
  BY <1>6 DEF Cached, Local, PortInv, Exact, HidesPorts
<1>r. Resolved(w) => Cached(w, Pair(w)[1]) = TRUE /\ Cached(w, Pair(w)[2]) = TRUE
  BY DEF Resolved
<1>7. Resolved(w) => Found(Pair(w))
  BY <1>1, <1>r, <1>4 DEF Found
<1>8. Exact /\ ~ clamped[w] => (Found(Pair(w)) => Resolved(w))
  BY <1>1, <1>2, <1>3, <1>5 DEF Found
<1>9. Exact => (Resolved(w) => ~ Unkeyed(w))
  <2>1. Unkeyed(w) => /\ clamped[w]
                      /\ Pair(w)[1] \notin design.shown \/ Pair(w)[2] \notin design.shown
    BY DEF Unkeyed
  <2> QED
    BY <1>1, <1>r, <1>6, <2>1
<1> QED
  BY <1>3, <1>7, <1>8, <1>9

\* No way to a verdict but by its own ports, a walk of its nets or a walk of its own.
LEMMA MissTold ==
  ASSUME TypeInv, PortInv, EndsInv, Sound, NEW w \in Workers, PortMiss(w)
  PROVE  KeyTold(KeyOf(w), FALSE)
<1>1. pc[w] \in Ended /\ ~ Resolved(w)
  BY DEF PortMiss, Ended, Late
<1>2. ~ (KeyOf(w)[2] = TRUE /\ KeyOf(w)[4] = TRUE)
  BY <1>1, KeyFacts, FlagsTell
<1> QED
  BY <1>2 DEF KeyTold

LEMMA HitTold ==
  ASSUME TypeInv, PortInv, EndsInv, WalkedInv, Sound, NEW w \in Workers, WalkHit(w)
  PROVE  /\ walked[Reps(Pair(w))] \in BOOLEAN
         /\ KeyTold(KeyOf(w), walked[Reps(Pair(w))])
<1>1. pc[w] \in Ended /\ Resolved(w) /\ ~ request.trace /\ walked[Reps(Pair(w))] # None
  BY DEF WalkHit, Ended, Late
<1>2. PICK x \in Ends \X Ends : x = Reps(Pair(w))
  BY <1>1, RepsFacts DEF Busy
<1>3. PICK v \in BOOLEAN : v = walked[x]
  BY <1>1, <1>2 DEF TypeInv, TypeOK, Flag
<1>4. /\ KeyOf(w)[2] = TRUE /\ KeyOf(w)[4] = TRUE /\ Found(Pair(w)) /\ Pair(w) \in Asked
      /\ KeyOf(w)[1] = Coarse[Pair(w)[1]] /\ KeyOf(w)[3] = Coarse[Pair(w)[2]]
  BY <1>1, KeyFacts, PairFacts, FlagsTell DEF Busy
<1>5. ASSUME NEW q \in WalkKin(x) PROVE q \in KeyKin(KeyOf(w))
  <2>1. q \in Asked /\ Found(q) /\ OneWalk(Pair(w), q)
    BY <1>2, <1>5 DEF WalkKin, OneWalk
  <2> QED
    BY <1>4, <2>1 DEF KeyKin
<1>6. WalkTold(x, v)
  BY <1>3 DEF WalkedInv
<1> QED
  BY <1>2, <1>3, <1>4, <1>5, <1>6 DEF KeyTold, WalkTold

LEMMA WalkTells ==
  ASSUME TypeInv, PortInv, EndsInv, Sound, NEW w \in Workers, pc[w] = "walk", NEW v \in Walks(w)
  PROVE  KeyTold(KeyOf(w), v) /\ (~ request.trace => WalkTold(Reps(Pair(w)), v))
<1>1. pc[w] \in Ended
  BY DEF Ended, Late
<1>2. ends[w][1] = TRUE /\ ends[w][2] = TRUE
  BY DEF EndsInv, Holds
<1>3. /\ KeyOf(w)[2] = TRUE /\ KeyOf(w)[4] = TRUE /\ Found(Pair(w)) /\ Pair(w) \in Asked
      /\ KeyOf(w)[1] = Coarse[Pair(w)[1]] /\ KeyOf(w)[3] = Coarse[Pair(w)[2]]
      /\ Exact => ~ Unkeyed(w)
  BY <1>1, <1>2, KeyFacts, PairFacts, FlagsTell DEF Busy
<1>4. Exact => ~ design.hides \/ (~ clamped[w] /\ ~ blurred)
  BY DEF PortInv, Exact, HidesPorts
<1>5. /\ v = TRUE => Truth(Pair(w))
      /\ Exact => (v = FALSE => ~ Truth(Pair(w)))
  BY <1>3, <1>4, WalksFacts
<1>6. Pair(w) \in KeyKin(KeyOf(w))
  BY <1>3 DEF KeyKin, OneWalk
<1>7. ~ request.trace => Pair(w) \in WalkKin(Reps(Pair(w)))
  BY <1>3 DEF WalkKin
<1> QED
  BY <1>3, <1>5, <1>6, <1>7 DEF KeyTold, WalkTold

\* A verdict of the key is one of the pair.
LEMMA KeyToPair ==
  ASSUME TypeInv, PortInv, EndsInv, Sound, NEW w \in Workers, pc[w] \in Ended,
         NEW v \in BOOLEAN, KeyTold(KeyOf(w), v)
  PROVE  PairTold(Pair(w), v, ~ clamped[w])
<1>1. /\ KeyOf(w)[2] = ends[w][1] /\ KeyOf(w)[4] = ends[w][2]
      /\ KeyOf(w)[1] = Coarse[Pair(w)[1]] /\ KeyOf(w)[3] = Coarse[Pair(w)[2]]
  BY KeyFacts
<1>2. KeyKin(KeyOf(w)) = Kin(Pair(w))
  BY <1>1 DEF KeyKin, Kin, OneVerdict
<1>3. CASE v = TRUE
  BY <1>1, <1>2, <1>3, FlagsTell DEF KeyTold, PairTold
<1>4. CASE v = FALSE
  BY <1>1, <1>2, <1>4, FlagsTell DEF KeyTold, PairTold
<1> QED
  BY <1>3, <1>4

LEMMA JudgedKept ==
  ASSUME TypeInv, UNCHANGED input, NEW w \in Workers, Judged(w),
         job'[w] = job[w], subs'[w] = subs[w], ends'[w] = ends[w], verdict'[w] = verdict[w],
         pc'[w] = "store" => pc[w] = "store"
  PROVE  Judged(w)'
<1> SUFFICES ASSUME pc'[w] = "store" PROVE KeyTold(KeyOf(w), verdict[w])'
  BY DEF Judged
<1>1. KeyOf(w)' = KeyOf(w)
  BY DEF KeyOf, Key, Pair, input
<1>2. PICK k \in Keys : k = KeyOf(w)
  BY KeyFacts DEF Ended, Late
<1>3. PICK v : v = verdict[w]
  OBVIOUS
<1>4. KeyTold(k, v)
  BY <1>2, <1>3 DEF Judged
<1> QED
  BY <1>1, <1>2, <1>3, <1>4, ToldKept

LEMMA SaysKept ==
  ASSUME TypeInv, UNCHANGED input, NEW w \in Workers, Says(w),
         job'[w] = job[w], subs'[w] = subs[w], clamped'[w] = clamped[w]
  PROVE  Says(w)'
<1> SUFFICES ASSUME NEW i \in 1 .. Len(subs[w])
             PROVE  PairTold(request.checks[job[w]][i], subs[w][i], ~ clamped[w])'
  BY DEF Says
<1>1. PICK p, v, b : p = request.checks[job[w]][i] /\ v = subs[w][i] /\ b = ~ clamped[w]
  OBVIOUS
<1>2. PairTold(p, v, b)
  BY <1>1 DEF Says
<1>3. PairTold(p, v, b)'
  BY <1>2, ToldKept
<1> QED
  BY <1>1, <1>3 DEF input

\* The verdict of a pair is added to those of its check.
LEMMA ConcludeSays ==
  ASSUME TypeInv, UNCHANGED <<input, job, clamped>>, NEW w \in Workers, pc[w] \in Busy, Says(w),
         NEW v \in BOOLEAN, Conclude(w, v), PairTold(Pair(w), v, ~ clamped[w])
  PROVE  Says(w)'
<1>1. subs[w] \in Seq(BOOLEAN) /\ subs'[w] = Append(subs[w], v) /\ Len(subs[w]) \in Nat
  BY DEF Conclude, TypeInv, TypeOK
<1> SUFFICES ASSUME NEW i \in 1 .. Len(subs'[w])
             PROVE  PairTold(request.checks[job[w]][i], subs[w][i], ~ clamped[w])'
  BY DEF Says
<1>2. PICK p, b : p = request.checks[job[w]][i] /\ b = ~ clamped[w]
  OBVIOUS
<1>3. CASE i \in 1 .. Len(subs[w])
  <2>1. PICK x : x = subs[w][i]
    OBVIOUS
  <2>2. subs'[w][i] = x
    BY <1>1, <1>3, <2>1
  <2>3. PairTold(p, x, b)
    BY <1>2, <1>3, <2>1 DEF Says
  <2>4. PairTold(p, x, b)'
    BY <2>3, ToldKept
  <2> QED
    BY <1>2, <2>2, <2>4 DEF input
<1>4. CASE i = Len(subs[w]) + 1
  <2>1. p = Pair(w) /\ subs'[w][i] = v
    BY <1>1, <1>2, <1>4 DEF Pair
  <2>2. PairTold(p, v, b)
    BY <1>2, <2>1
  <2>3. PairTold(p, v, b)'
    BY <2>2, ToldKept
  <2> QED
    BY <1>2, <2>1, <2>3 DEF input
<1> QED
  BY <1>1, <1>3, <1>4

\* Verdicts that are stored are told, and stay so.
LEMMA CachesKept ==
  ASSUME UNCHANGED input, DedupInv, WalkedInv, UNCHANGED <<dedup, walked>>
  PROVE  DedupInv' /\ WalkedInv'
<1>1. ASSUME NEW k \in Keys PROVE KeyTold(k, dedup[k])'
  <2>1. PICK v : v = dedup[k]
    OBVIOUS
  <2>2. KeyTold(k, v)'
    BY <2>1, ToldKept DEF DedupInv
  <2> QED
    BY <2>1, <2>2
<1>2. ASSUME NEW x \in Ends \X Ends PROVE WalkTold(x, walked[x])'
  <2>1. PICK v : v = walked[x]
    OBVIOUS
  <2>2. WalkTold(x, v)'
    BY <2>1, ToldKept DEF WalkedInv
  <2> QED
    BY <2>1, <2>2
<1>3. Keys' = Keys
  OBVIOUS
<1> QED
  BY <1>1, <1>2, <1>3 DEF DedupInv, WalkedInv

LEMMA SaidKept ==
  ASSUME UNCHANGED input, SaidInv, UNCHANGED results
  PROVE  SaidInv'
<1>1. ASSUME NEW c \in Checks, NEW i \in DOMAIN results[c]
      PROVE  PairTold(request.checks[c][i], results[c][i], request.gates[c] # "reject")'
  <2>1. PICK p, v, b : /\ p = request.checks[c][i] /\ v = results[c][i]
                       /\ b = (request.gates[c] # "reject")
    OBVIOUS
  <2>2. PairTold(p, v, b)'
    BY <1>1, <2>1, ToldKept DEF SaidInv
  <2> QED
    BY <2>1, <2>2 DEF input
<1> QED
  BY <1>1, ModesKept DEF SaidInv

LEMMA VerdictInit == Init => VerdictInv
<1> SUFFICES ASSUME Init PROVE VerdictInv
  OBVIOUS
<1>1. DedupInv
  <2> SUFFICES ASSUME NEW k \in Keys PROVE KeyTold(k, dedup[k])
    BY DEF DedupInv
  <2>1. dedup[k] = None
    BY DEF Init
  <2> QED
    BY <2>1, NoneTold
<1>2. WalkedInv
  <2> SUFFICES ASSUME NEW x \in Ends \X Ends PROVE WalkTold(x, walked[x])
    BY DEF WalkedInv
  <2>1. walked[x] = None
    BY DEF Init
  <2> QED
    BY <2>1, NoneTold
<1>3. SaidInv
  BY DEF Init, SaidInv
<1>4. \A w \in Workers : Judged(w) /\ Says(w)
  BY DEF Init, Judged, Says
<1> QED
  BY <1>1, <1>2, <1>3, <1>4 DEF VerdictInv

\* A step of w.
LEMMA VerdictKept ==
  ASSUME TypeInv, VerdictInv, UNCHANGED input, NEW w \in Workers,
         \A u \in Workers : u # w =>
           /\ pc'[u] = pc[u] /\ job'[u] = job[u] /\ subs'[u] = subs[u] /\ ends'[u] = ends[u]
           /\ clamped'[u] = clamped[u] /\ verdict'[u] = verdict[u],
         Sound => DedupInv' /\ WalkedInv' /\ SaidInv' /\ Judged(w)' /\ Says(w)'
  PROVE  VerdictInv'
<1> SUFFICES ASSUME Sound, NEW u \in Workers, u # w PROVE Judged(u)' /\ Says(u)'
  BY ModesKept DEF VerdictInv
<1>1. Judged(u) /\ Says(u)
  BY DEF VerdictInv
<1> QED
  BY <1>1, JudgedKept, SaysKept

\* A step that ends a pair with a verdict of its key.
LEMMA ConcludeVerdict ==
  ASSUME TypeInv, PortInv, EndsInv, VerdictInv, UNCHANGED <<input, job, clamped, results, walked>>,
         NEW w \in Workers, pc[w] \in Ended, NEW v \in BOOLEAN, Conclude(w, v),
         Sound => KeyTold(KeyOf(w), v) /\ DedupInv'
  PROVE  VerdictInv'
<1>1. /\ \A u \in Workers : u # w =>
           /\ pc'[u] = pc[u] /\ job'[u] = job[u] /\ subs'[u] = subs[u] /\ ends'[u] = ends[u]
           /\ clamped'[u] = clamped[u] /\ verdict'[u] = verdict[u]
      /\ pc'[w] # "store" /\ pc[w] \in Busy
  BY DEF Conclude, TypeInv, TypeOK, Busy
<1>2. ASSUME Sound PROVE DedupInv' /\ WalkedInv' /\ SaidInv' /\ Judged(w)' /\ Says(w)'
  <2>1. PairTold(Pair(w), v, ~ clamped[w])
    BY <1>2, KeyToPair
  <2>2. Says(w)'
    BY <1>1, <1>2, <2>1, ConcludeSays DEF VerdictInv
  <2>3. SaidInv'
    BY <1>2, SaidKept DEF VerdictInv
  <2>4. WalkedInv'
    <3> SUFFICES ASSUME NEW x \in Ends \X Ends PROVE WalkTold(x, walked[x])'
      BY DEF WalkedInv
    <3>1. PICK a : a = walked[x]
      OBVIOUS
    <3>2. WalkTold(x, a)'
      BY <1>2, <3>1, ToldKept DEF VerdictInv, WalkedInv
    <3> QED
      BY <3>1, <3>2
  <2> QED
    BY <1>1, <1>2, <2>2, <2>3, <2>4 DEF Judged
<1> QED
  BY <1>1, <1>2, VerdictKept

\* A verdict of connect_pair_text, and what becomes of the cache of walks.
LEMMA JudgeVerdict ==
  ASSUME TypeInv, TypeInv', VerdictInv, UNCHANGED input, NEW w \in Workers, pc[w] \in Ended,
         NEW v \in BOOLEAN, Judge(w, v),
         Sound => KeyTold(KeyOf(w), v) /\ WalkedInv'
  PROVE  VerdictInv'
<1>1. /\ \A u \in Workers : u # w => pc'[u] = pc[u] /\ verdict'[u] = verdict[u]
      /\ UNCHANGED <<job, subs, ends, clamped, dedup, results>>
      /\ verdict'[w] = v
  BY DEF Judge, TypeInv, TypeOK
<1>2. ASSUME Sound PROVE DedupInv' /\ SaidInv' /\ Judged(w)' /\ Says(w)'
  <2>1. Says(w)' /\ SaidInv'
    BY <1>1, <1>2, SaysKept, SaidKept DEF VerdictInv
  <2>2. Judged(w)'
    <3>1. PICK k \in Keys : k = KeyOf(w)
      BY KeyFacts
    <3>2. KeyOf(w)' = k
      BY <1>1, <3>1 DEF KeyOf, Key, Pair, input
    <3>3. KeyTold(k, v)'
      BY <1>2, <3>1, ToldKept
    <3> QED
      BY <1>1, <3>2, <3>3 DEF Judged
  <2>3. DedupInv'
    <3> SUFFICES ASSUME NEW k \in Keys PROVE KeyTold(k, dedup[k])'
      BY DEF DedupInv
    <3>1. PICK a : a = dedup[k]
      OBVIOUS
    <3>2. KeyTold(k, a)'
      BY <1>2, <3>1, ToldKept DEF VerdictInv, DedupInv
    <3> QED
      BY <1>1, <3>1, <3>2
  <2> QED
    BY <2>1, <2>2, <2>3
<1> QED
  BY <1>1, <1>2, VerdictKept

LEMMA VerdictNext ==
  ASSUME TypeInv, TypeInv', PortInv, EndsInv, VerdictInv, [Next]_vars
  PROVE  VerdictInv'
<1>i. UNCHANGED input
  BY InputKept
<1>v. Sound => /\ DedupInv /\ WalkedInv /\ SaidInv
               /\ \A w \in Workers : Judged(w) /\ Says(w)
  BY DEF VerdictInv
<1>b. None \notin BOOLEAN /\ dedup \in [Keys -> Flag] /\ walked \in [Ends \X Ends -> Flag]
  BY ConnTextAssumption DEF TypeInv, TypeOK
\* Steps that leave the caches of verdicts and the results alone.
<1>q. ASSUME NEW w \in Workers, UNCHANGED <<dedup, walked, results>>,
             \A u \in Workers : u # w =>
               /\ pc'[u] = pc[u] /\ job'[u] = job[u] /\ subs'[u] = subs[u] /\ ends'[u] = ends[u]
               /\ clamped'[u] = clamped[u] /\ verdict'[u] = verdict[u],
             pc'[w] # "store",
             UNCHANGED <<job, subs, clamped>> \/ subs'[w] = <<>>
      PROVE  VerdictInv'
  <2>1. ASSUME Sound PROVE Judged(w)' /\ Says(w)'
    <3>1. CASE UNCHANGED <<job, subs, clamped>>
      BY <1>i, <1>q, <1>v, <2>1, <3>1, SaysKept DEF Judged
    <3>2. CASE subs'[w] = <<>>
      BY <1>q, <3>2 DEF Judged, Says
    <3> QED
      BY <1>q, <3>1, <3>2
  <2>2. Sound => DedupInv' /\ WalkedInv' /\ SaidInv'
    BY <1>i, <1>q, <1>v, CachesKept, SaidKept
  <2> QED
    BY <1>i, <1>q, <2>1, <2>2, VerdictKept
<1>1. ASSUME NEW w \in Workers, Take(w) PROVE VerdictInv'
  <2>1. pc[w] = "idle"
    BY <1>1 DEF Take, TypeInv, TypeOK
  <2>2. subs[w] = <<>>
    BY <2>1 DEF TypeInv, CursorInv, Cursor
  <2>3. subs'[w] = <<>> /\ pc'[w] # "store" /\ UNCHANGED <<dedup, walked, results>>
    BY <1>1, <2>2 DEF Take, walks, TypeInv, TypeOK
  <2>4. \A u \in Workers : u # w =>
           /\ pc'[u] = pc[u] /\ job'[u] = job[u] /\ subs'[u] = subs[u] /\ ends'[u] = ends[u]
           /\ clamped'[u] = clamped[u] /\ verdict'[u] = verdict[u]
    BY <1>1 DEF Take, TypeInv, TypeOK
  <2> QED
    BY <2>3, <2>4, <1>q
<1>2. ASSUME NEW w \in Workers, Reject(w) PROVE VerdictInv'
  <2>1. UNCHANGED <<pc, job, subs, ends, clamped, verdict, dedup, walked>>
    BY <1>2 DEF Reject, worker, caches, walks
  <2>2. taken + 1 \in Checks
    BY <1>2 DEF Reject, TypeInv, TypeOK, Checks
  <2>3. ASSUME Sound PROVE SaidInv'
    <3> SUFFICES ASSUME NEW c \in Checks, NEW i \in DOMAIN results'[c]
                 PROVE  PairTold(request.checks[c][i], results[c][i],
                                 request.gates[c] # "reject")'
      BY <1>i, ModesKept DEF SaidInv
    <3>1. PICK p, a, b : /\ p = request.checks[c][i] /\ a = results'[c][i]
                         /\ b = (request.gates[c] # "reject")
      OBVIOUS
    <3>2. PairTold(p, a, b)
      <4>1. CASE c = taken + 1
        <5>1. results'[c] = [j \in DOMAIN request.checks[c] |-> FALSE] /\ b = FALSE
          BY <1>2, <2>2, <3>1, <4>1 DEF Reject, TypeInv, TypeOK
        <5>2. a = FALSE
          BY <3>1, <5>1
        <5> QED
          BY <5>1, <5>2 DEF PairTold
      <4>2. CASE c # taken + 1
        <5>1. results'[c] = results[c]
          BY <1>2, <4>2 DEF Reject, TypeInv, TypeOK
        <5> QED
          BY <1>v, <2>3, <3>1, <5>1 DEF SaidInv
      <4> QED
        BY <4>1, <4>2
    <3>3. PairTold(p, a, b)'
      BY <1>i, <3>2, ToldKept
    <3> QED
      BY <1>i, <3>1, <3>3 DEF input
  <2>4. ASSUME Sound PROVE DedupInv' /\ WalkedInv' /\ Judged(w)' /\ Says(w)'
    BY <1>i, <1>v, <2>1, <2>4, CachesKept, JudgedKept, SaysKept
  <2> QED
    BY <1>i, <2>1, <2>3, <2>4, VerdictKept
<1>3. ASSUME NEW w \in Workers,
             \/ ResolveHit(w) \/ ResolveMiss(w) \/ Remember(w) \/ Count(w) \/ Counted(w)
             \/ DedupMiss(w) \/ WalkMiss(w)
      PROVE  VerdictInv'
  <2>1. /\ UNCHANGED <<dedup, walked, results, job, subs, clamped, verdict>> /\ pc'[w] # "store"
        /\ \A u \in Workers : u # w => pc'[u] = pc[u] /\ ends'[u] = ends[u]
    BY <1>3 DEF ResolveHit, ResolveMiss, Remember, Count, Counted, DedupMiss, WalkMiss, caches,
                walks, TypeInv, TypeOK
  <2> QED
    BY <2>1, <1>q
<1>4. ASSUME NEW w \in Workers, DedupHit(w) PROVE VerdictInv'
  <2>1. pc[w] \in Ended /\ dedup[KeyOf(w)] # None
    BY <1>4 DEF DedupHit, Ended, Late
  <2>2. PICK k \in Keys : k = KeyOf(w)
    BY <2>1, KeyFacts
  <2>3. PICK v \in BOOLEAN : v = dedup[k]
    BY <1>b, <2>1, <2>2 DEF Flag
  <2>4. /\ Conclude(w, v) /\ UNCHANGED <<job, clamped, results, walked, dedup>>
    BY <1>4, <2>2, <2>3 DEF DedupHit, caches, walks
  <2>5. Sound => KeyTold(KeyOf(w), v) /\ DedupInv'
    BY <1>i, <1>v, <2>2, <2>3, <2>4, CachesKept DEF DedupInv
  <2> QED
    BY <1>i, <2>1, <2>4, <2>5, ConcludeVerdict
<1>5. ASSUME NEW w \in Workers, PortMiss(w) PROVE VerdictInv'
  <2>1. Judge(w, FALSE) /\ UNCHANGED walks /\ pc[w] \in Ended
    BY <1>5 DEF PortMiss, Ended, Late
  <2>2. UNCHANGED <<dedup, walked>>
    BY <2>1 DEF Judge, walks
  <2>3. Sound => KeyTold(KeyOf(w), FALSE) /\ WalkedInv'
    BY <1>5, <1>i, <1>v, <2>2, MissTold, CachesKept
  <2> QED
    BY <1>i, <2>1, <2>3, JudgeVerdict
<1>6. ASSUME NEW w \in Workers, WalkHit(w) PROVE VerdictInv'
  <2>1. /\ Judge(w, walked[Reps(Pair(w))]) /\ UNCHANGED walks /\ pc[w] \in Ended
        /\ walked[Reps(Pair(w))] # None
    BY <1>6 DEF WalkHit, Ended, Late
  <2>2. UNCHANGED <<dedup, walked>>
    BY <2>1 DEF Judge, walks
  <2>3. walked[Reps(Pair(w))] \in BOOLEAN
    BY <1>b, <2>1, RepsFacts DEF Flag, Busy
  <2>4. PICK v \in BOOLEAN : v = walked[Reps(Pair(w))]
    BY <2>3
  <2>5. Sound => KeyTold(KeyOf(w), v) /\ WalkedInv'
    BY <1>6, <1>i, <1>v, <2>2, <2>4, HitTold, CachesKept
  <2> QED
    BY <1>i, <2>1, <2>4, <2>5, JudgeVerdict
<1>7. ASSUME NEW w \in Workers, Walk(w) PROVE VerdictInv'
  <2>1. pc[w] = "walk" /\ pc[w] \in Ended
    BY <1>7 DEF Walk, Ended, Late
  <2>2. PICK v \in Walks(w) : /\ Judge(w, v)
                              /\ \/ walked' = walked
                                 \/ /\ ~ request.trace
                                    /\ walked' = Learn(walked, Reps(Pair(w)), v)
    BY <1>7 DEF Walk
  <2>3. v \in BOOLEAN
    BY WalksFacts
  <2>4. PICK x \in Ends \X Ends : x = Reps(Pair(w))
    BY <2>1, RepsFacts DEF Busy
  <2>5. ASSUME Sound PROVE KeyTold(KeyOf(w), v) /\ (~ request.trace => WalkTold(x, v))
    BY <2>1, <2>4, <2>5, WalkTells
  <2>6. ASSUME Sound PROVE WalkedInv'
    <3> SUFFICES ASSUME NEW y \in Ends \X Ends PROVE WalkTold(y, walked[y])'
      BY DEF WalkedInv
    <3>1. PICK a : a = walked'[y]
      OBVIOUS
    <3>2. a = walked[y] \/ (~ request.trace /\ y = x /\ a = v)
      BY <1>b, <2>2, <2>4, <3>1 DEF Learn
    <3>3. WalkTold(y, a)
      BY <1>v, <2>5, <2>6, <3>2 DEF WalkedInv
    <3>4. WalkTold(y, a)'
      BY <1>i, <3>3, ToldKept
    <3> QED
      BY <3>1, <3>4
  <2> QED
    BY <1>i, <2>1, <2>2, <2>3, <2>5, <2>6, JudgeVerdict
<1>8. ASSUME NEW w \in Workers, Connect(w) PROVE VerdictInv'
  <2>1. pc[w] = "store" /\ pc[w] \in Ended /\ UNCHANGED <<job, clamped, walked, results>>
    BY <1>8 DEF Connect, Ended, Late, walks
  <2>2. PICK k \in Keys : k = KeyOf(w)
    BY <2>1, KeyFacts
  <2>3. verdict[w] \in BOOLEAN
    BY <2>1 DEF TypeInv, TypeOK, CursorInv, Cursor, Flag
  <2>4. PICK v \in BOOLEAN : v = IF dedup[k] # None THEN dedup[k] ELSE verdict[w]
    BY <1>b, <2>3 DEF Flag
  <2>5. Conclude(w, v) /\ dedup' \in {dedup, [dedup EXCEPT ![k] = v]}
    BY <1>8, <2>2, <2>4 DEF Connect, Stored
  <2>6. ASSUME Sound PROVE KeyTold(k, v)
    BY <1>v, <2>1, <2>2, <2>4, <2>6 DEF DedupInv, Judged
  <2>7. ASSUME Sound PROVE DedupInv'
    <3> SUFFICES ASSUME NEW j \in Keys PROVE KeyTold(j, dedup[j])'
      BY DEF DedupInv
    <3>1. PICK a : a = dedup'[j]
      OBVIOUS
    <3>2. a = dedup[j] \/ (j = k /\ a = v)
      BY <1>b, <2>5, <3>1
    <3>3. KeyTold(j, a)
      BY <1>v, <2>6, <2>7, <3>2 DEF DedupInv
    <3>4. KeyTold(j, a)'
      BY <1>i, <3>3, ToldKept
    <3> QED
      BY <3>1, <3>4
  <2> QED
    BY <1>i, <2>1, <2>2, <2>5, <2>6, <2>7, ConcludeVerdict
<1>9. ASSUME NEW w \in Workers, Answer(w) PROVE VerdictInv'
  <2>1. /\ UNCHANGED <<ends, verdict, dedup, walked>> /\ pc[w] = "sum"
        /\ pc'[w] = "idle" /\ subs'[w] = <<>>
        /\ \A u \in Workers : u # w => /\ pc'[u] = pc[u] /\ job'[u] = job[u]
                                       /\ subs'[u] = subs[u] /\ clamped'[u] = clamped[u]
        /\ results' = [results EXCEPT ![job[w]] = subs[w]]
        /\ clamped[w] => AllConnected(w)
    BY <1>9 DEF Answer, Release, caches, walks, TypeInv, TypeOK
  <2>2. ASSUME Sound PROVE SaidInv'
    <3> SUFFICES ASSUME NEW c \in Checks, NEW i \in DOMAIN results'[c]
                 PROVE  PairTold(request.checks[c][i], results[c][i],
                                 request.gates[c] # "reject")'
      BY <1>i, ModesKept DEF SaidInv
    <3>1. PICK p, a, b : /\ p = request.checks[c][i] /\ a = results'[c][i]
                         /\ b = (request.gates[c] # "reject")
      OBVIOUS
    <3>2. PairTold(p, a, b)
      <4>1. CASE c = job[w]
        <5>1. results'[c] = subs[w] /\ subs[w] \in Seq(BOOLEAN)
          BY <2>1, <4>1 DEF TypeInv, TypeOK
        <5>2. i \in 1 .. Len(subs[w]) /\ a = subs[w][i]
          BY <3>1, <5>1
        <5>3. PairTold(p, a, ~ clamped[w])
          BY <1>v, <2>2, <3>1, <4>1, <5>2 DEF Says
        <5>4. clamped[w] => a # FALSE
          BY <2>1, <5>1, <5>2 DEF AllConnected
        <5> QED
          BY <5>3, <5>4 DEF PairTold
      <4>2. CASE c # job[w]
        <5>1. results'[c] = results[c]
          BY <2>1, <4>2 DEF TypeInv, TypeOK
        <5> QED
          BY <1>v, <2>2, <3>1, <5>1 DEF SaidInv
      <4> QED
        BY <4>1, <4>2
    <3>3. PairTold(p, a, b)'
      BY <1>i, <3>2, ToldKept
    <3> QED
      BY <1>i, <3>1, <3>3 DEF input
  <2>3. Judged(w)' /\ Says(w)'
    BY <2>1 DEF Judged, Says
  <2>4. Sound => DedupInv' /\ WalkedInv'
    BY <1>i, <1>v, <2>1, CachesKept
  <2> QED
    BY <1>i, <2>1, <2>2, <2>3, <2>4, VerdictKept
<1>10. ASSUME NEW w \in Workers, FastMiss(w) PROVE VerdictInv'
  <2>1. /\ UNCHANGED <<dedup, walked, results, job, ends, verdict>> /\ pc'[w] # "store"
        /\ subs'[w] = <<>>
        /\ \A u \in Workers : u # w => /\ pc'[u] = pc[u] /\ subs'[u] = subs[u]
                                       /\ clamped'[u] = clamped[u]
    BY <1>10 DEF FastMiss, walks, TypeInv, TypeOK
  <2> QED
    BY <2>1, <1>q
<1>11. CASE UNCHANGED vars
  <2>1. UNCHANGED <<pc, job, subs, ends, clamped, verdict, dedup, walked, results>>
    BY <1>11 DEF vars, worker, caches, walks
  <2>2. ASSUME Sound, NEW w \in Workers PROVE Judged(w)' /\ Says(w)'
    BY <1>i, <1>v, <2>1, <2>2, JudgedKept, SaysKept
  <2>3. Sound => DedupInv' /\ WalkedInv' /\ SaidInv'
    BY <1>i, <1>v, <2>1, CachesKept, SaidKept
  <2> QED
    BY <1>i, <2>2, <2>3, ModesKept DEF VerdictInv
<1> QED
  BY <1>1, <1>2, <1>3, <1>4, <1>5, <1>6, <1>7, <1>8, <1>9, <1>10, <1>11 DEF Next, Done

LEMMA VerdictsTold == Spec => []VerdictInv
BY Typed, PortsKnown, EndsKnown, VerdictInit, VerdictNext, PTL DEF Spec

-----------------------------------------------------------------------------
(* What the answers are.                                                   *)

LEMMA PairAnswered ==
  ASSUME Exact, NEW p, NEW v \in BOOLEAN, PairTold(p, v, TRUE)
  PROVE  IF Found(p) THEN \E q \in Kin(p) : v = Truth(q) ELSE ~ v
<1>1. CASE v = TRUE
  <2>1. Found(p)
    BY <1>1 DEF PairTold
  <2>2. PICK q \in Kin(p) : Truth(q)
    BY <1>1 DEF PairTold
  <2>3. v = Truth(q)
    BY <1>1, <2>2 DEF Truth
  <2> QED
    BY <2>1, <2>3, Zenon
<1>2. CASE v = FALSE
  <2>1. ASSUME Found(p) PROVE \E q \in Kin(p) : v = Truth(q)
    <3>1. PICK q \in Kin(p) : ~ Truth(q)
      BY <1>2, <2>1 DEF PairTold
    <3>2. v = Truth(q)
      BY <1>2, <3>1 DEF Truth
    <3> QED
      BY <3>2, Zenon
  <2> QED
    BY <1>2, <2>1
<1> QED
  BY <1>1, <1>2

\* Answers that are told are those of kin.
LEMMA ToldIsKin ==
  ASSUME TypeInv, SaidInv, Exact, NEW c \in Checks, Answered(c)
  PROVE  OfKin(c)
<1> SUFFICES ASSUME NEW i \in DOMAIN results[c]
             PROVE  LET p == request.checks[c][i]
                    IN  IF Found(p) THEN \E q \in Kin(p) : results[c][i] = Truth(q)
                                    ELSE ~ results[c][i]
  BY DEF OfKin
<1>1. PICK p : p = request.checks[c][i]
  OBVIOUS
<1>2. results[c] \in Seq(BOOLEAN)
  BY DEF TypeInv, TypeOK
<1>3. PICK v \in BOOLEAN : v = results[c][i]
  BY <1>2
<1>4. (request.gates[c] # "reject") = TRUE
  BY DEF Answered
<1>5. PairTold(p, v, TRUE)
  BY <1>1, <1>3, <1>4 DEF SaidInv
<1> QED
  BY <1>1, <1>3, <1>5, PairAnswered

(* Whatever slices, nets and endpoints checks share and however many workers *)
(* race, a batch without a gated check gives every pair its own verdict or   *)
(* that of a pair whose two keys are its own, and no pair without its ports  *)
(* a connection.                                                             *)
THEOREM UngatedAnswersOfKin == Spec => []UngatedOfKin
<1>1. TypeInv /\ VerdictInv => UngatedOfKin
  BY ToldIsKin DEF UngatedOfKin, VerdictInv, Sound, Exact, Ungated
<1> QED
  BY <1>1, Typed, VerdictsTold, PTL

(* In a batch answered check by check neither the clamp nor a cache connects *)
(* a pair of which no kin is connected, or one whose ports are not there.    *)
THEOREM NothingFalselyConnected == Spec => []NoFalseConnect
<1>1. TypeInv /\ VerdictInv => NoFalseConnect
  <2> SUFFICES ASSUME TypeInv, VerdictInv, Serial,
                      NEW c \in Checks, NEW i \in DOMAIN results[c], results[c][i]
               PROVE  LET p == request.checks[c][i]
                      IN  Found(p) /\ \E q \in Kin(p) : Truth(q)
    BY DEF NoFalseConnect
  <2>1. results[c] \in Seq(BOOLEAN)
    BY DEF TypeInv, TypeOK
  <2>2. results[c][i] = TRUE
    BY <2>1
  <2>3. PICK p, b : p = request.checks[c][i] /\ b = (request.gates[c] # "reject")
    OBVIOUS
  <2>4. PairTold(p, TRUE, b)
    BY <2>2, <2>3 DEF VerdictInv, Sound, SaidInv
  <2> QED
    BY <2>3, <2>4 DEF PairTold
<1> QED
  BY <1>1, Typed, VerdictsTold, PTL

(* In the pipeline every check that is answered gets the verdicts of its kin *)
(* over the whole design, however many ports the clamp hides, as long as the *)
(* clamp hides no row of a walk.                                             *)
THEOREM HiddenPortsRecovered == Spec => []PortsRecovered
<1>1. TypeInv /\ VerdictInv => PortsRecovered
  BY ToldIsKin DEF PortsRecovered, VerdictInv, Sound, Serial, Exact, HidesPorts
<1> QED
  BY <1>1, Typed, VerdictsTold, PTL

-----------------------------------------------------------------------------
(* Verdicts once shared.                                                   *)

(* A verdict, once shared, is the one every later check gets.                *)
THEOREM VerdictsNeverChange == Spec => VerdictsStay
<1> DEFINE Stay == \A k \in Keys : dedup[k] # None => dedup'[k] = dedup[k]
<1>1. ASSUME TypeInv, [Next]_vars PROVE [Stay]_vars
  <2>1. ASSUME NEW w \in Workers, Connect(w) PROVE Stay
    BY <1>1, <2>1 DEF Connect, Stored, TypeInv, TypeOK
  <2>2. ASSUME UNCHANGED dedup PROVE Stay
    BY <2>2
  <2> QED
    BY <1>1, <2>1, <2>2 DEF Next, Done, Take, Reject, ResolveHit, ResolveMiss, Remember, Count,
       Counted, DedupHit, DedupMiss, PortMiss, WalkHit, WalkMiss, Walk, Judge, Answer, FastMiss,
       caches
<1> QED
  BY <1>1, Typed, PTL DEF Spec, VerdictsStay

-----------------------------------------------------------------------------
(* The counters of the batch.                                              *)

Shared == {k \in Keys : dedup[k] # None}

\* Answered check by check, a pair that is not yet judged is counted already,
\* and what its worker read is still so when it writes.
Tallied(w) ==
  /\ pc[w] = "count" => tally[w] = leaves
  /\ pc[w] \in Late => unique < leaves

CountInv ==
  /\ IsFiniteSet(Shared) /\ unique = Cardinality(Shared)
  /\ Serial => unique <= leaves /\ \A w \in Workers : Tallied(w)

LEMMA CountInit == Init => CountInv
<1> SUFFICES ASSUME Init PROVE CountInv
  OBVIOUS
<1>1. Shared = {}
  BY DEF Init, Shared
<1> QED
  BY <1>1, FS_EmptySet DEF Init, CountInv, Tallied, Late

\* A step of w that stores nothing; in a batch answered check by check nobody
\* else is on a check.
LEMMA CountKept ==
  ASSUME TypeInv, SerialInv, CountInv, UNCHANGED <<input, dedup, unique>>, NEW w \in Workers,
         job[w] # 0, \A u \in Workers : u # w => pc'[u] = pc[u],
         Serial => unique <= leaves' /\ Tallied(w)'
  PROVE  CountInv'
<1>1. Shared' = Shared
  BY DEF Shared
<1>2. ASSUME Serial, NEW u \in Workers, u # w PROVE Tallied(u)'
  BY <1>2, OthersIdle DEF Tallied, Late
<1> QED
  BY <1>1, <1>2, ModesKept DEF CountInv

LEMMA CountNext == TypeInv /\ SerialInv /\ CountInv /\ [Next]_vars => CountInv'
<1> SUFFICES ASSUME TypeInv, SerialInv, CountInv, [Next]_vars PROVE CountInv'
  OBVIOUS
<1>i. UNCHANGED input /\ (Serial' <=> Serial)
  BY InputKept, ModesKept
<1>0. Cardinality(Shared) \in Nat /\ unique \in Nat /\ leaves \in Nat
  BY FS_CardinalityType DEF CountInv, TypeInv, TypeOK
<1>b. \A w \in Workers : pc[w] # "idle" <=> job[w] # 0
  BY DEF TypeInv, TypeOK
<1>1. ASSUME NEW w \in Workers, Count(w) PROVE CountInv'
  <2>1. /\ pc[w] = "resolve" /\ UNCHANGED <<dedup, unique, leaves>>
        /\ pc'[w] = "count" /\ tally'[w] = leaves /\ \A u \in Workers : u # w => pc'[u] = pc[u]
    BY <1>1 DEF Count, caches, TypeInv, TypeOK
  <2>2. Serial => unique <= leaves' /\ Tallied(w)'
    BY <2>1 DEF CountInv, Tallied, Late
  <2> QED
    BY <1>b, <1>i, <2>1, <2>2, CountKept
<1>2. ASSUME NEW w \in Workers, Counted(w) PROVE CountInv'
  <2>1. /\ pc[w] = "count" /\ UNCHANGED <<dedup, unique>> /\ leaves' = tally[w] + 1
        /\ pc'[w] = "lookup" /\ \A u \in Workers : u # w => pc'[u] = pc[u]
    BY <1>2 DEF Counted, TypeInv, TypeOK
  <2>2. Serial => unique <= leaves' /\ Tallied(w)'
    BY <1>0, <2>1 DEF CountInv, Tallied, Late
  <2> QED
    BY <1>b, <1>i, <2>1, <2>2, CountKept
<1>3. ASSUME NEW w \in Workers,
             \/ ResolveHit(w) \/ ResolveMiss(w) \/ Remember(w) \/ DedupHit(w) \/ DedupMiss(w)
             \/ PortMiss(w) \/ WalkHit(w) \/ WalkMiss(w) \/ Walk(w) \/ Answer(w) \/ FastMiss(w)
      PROVE  CountInv'
  <2>1. /\ pc[w] # "idle" /\ UNCHANGED <<dedup, unique, leaves>>
        /\ pc'[w] # "count" /\ (pc'[w] \in Late => pc[w] \in Late)
        /\ \A u \in Workers : u # w => pc'[u] = pc[u]
    BY <1>3 DEF ResolveHit, ResolveMiss, Remember, DedupHit, DedupMiss, Conclude, PortMiss,
                WalkHit, WalkMiss, Walk, Judge, Answer, Release, FastMiss, caches, Late, TypeInv,
                TypeOK
  <2>2. Serial => unique <= leaves' /\ Tallied(w)'
    BY <2>1 DEF CountInv, Tallied
  <2> QED
    BY <1>b, <1>i, <2>1, <2>2, CountKept
<1>4. ASSUME NEW w \in Workers, Connect(w) PROVE CountInv'
  <2>1. /\ pc[w] = "store" /\ leaves' = leaves /\ pc'[w] \notin Late /\ pc'[w] # "count"
        /\ \A u \in Workers : u # w => pc'[u] = pc[u]
    BY <1>4 DEF Connect, Conclude, Late, TypeInv, TypeOK
  <2>2. CASE Stored(w) # None
    <3>1. UNCHANGED <<dedup, unique>>
      BY <1>4, <2>2 DEF Connect
    <3>2. Serial => unique <= leaves' /\ Tallied(w)'
      BY <2>1 DEF CountInv, Tallied
    <3> QED
      BY <1>b, <1>i, <2>1, <3>1, <3>2, CountKept
  <2>3. CASE Stored(w) = None
    <3>1. PICK k \in Keys : k = KeyOf(w)
      BY <2>1, KeyFacts DEF Ended, Late
    <3>2. unique' = unique + 1 /\ dedup' = [dedup EXCEPT ![k] = verdict[w]]
      BY <1>4, <2>3, <3>1 DEF Connect
    <3>3. verdict[w] # None
      BY <2>1 DEF TypeInv, CursorInv, Cursor
    <3>4. Shared' = Shared \cup {k} /\ k \notin Shared
      BY <2>3, <3>1, <3>2, <3>3 DEF Shared, Stored, TypeInv, TypeOK
    <3>5. IsFiniteSet(Shared') /\ Cardinality(Shared') = Cardinality(Shared) + 1
      BY <3>4, FS_AddElement DEF CountInv
    <3>6. ASSUME Serial, NEW u \in Workers PROVE Tallied(u)'
      <4>1. CASE u = w
        BY <2>1, <4>1 DEF Tallied
      <4>2. CASE u # w
        <5>1. pc'[u] = "idle"
          BY <1>b, <2>1, <3>6, <4>2, OthersIdle
        <5> QED
          BY <5>1 DEF Tallied, Late
      <4> QED
        BY <4>1, <4>2
    <3>7. Serial => unique < leaves
      BY <2>1 DEF CountInv, Tallied, Late
    <3> QED
      BY <1>0, <1>i, <2>1, <3>2, <3>5, <3>6, <3>7 DEF CountInv
  <2> QED
    BY <2>2, <2>3
<1>5. ASSUME NEW w \in Workers, Take(w) PROVE CountInv'
  <2>1. /\ UNCHANGED <<dedup, unique, leaves, tally>> /\ pc'[w] = "resolve"
        /\ \A u \in Workers : u # w => pc'[u] = pc[u]
    BY <1>5 DEF Take, TypeInv, TypeOK
  <2>2. Shared' = Shared
    BY <2>1 DEF Shared
  <2>3. Serial => \A u \in Workers : Tallied(u)'
    BY <2>1 DEF CountInv, Tallied, Late
  <2> QED
    BY <1>i, <2>1, <2>2, <2>3 DEF CountInv
<1>6. ASSUME UNCHANGED <<dedup, unique, leaves, tally, pc>> PROVE CountInv'
  <2>1. Shared' = Shared
    BY <1>6 DEF Shared
  <2> QED
    BY <1>i, <1>6, <2>1 DEF CountInv, Tallied
<1>7. ASSUME NEW w \in Workers, Reject(w) PROVE CountInv'
  BY <1>6, <1>7 DEF Reject, worker, caches
<1>8. CASE UNCHANGED vars
  BY <1>6, <1>8 DEF vars, worker, caches
<1> QED
  BY <1>1, <1>2, <1>3, <1>4, <1>5, <1>7, <1>8 DEF Next, Done

(* unique is the number of verdicts shared, whoever raced for them, and in a *)
(* batch answered check by check at most the number of pairs asked.          *)
THEOREM CountsAreRight == Spec => []UniqueCounts
<1>1. CountInv => UniqueCounts
  BY DEF CountInv, UniqueCounts, Shared
<1> QED
  BY <1>1, Typed, Serially, CountInit, CountNext, PTL DEF Spec

=============================================================================

------------------------------ MODULE ConnText ------------------------------
(***************************************************************************)
(* The text phase of a connectivity request (connect/session.py,           *)
(* run_text_request, and path_walk.py, _pipeline_path_walk_text_conn): the *)
(* checks of a batch are answered by a pool of workers which share the     *)
(* session's cache of resolved endpoints and the batch's cache of deduped  *)
(* verdicts.  A check the hierarchy grep gate passes is first tried over   *)
(* the gate's rows and files only (clamped); what that does not connect is *)
(* tried again over everything.                                            *)
(*                                                                         *)
(* Resolving an endpoint and walking from one port to another (NetWalk)    *)
(* are abstracted to what they answer in either scope.  Three caches stand *)
(* between a pair and its walk: of endpoints by spec, of verdicts by what  *)
(* text_dedup_key leaves of the two specs, and of walks by what the        *)
(* declarations do not tell apart.  The last two merge pairs that need not *)
(* have one answer.  Pairs of two instances, which no walk joins, are left *)
(* out.                                                                    *)
(***************************************************************************)
EXTENDS Naturals, Sequences, FiniteSets

CONSTANTS
  Workers,
  Ends,      \* endpoint specs
  Coarse,    \* Coarse[e]: e without slices and the indices of instances
  Designs,   \* what the sources hold, see Design
  Requests,  \* what is asked, see Request
  None

Bases == {Coarse[e] : e \in Ends}
\* Ports that exist and those the clamp still shows; the pairs a walk connects;
\* whether the clamp lacks rows the walks need; the net _net_rep_at_scope names
\* for an endpoint.
Design == [found : SUBSET Ends, shown : SUBSET Ends, joined : SUBSET (Ends \X Ends),
           hides : BOOLEAN, rep : [Ends -> Ends]]
\* The expanded pairs of every check, the gate it is run with (the session keeps
\* gates by check_id: the last of an id is the gate of all), the flag that turns
\* the cache of walks off, and which of the two callers runs the batch.
Request == [checks : Seq(Seq(Ends \X Ends)), gates : Seq({"reject", "pass", "fallback"}),
            trace : BOOLEAN, pipeline : BOOLEAN]

ASSUME ConnTextAssumption ==
  /\ Designs \subseteq Design
  /\ \A d \in Designs : d.shown \subseteq d.found
  /\ Requests \subseteq Request
  /\ \A r \in Requests : /\ Len(r.gates) = Len(r.checks)
                         /\ \A c \in 1 .. Len(r.checks) : r.checks[c] # <<>>
  /\ None \notin BOOLEAN

VARIABLES
  design, request,  \* never change
  taken,     \* checks handed to a worker so far
  job,       \* the check a worker is on, 0 for none
  pc,
  clamped,   \* the worker is on the fast path
  subs,      \* its verdicts on the pairs of its check so far
  ends,      \* whether it found the endpoints of the next pair, as far as it knows
  tally,     \* the value of leaves it is about to add one to
  verdict,   \* of its connect_pair_text
  session,   \* endpoint_resolve_cache of the session: whether the port was found
  local,     \* that of the pipeline's session for one check
  walked,    \* walk_verdict_cache
  blurred,   \* parent_up_cache may lack parents the clamp hid
  dedup,     \* dedup_cache
  leaves, unique,  \* dedup_stats
  results

input == <<design, request>>
worker == <<job, pc, clamped, subs, ends, tally, verdict>>
walks == <<walked, blurred>>
caches == <<session, local, walks, dedup, leaves, unique>>
vars == <<input, taken, worker, caches, results>>

Checks == 1 .. Len(request.checks)
Flag == BOOLEAN \cup {None}
Keys == Bases \X BOOLEAN \X Bases \X BOOLEAN
NoEnds == [e \in Ends |-> None]
\* run_text_request answers fewer than 4 checks one by one, the pipeline all.
Serial == request.pipeline \/ Len(request.checks) < 4

Init ==
  /\ design \in Designs
  /\ request \in Requests
  /\ taken = 0
  /\ job = [w \in Workers |-> 0]
  /\ pc = [w \in Workers |-> "idle"]
  /\ clamped = [w \in Workers |-> FALSE]
  /\ subs = [w \in Workers |-> <<>>]
  /\ ends = [w \in Workers |-> <<>>]
  /\ tally = [w \in Workers |-> 0]
  /\ verdict = [w \in Workers |-> None]
  /\ session = NoEnds
  /\ local = NoEnds
  /\ walked = [q \in Ends \X Ends |-> None]
  /\ blurred = FALSE
  /\ dedup = [k \in Keys |-> None]
  /\ leaves = 0
  /\ unique = 0
  /\ results = [c \in Checks |-> <<>>]

-----------------------------------------------------------------------------
(* The pool.                                                                 *)

\* The endpoint cache of the pipeline's full walk lives for one check.
Fresh(w, c) ==
  local' = IF request.pipeline /\ request.gates[c] # "pass" THEN NoEnds ELSE local

Take(w) ==
  /\ job[w] = 0 /\ taken < Len(request.checks)
  /\ Serial => \A v \in Workers : job[v] = 0
  /\ request.gates[taken + 1] # "reject"
  /\ taken' = taken + 1
  /\ job' = [job EXCEPT ![w] = taken + 1]
  /\ pc' = [pc EXCEPT ![w] = "resolve"]
  /\ clamped' = [clamped EXCEPT ![w] = request.gates[taken + 1] = "pass"]
  /\ Fresh(w, taken + 1)
  /\ UNCHANGED <<input, subs, ends, tally, verdict, session, walks, dedup, leaves, unique,
                 results>>

\* fast_fail_result
Reject(w) ==
  /\ job[w] = 0 /\ taken < Len(request.checks)
  /\ Serial => \A v \in Workers : job[v] = 0
  /\ request.gates[taken + 1] = "reject"
  /\ taken' = taken + 1
  /\ results' = [results EXCEPT ![taken + 1] =
                   [i \in DOMAIN request.checks[taken + 1] |-> FALSE]]
  /\ UNCHANGED <<input, worker, caches>>

-----------------------------------------------------------------------------
(* One pair: resolve_endpoint_cached twice, the count, the dedup cache.      *)

Pair(w) == request.checks[job[w]][Len(subs[w]) + 1]
NextEnd(w) == Pair(w)[Len(ends[w]) + 1]
\* Mutant of Local: the pipeline's full walk shares the session's cache.
LocalNever(w) == FALSE
Local(w) == request.pipeline /\ ~ clamped[w]
Cached(w, e) == IF Local(w) THEN local[e] ELSE session[e]

Answers(w, e) == e \in (IF clamped[w] THEN design.shown ELSE design.found)

ResolveHit(w) ==
  /\ pc[w] = "resolve" /\ Len(ends[w]) < 2
  /\ Cached(w, NextEnd(w)) # None
  /\ ends' = [ends EXCEPT ![w] = Append(@, Cached(w, NextEnd(w)))]
  /\ UNCHANGED <<input, taken, job, pc, clamped, subs, tally, verdict, caches, results>>

ResolveMiss(w) ==
  /\ pc[w] = "resolve" /\ Len(ends[w]) < 2
  /\ Cached(w, NextEnd(w)) = None
  /\ pc' = [pc EXCEPT ![w] = "remember"]
  /\ UNCHANGED <<input, taken, job, clamped, subs, ends, tally, verdict, caches,
                 results>>

Learn(cache, e, found) == [cache EXCEPT ![e] = IF @ = None THEN found ELSE @]

\* setdefault: the first answer stays in the cache, the worker goes on with its own.
Remember(w) ==
  /\ pc[w] = "remember"
  /\ LET e == NextEnd(w) IN
       /\ ends' = [ends EXCEPT ![w] = Append(@, Answers(w, e))]
       /\ local' = IF Local(w) THEN Learn(local, e, Answers(w, e)) ELSE local
       /\ session' = IF Local(w) THEN session ELSE Learn(session, e, Answers(w, e))
  /\ pc' = [pc EXCEPT ![w] = "resolve"]
  /\ UNCHANGED <<input, taken, job, clamped, subs, tally, verdict, walks, dedup, leaves,
                 unique, results>>

\* Mutant of Key: whether the ports were found is left out.
KeyBare(p, f) == <<Coarse[p[1]], TRUE, Coarse[p[2]], TRUE>>
Key(p, f) == <<Coarse[p[1]], f[1], Coarse[p[2]], f[2]>>

KeyOf(w) == Key(Pair(w), ends[w])

\* dedup_stats[0] += 1 is outside the lock: a read, and a write of what was read.
Count(w) ==
  /\ pc[w] = "resolve" /\ Len(ends[w]) = 2
  /\ tally' = [tally EXCEPT ![w] = leaves]
  /\ pc' = [pc EXCEPT ![w] = "count"]
  /\ UNCHANGED <<input, taken, job, clamped, subs, ends, verdict, caches, results>>

Counted(w) ==
  /\ pc[w] = "count"
  /\ leaves' = tally[w] + 1
  /\ tally' = [tally EXCEPT ![w] = 0]
  /\ pc' = [pc EXCEPT ![w] = "lookup"]
  /\ UNCHANGED <<input, taken, job, clamped, subs, ends, verdict, session, local, walks,
                 dedup, unique, results>>

\* The pair is answered; then the next pair of the check.
Conclude(w, answer) ==
  /\ subs' = [subs EXCEPT ![w] = Append(@, answer)]
  /\ ends' = [ends EXCEPT ![w] = <<>>]
  /\ verdict' = [verdict EXCEPT ![w] = None]
  /\ pc' = [pc EXCEPT ![w] =
              IF Len(subs[w]) + 1 = Len(request.checks[job[w]]) THEN "sum" ELSE "resolve"]

DedupHit(w) ==
  /\ pc[w] = "lookup"
  /\ dedup[KeyOf(w)] # None
  /\ Conclude(w, dedup[KeyOf(w)])
  /\ UNCHANGED <<input, taken, job, clamped, tally, caches, results>>

DedupMiss(w) ==
  /\ pc[w] = "lookup"
  /\ dedup[KeyOf(w)] = None
  /\ pc' = [pc EXCEPT ![w] = "connect"]
  /\ UNCHANGED <<input, taken, job, clamped, subs, ends, tally, verdict, caches, results>>

-----------------------------------------------------------------------------
(* connect_pair_text: the endpoints once more, now always from the cache,    *)
(* the cache of walks, the walk.                                             *)

\* Mutant of Resolved: the second endpoint's port is not asked for.
ResolvedFirst(w) == Cached(w, Pair(w)[1]) = TRUE
Resolved(w) == \A i \in 1 .. 2 : Cached(w, Pair(w)[i]) = TRUE

Reps(p) == <<design.rep[p[1]], design.rep[p[2]]>>
\* An endpoint found in the whole design only has no row in the clamp: its net
\* names itself, in a key no other pair need have.
Unkeyed(w) == clamped[w] /\ \E i \in 1 .. 2 : Pair(w)[i] \notin design.shown

Judge(w, answer) ==
  /\ verdict' = [verdict EXCEPT ![w] = answer]
  /\ pc' = [pc EXCEPT ![w] = "store"]
  /\ UNCHANGED <<input, taken, job, clamped, subs, ends, tally, session, local, dedup,
                 leaves, unique, results>>

PortMiss(w) ==
  /\ pc[w] = "connect" /\ ~ Resolved(w)
  /\ Judge(w, FALSE)
  /\ UNCHANGED walks

WalkHit(w) ==
  /\ pc[w] = "connect" /\ Resolved(w) /\ ~ request.trace
  /\ walked[Reps(Pair(w))] # None
  /\ Judge(w, walked[Reps(Pair(w))])
  /\ UNCHANGED walks

\* The walk sets out.  Over the clamp it caches the parents it sees there.
WalkMiss(w) ==
  /\ pc[w] = "connect" /\ Resolved(w)
  /\ request.trace \/ walked[Reps(Pair(w))] = None \/ Unkeyed(w)
  /\ blurred' = (blurred \/ (clamped[w] /\ design.hides))
  /\ pc' = [pc EXCEPT ![w] = "walk"]
  /\ UNCHANGED <<input, taken, job, clamped, subs, ends, tally, verdict, session, local,
                 walked, dedup, leaves, unique, results>>

\* A walk that reaches the goal has a path; one that lacks rows may miss it.
Walks(w) ==
  LET true == Pair(w) \in design.joined
      whole == ~ design.hides \/ (~ clamped[w] /\ ~ blurred)
  IN  IF whole /\ ~ Unkeyed(w) THEN {true} ELSE {FALSE, true}

\* The walk is over: its verdict is kept for its nets, unless there is one.
Walk(w) ==
  /\ pc[w] = "walk"
  /\ \E answer \in Walks(w) :
       /\ Judge(w, answer)
       /\ \/ /\ request.trace \/ Unkeyed(w)
             /\ UNCHANGED walked
          \/ /\ ~ request.trace
             /\ walked' = Learn(walked, Reps(Pair(w)), answer)
  /\ UNCHANGED blurred

\* Mutant of Stored: a verdict another worker stored meanwhile is overwritten.
StoredBlind(w) == None
\* What another worker stored meanwhile.
Stored(w) == dedup[KeyOf(w)]

Connect(w) ==
  /\ pc[w] = "store"
  /\ IF Stored(w) # None
       THEN /\ Conclude(w, Stored(w))
            /\ UNCHANGED <<dedup, unique>>
       ELSE /\ Conclude(w, verdict[w])
            /\ dedup' = [dedup EXCEPT ![KeyOf(w)] = verdict[w]]
            /\ unique' = unique + 1
  /\ UNCHANGED <<input, taken, job, clamped, tally, session, local, walks, leaves, results>>

-----------------------------------------------------------------------------
(* One check.                                                                *)

AllConnected(w) == \A i \in DOMAIN subs[w] : subs[w][i]

Release(w) ==
  /\ pc' = [pc EXCEPT ![w] = "idle"]
  /\ job' = [job EXCEPT ![w] = 0]

Answer(w) ==
  /\ pc[w] = "sum"
  /\ clamped[w] => AllConnected(w)
  /\ results' = [results EXCEPT ![job[w]] = subs[w]]
  /\ Release(w)
  /\ clamped' = [clamped EXCEPT ![w] = FALSE]
  /\ subs' = [subs EXCEPT ![w] = <<>>]
  /\ UNCHANGED <<input, taken, ends, tally, verdict, caches>>

\* A fast-path miss: the check is tried again without the clamp.
FastMiss(w) ==
  /\ pc[w] = "sum"
  /\ clamped[w] /\ ~ AllConnected(w)
  /\ pc' = [pc EXCEPT ![w] = "resolve"]
  /\ clamped' = [clamped EXCEPT ![w] = FALSE]
  /\ subs' = [subs EXCEPT ![w] = <<>>]
  /\ local' = NoEnds
  /\ UNCHANGED <<input, taken, job, ends, tally, verdict, session, walks, dedup, leaves,
                 unique, results>>

Done ==
  /\ taken = Len(request.checks) /\ \A w \in Workers : job[w] = 0
  /\ UNCHANGED vars

Next ==
  \/ \E w \in Workers : \/ Take(w) \/ Reject(w) \/ ResolveHit(w) \/ ResolveMiss(w)
                        \/ Remember(w) \/ Count(w) \/ Counted(w) \/ DedupHit(w)
                        \/ DedupMiss(w) \/ PortMiss(w) \/ WalkHit(w) \/ WalkMiss(w)
                        \/ Walk(w) \/ Connect(w) \/ Answer(w) \/ FastMiss(w)
  \/ Done

Spec == Init /\ [][Next]_vars

-----------------------------------------------------------------------------
TypeOK ==
  /\ design \in Design
  /\ request \in Requests
  /\ taken \in 0 .. Len(request.checks)
  /\ job \in [Workers -> 0 .. Len(request.checks)]
  /\ pc \in [Workers -> {"idle", "resolve", "remember", "count", "lookup", "connect",
                     "walk", "store", "sum"}]
  /\ \A w \in Workers : pc[w] = "idle" <=> job[w] = 0
  /\ clamped \in [Workers -> BOOLEAN]
  /\ subs \in [Workers -> Seq(BOOLEAN)]
  /\ ends \in [Workers -> Seq(BOOLEAN)]
  /\ tally \in [Workers -> Nat]
  /\ verdict \in [Workers -> Flag]
  /\ session \in [Ends -> Flag]
  /\ local \in [Ends -> Flag]
  /\ walked \in [Ends \X Ends -> Flag]
  /\ blurred \in BOOLEAN
  /\ dedup \in [Keys -> Flag]
  /\ leaves \in Nat
  /\ unique \in Nat
  /\ results \in [Checks -> Seq(BOOLEAN)]

Truth(p) == p \in design.joined
Found(p) == p[1] \in design.found /\ p[2] \in design.found
Answered(c) == results[c] # <<>> /\ request.gates[c] # "reject"
Gated(c) == request.gates[c] = "pass"
Asked == {p \in Ends \X Ends : \E c \in Checks :
            request.gates[c] # "reject" /\ \E i \in DOMAIN request.checks[c] :
                                             request.checks[c][i] = p}

\* One verdict of dedup_cache serves both; one walk serves both.
OneVerdict(p, q) == Coarse[p[1]] = Coarse[q[1]] /\ Coarse[p[2]] = Coarse[q[2]]
OneWalk(p, q) == p = q \/ (~ request.trace /\ Reps(p) = Reps(q))
\* The pairs of the batch whose walk may have been taken for that of p.
Kin(p) == {q \in Asked : Found(q) /\ \E r \in Asked :
             Found(r) /\ OneVerdict(p, r) /\ OneWalk(r, q)}
\* Every pair of the check has the verdict of such a walk, or an end is missing.
OfKin(c) ==
  \A i \in DOMAIN results[c] :
    LET p == request.checks[c][i]
    IN  IF Found(p) THEN \E q \in Kin(p) : results[c][i] = Truth(q) ELSE ~ results[c][i]

(* Without a check on the fast path, an answer is what the pair alone, or    *)
(* one the two keys do not tell from it, would get: a missing port of one    *)
(* slice is not taken for that of another, and no order of the workers mixes *)
(* in the answer of any other pair.                                          *)
UngatedOfKin ==
  (\A c \in Checks : ~ Gated(c)) => \A c \in Checks : Answered(c) => OfKin(c)

(* Neither the caches nor the clamp make up a connection, so that a          *)
(* connected verdict reached on the fast path may stand: the ports are there *)
(* and a pair the keys do not tell apart is connected, in a batch answered   *)
(* check by check, as the pipeline answers every batch.                      *)
NoFalseConnect ==
  Serial => \A c \in Checks : \A i \in DOMAIN results[c] :
              LET p == request.checks[c][i]
              IN  results[c][i] => Found(p) /\ \E q \in Kin(p) : Truth(q)

(* In the pipeline a clamp that hides ports but no row of a walk is          *)
(* harmless: the full walk resolves the endpoints again in a session of its  *)
(* own, and a verdict reached without a port is not taken for one reached    *)
(* with it.                                                                  *)
PortsRecovered ==
  request.pipeline /\ ~ design.hides => \A c \in Checks : Answered(c) => OfKin(c)

(* unique counts each deduped verdict once, however many workers missed it   *)
(* at a time; leaves - unique is what the batch saved, where no count of     *)
(* leaves can be lost to another worker.                                     *)
UniqueCounts ==
  /\ unique = Cardinality({k \in Keys : dedup[k] # None})
  /\ Serial => unique <= leaves

(* A verdict, once shared, is the one every later check gets.                *)
VerdictsStay ==
  [][\A k \in Keys : dedup[k] # None => dedup'[k] = dedup[k]]_vars

(* "Fast-path miss: retry without hgrep RTL scope clamp." (session.py:1074): *)
(* a check the clamp could not connect gets the answer of the whole design.  *)
MissIsRetried == \A c \in Checks : Answered(c) => OfKin(c)

(* Not kept, see README: an answer is the pair's own.  text_dedup_key drops  *)
(* slices and indices, over which verdicts may differ, and the cache of      *)
(* walks merges the bits of a declared bus.                                  *)
AnsweredAlone ==
  (\A c \in Checks : ~ Gated(c)) =>
    \A c \in Checks : Answered(c) =>
      \A i \in DOMAIN results[c] :
        LET p == request.checks[c][i] IN results[c][i] <=> Found(p) /\ Truth(p)
=============================================================================

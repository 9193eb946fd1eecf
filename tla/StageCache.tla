---------------------------- MODULE StageCache -----------------------------
(***************************************************************************)
(* Once-and-cache stage acquisition (decode/stages.go): denseStage,        *)
(* getDirectBlock, sharedStage and expertStage, which run the same         *)
(* protocol on maps of their own.  A critical section under Plane.mu is    *)
(* one step; the build itself and the statistics run outside it.           *)
(*                                                                         *)
(* The channel a builder makes is named by its key and the number of       *)
(* channels made for that key so far.                                      *)
(***************************************************************************)
EXTENDS Callers, FiniteSets

CONSTANTS
  Key,        \* layers, spans and experts
  Expert      \* the keys of expertStage; its builder does its own accounting

ASSUME CacheAssumption ==
  /\ Expert \subseteq Key
  /\ None \notin Key
  /\ None \notin {"stage", "weights", "compile"}

VARIABLES
  stages,     \* keys with a built stage
  errs,       \* the error building a key came to
  pending,    \* the channel of the build in progress, 0 for none
  made,       \* channels made, per key
  closed,     \* channels that are closed
  builds,     \* Stats.StageBuilds
  failures,   \* Stats.StageBuildFailures
  want,       \* the key each caller asks for
  chan,       \* the channel it made, or waits on
  built,      \* what its own build came to
  got         \* the answer to its last request

vars == <<stages, errs, pending, made, closed, builds, failures, pc, want, chan, built, got, calls>>
Maps == <<stages, errs, pending, made, closed>>
Stats == <<builds, failures>>

\* weights: the model has no weights for it; compile: the runtime refuses to build it.
Err == {"weights", "compile"}
Outcome == {"stage"} \cup Err

Building == {"building", "recording", "publishing"}
PC == Building \cup {"idle", "lookup", "waiting", "returning"}

TypeOK ==
  /\ stages \subseteq Key
  /\ errs \in [Key -> Err \cup {None}]
  /\ pending \in [Key -> Nat]
  /\ made \in [Key -> Nat]
  /\ closed \subseteq (Key \X Nat)
  /\ builds \in Nat
  /\ failures \in Nat
  /\ pc \in [Caller -> PC]
  /\ want \in [Caller -> Key \cup {None}]
  /\ chan \in [Caller -> Nat]
  /\ built \in [Caller -> Outcome \cup {None}]
  /\ got \in [Caller -> Outcome \cup {None}]
  /\ calls \in [Caller -> Nat]

Init ==
  /\ stages = {}
  /\ errs = [k \in Key |-> None]
  /\ pending = [k \in Key |-> 0]
  /\ made = [k \in Key |-> 0]
  /\ closed = {}
  /\ builds = 0
  /\ failures = 0
  /\ pc = [c \in Caller |-> "idle"]
  /\ want = [c \in Caller |-> None]
  /\ chan = [c \in Caller |-> 0]
  /\ built = [c \in Caller |-> None]
  /\ got = [c \in Caller |-> None]
  /\ calls = [c \in Caller |-> 0]

Goto(c, from, to) == pc[c] = from /\ pc' = [pc EXCEPT ![c] = to]
Reply(c, o) ==
  /\ got' = [got EXCEPT ![c] = o]
  /\ want' = [want EXCEPT ![c] = None]
Undecided(k) == k \notin stages /\ errs[k] = None

Ask(c) ==
  /\ Goto(c, "idle", "lookup")
  /\ calls[c] < CallLimit[c]
  /\ calls' = [calls EXCEPT ![c] = @ + 1]
  /\ \E k \in Key : want' = [want EXCEPT ![c] = k]
  /\ got' = [got EXCEPT ![c] = None]
  /\ UNCHANGED <<Maps, Stats, chan, built>>

\* "if s := p.denseStages[layerIdx]; s != nil"
Hit(c) ==
  /\ Goto(c, "lookup", "idle")
  /\ want[c] \in stages
  /\ Reply(c, "stage")
  /\ UNCHANGED <<Maps, Stats, chan, built, calls>>

\* "if err := p.denseErrs[layerIdx]; err != nil"
CachedErr(c) ==
  /\ Goto(c, "lookup", "idle")
  /\ want[c] \notin stages
  /\ errs[want[c]] # None
  /\ Reply(c, errs[want[c]])
  /\ UNCHANGED <<Maps, Stats, chan, built, calls>>

\* "if pending := p.densePending[layerIdx]; pending != nil": somebody is building it.
WaitPending(c) ==
  /\ Goto(c, "lookup", "waiting")
  /\ Undecided(want[c])
  /\ pending[want[c]] # 0
  /\ chan' = [chan EXCEPT ![c] = pending[want[c]]]
  /\ UNCHANGED <<Maps, Stats, want, built, got, calls>>

\* "<-pending; continue": the loop looks the key up again.
Woken(c) ==
  /\ Goto(c, "waiting", "lookup")
  /\ <<want[c], chan[c]>> \in closed
  /\ UNCHANGED <<Maps, Stats, want, chan, built, got, calls>>

\* Mutant of StartBuild: a build in progress is not looked for.
StartBuildAnyway(c) ==
  /\ Goto(c, "lookup", "building")
  /\ LET k == want[c] IN
       /\ Undecided(k)
       /\ made' = [made EXCEPT ![k] = @ + 1]
       /\ pending' = [pending EXCEPT ![k] = made[k] + 1]
       /\ chan' = [chan EXCEPT ![c] = made[k] + 1]
  /\ UNCHANGED <<stages, errs, closed, Stats, want, built, got, calls>>

\* "pending := make(chan struct{})": the caller builds the stage itself.
StartBuild(c) ==
  /\ Goto(c, "lookup", "building")
  /\ LET k == want[c] IN
       /\ Undecided(k)
       /\ pending[k] = 0
       /\ made' = [made EXCEPT ![k] = @ + 1]
       /\ pending' = [pending EXCEPT ![k] = made[k] + 1]
       /\ chan' = [chan EXCEPT ![c] = made[k] + 1]
  /\ UNCHANGED <<stages, errs, closed, Stats, want, built, got, calls>>

\* buildDenseStage, buildDirectBlock, buildSharedExpertStage, buildExpertStage
Build(c) ==
  /\ Goto(c, "building", "recording")
  /\ \E o \in Outcome : built' = [built EXCEPT ![c] = o]
  /\ UNCHANGED <<Maps, Stats, want, chan, got, calls>>

\* Building an expert is not counted when its weights are missing.
Counted(k, o) == k \notin Expert \/ o # "weights"

\* recordStageBuild, recordDirectBlockBuild
Record(c) ==
  /\ Goto(c, "recording", "publishing")
  /\ builds' = IF Counted(want[c], built[c]) THEN builds + 1 ELSE builds
  /\ failures' = IF Counted(want[c], built[c]) /\ built[c] # "stage" THEN failures + 1 ELSE failures
  /\ UNCHANGED <<Maps, want, chan, built, got, calls>>

\* Mutant of Publish: close(pending) is missing.
PublishUnclosed(c) ==
  /\ Goto(c, "publishing", "returning")
  /\ LET k == want[c] IN
       /\ pending' = [pending EXCEPT ![k] = 0]
       /\ IF built[c] = "stage"
          THEN stages' = stages \cup {k} /\ UNCHANGED errs
          ELSE errs' = [errs EXCEPT ![k] = built[c]] /\ UNCHANGED stages
  /\ UNCHANGED <<made, closed, Stats, want, chan, built, got, calls>>

Publish(c) ==
  /\ Goto(c, "publishing", "returning")
  /\ LET k == want[c] IN
       /\ pending' = [pending EXCEPT ![k] = 0]
       /\ IF built[c] = "stage"
          THEN stages' = stages \cup {k} /\ UNCHANGED errs
          ELSE errs' = [errs EXCEPT ![k] = built[c]] /\ UNCHANGED stages
       /\ closed' = closed \cup {<<k, chan[c]>>}
  /\ UNCHANGED <<made, Stats, want, chan, built, got, calls>>

\* Mutant of Return: the stage is returned without its error.
ReturnStage(c) ==
  /\ Goto(c, "returning", "idle")
  /\ Reply(c, "stage")
  /\ UNCHANGED <<Maps, Stats, chan, built, calls>>

\* "return s, err": what it built, not what the maps hold by now.
Return(c) ==
  /\ Goto(c, "returning", "idle")
  /\ Reply(c, built[c])
  /\ UNCHANGED <<Maps, Stats, chan, built, calls>>

Advance(c) ==
  \/ Hit(c) \/ CachedErr(c) \/ WaitPending(c) \/ Woken(c)
  \/ StartBuild(c) \/ Build(c) \/ Record(c) \/ Publish(c) \/ Return(c)

\* Every caller has made its requests (the bound).
Finished ==
  /\ \A c \in Caller : pc[c] = "idle" /\ calls[c] = CallLimit[c]
  /\ UNCHANGED vars

Next == (\E c \in Caller : Ask(c) \/ Advance(c)) \/ Finished

\* Goroutines run and a build ends, well or not.
Spec == Init /\ [][Next]_vars /\ \A c \in Caller : WF_vars(Advance(c))

-----------------------------------------------------------------------------
\* However requests interleave, a key is built at most once: an ANE compilation costs
\* seconds and the compile budget of the process is limited.
BuiltAtMostOnce == \A k \in Key : made[k] <= 1

\* A caller blocked on a channel is blocked on the build that is in progress; when there
\* is none, its channel is closed.
NoLostWakeup ==
  \A c \in Caller :
    pc[c] = "waiting" =>
      \/ <<want[c], chan[c]>> \in closed
      \/ \E d \in Caller : pc[d] \in Building /\ want[d] = want[c] /\ chan[d] = chan[c]

\* What the maps have decided.
Decided == [k \in Key |-> IF k \in stages THEN "stage" ELSE errs[k]]

Once == INSTANCE OnceMap WITH outcome <- Decided

\* The accessors are a map that decides every key once and answers everybody.
ImplementsOnceMap == Once!Spec
=============================================================================

------------------------------ MODULE Drafter -------------------------------
(***************************************************************************)
(* The ANE drafter of the speculative decode loop                          *)
(* (anedraftimpl/ane_draft_darwin.go aneDraftDrafter).  It keeps the text  *)
(* three times over: in its own history, in the decode state of the ANE    *)
(* draft model, and in the cache of a reference runner that steps the      *)
(* original model on the GPU.  Draft extends them, Rewind takes back what  *)
(* the target has rejected, and a guard may hand the drafting over to the  *)
(* reference for good.                                                     *)
(*                                                                         *)
(* The decode loop itself is another repository's; it prefills the prompt, *)
(* and then drafts from the last token of the text, has the drafts         *)
(* verified and rewinds the rejected ones.  It gives a generation up when  *)
(* Prefill or Draft returns an error.                                      *)
(***************************************************************************)
EXTENDS DraftModel

CONSTANTS
  Drafters,        \* the drafters NewANEDrafter may build, see Config
  FaultSets,       \* the sets of calls that may fail in a behaviour
  MinDrafted,      \* minDrafted of the guard
  MinCorrections,  \* minCorrections of the guard
  MaxText,         \* bound: tokens of a text
  MaxDraft,        \* bound: drafts asked for at a time
  MaxGenerations   \* bound: calls of Prefill and Reset

\* model: there is an ANE model; direct: it was compiled from ModelIR and snapshots are
\* taken; runner: there is a reference runner; useRef: its logits are preferred; taps:
\* they are recorded; guard: autoRefGuard; prefer: the drafter starts in reference-only
\* mode.
Config == [kind : Kind, kv : BOOLEAN, model : BOOLEAN, direct : BOOLEAN, runner : BOOLEAN,
           useRef : BOOLEAN, taps : BOOLEAN, guard : BOOLEAN, prefer : BOOLEAN]

Fault == {"eval", "reference", "capture", "restore", "rewind", "reset"}

ASSUME DrafterAssumption ==
  /\ Drafters \subseteq {c \in Config :
       /\ c.direct => c.kind = "stateful"
       /\ c.kind = "attention" => c.kv
       /\ c.guard \/ c.prefer => c.runner
       /\ ~c.model => c.prefer}
  /\ FaultSets \subseteq SUBSET Fault
  /\ MinDrafted \in Nat /\ MinCorrections \in Nat
  /\ MaxText \in Nat /\ MaxDraft \in Nat /\ MaxGenerations \in Nat

VARIABLES
  faulty,  \* the calls that may fail
  conf,    \* the drafter's configuration
  m,       \* its draft model
  d,       \* history, lastLogits and the counters of aneDraftDrafter
  snaps,   \* modelSnapshots
  ref,     \* the tokens in the cache of the reference runner
  text,    \* the text of the generation
  out,     \* the drafts of the round
  want,    \* how many the round drafts, or how many it rewinds
  todo,    \* tokens yet to be replayed
  pc, back,\* where the drafter is, and where it goes on after a replay
  rounds,  \* auxiliary: rounds of the generation
  started  \* generations so far

vars == <<faulty, conf, m, d, snaps, ref, text, out, want, todo, pc, back, rounds, started>>
fixed == <<faulty, conf>>
loop == <<text, rounds, started>>

NewDrafter(c) ==
  [history |-> << >>, ready |-> FALSE, refOnly |-> c.prefer, drafted |-> 0, rewound |-> 0,
   corrections |-> 0]

TypeOK ==
  /\ faulty \in FaultSets /\ conf \in Drafters
  /\ m \in Model
  /\ d \in [history : Seq(Token), ready : BOOLEAN, refOnly : BOOLEAN, drafted : Nat,
            rewound : Nat, corrections : Nat]
  /\ snaps \in Seq(Snapshot)
  /\ {ref, text, out, todo} \subseteq Seq(Token)
  /\ want \in Nat
  /\ pc \in {"off", "idle", "replay", "sync", "draft", "ensure", "drafting", "verify",
             "rewind", "restore", "position", "shadow", "rebuild"}
  /\ back \in {"off", "prefill", "ensure", "idle"}
  /\ rounds \in Nat /\ started \in Nat

Init ==
  /\ faulty \in FaultSets
  /\ conf \in Drafters
  /\ m = Opened(conf.kind, conf.kv)
  /\ d = NewDrafter(conf)
  /\ snaps = << >> /\ ref = << >> /\ text = << >> /\ out = << >> /\ todo = << >>
  /\ want = 0
  /\ pc = "off" /\ back = "off"
  /\ rounds = 0 /\ started = 0

-----------------------------------------------------------------------------
May(fault) == fault \in faulty
LastToken == text[Len(text)]
ShorterBy(s, n) == SubSeq(s, 1, Larger(Len(s) - n, 0))

\* needsReferenceStep and needsReferenceShadow, which are the same condition.
NeedsReference == conf.runner /\ (d.refOnly \/ conf.useRef \/ conf.taps)

\* A step of the reference beside the ANE model; its failure is only logged.
Shadowed(t) ==
  IF ~NeedsReference THEN {ref}
  ELSE {Append(ref, t)} \cup (IF May("reference") THEN {ref} ELSE {})

\* feedToken in a drafter e: one token through the reference, or through the model.
FeedOk(e, t) ==
  /\ \/ /\ e.refOnly
        /\ ref' = Append(ref, t)
        /\ UNCHANGED m
     \/ /\ ~e.refOnly
        /\ EvalOk(m) /\ AdvanceOk(m)
        /\ m' = AfterAdvance(AfterEval(m, t))
        /\ ref' \in Shadowed(t)
  /\ d' = [e EXCEPT !.history = Append(@, t), !.ready = TRUE]

\* A reference step may fail after the cache has the token.
FeedFails(e, t) ==
  /\ \/ e.refOnly /\ May("reference") /\ ref' \in {ref, Append(ref, t)} /\ UNCHANGED m
     \/ /\ ~e.refOnly
        /\ ~EvalOk(m) \/ May("eval")
        /\ m' \in AfterFailedEval(m, t)
        /\ UNCHANGED ref
     \/ /\ ~e.refOnly
        /\ EvalOk(m) /\ ~AdvanceOk(m)
        /\ m' = AfterEval(m, t)
        /\ ref' \in Shadowed(t)
  /\ d' = e

-----------------------------------------------------------------------------
\* Prefill and Reset start from the fresh fields; d.model.Reset comes first.
Cleared ==
  /\ d' = NewDrafter(conf)
  /\ snaps' = << >>
  /\ ref' = << >>
  /\ started' = started + 1
  /\ out' = << >>
  /\ rounds' = 0

Prefill ==
  /\ pc \in {"off", "idle"}
  /\ started < MaxGenerations
  /\ IF conf.model THEN ResetOk(m) /\ m' = AfterReset(m) ELSE UNCHANGED m
  /\ Cleared
  /\ \E prompt \in {<<t>> : t \in Token} \cup (Token \X Token) :
       text' = prompt /\ todo' = prompt
  /\ pc' = "replay" /\ back' = "prefill"
  /\ UNCHANGED <<fixed, want>>

PrefillFails ==
  /\ pc \in {"off", "idle"}
  /\ started < MaxGenerations
  /\ conf.model /\ May("reset")
  /\ m' \in AfterFailedReset(m)
  /\ started' = started + 1
  /\ pc' = "off"
  /\ UNCHANGED <<fixed, d, snaps, ref, text, out, want, todo, back, rounds>>

\* Reset goes on where the model's reset fails.
Reset ==
  /\ pc \in {"off", "idle"}
  /\ started < MaxGenerations
  /\ \/ conf.model /\ m' = AfterReset(m)
     \/ conf.model /\ May("reset") /\ m' \in AfterFailedReset(m)
     \/ ~conf.model /\ UNCHANGED m
  /\ Cleared
  /\ pc' = "off"
  /\ UNCHANGED <<fixed, text, want, todo, back>>

\* Replay feeds the tokens of the prompt, or the history a rebuild has cut off.
Replay ==
  /\ pc = "replay" /\ todo # << >>
  /\ FeedOk(d, Head(todo))
  /\ todo' = Tail(todo)
  /\ UNCHANGED <<fixed, snaps, loop, out, want, pc, back>>

ReplayFails ==
  /\ pc = "replay" /\ todo # << >>
  /\ FeedFails(d, Head(todo))
  /\ todo' = << >>
  /\ pc' = IF back = "prefill" THEN "off" ELSE "idle"
  /\ UNCHANGED <<fixed, snaps, loop, out, want, back>>

\* After the prompt the target model adds the first token of its own.
ReplayEnds ==
  /\ pc = "replay" /\ todo = << >>
  /\ IF back = "prefill" THEN \E t \in Token : text' = Append(text, t) ELSE UNCHANGED text
  /\ pc' = "idle"
  /\ UNCHANGED <<fixed, m, d, snaps, ref, out, want, todo, back, rounds, started>>

-----------------------------------------------------------------------------
\* Draft is called for n tokens after the last one of the text.
Draft ==
  /\ pc = "idle"
  /\ Len(text) < MaxText
  /\ want' \in 1..MaxDraft
  /\ out' = << >>
  /\ rounds' = rounds + 1
  /\ pc' = "draft"
  /\ UNCHANGED <<fixed, m, d, snaps, ref, text, todo, back, started>>

\* maybeEnableReferenceOnly: two state corrections, or fewer than 5% of the drafts
\* accepted.
GuardTrips ==
  /\ conf.guard /\ ~d.refOnly /\ ~conf.useRef
  /\ \/ d.corrections >= MinCorrections
     \/ d.drafted >= MinDrafted /\ Larger(d.drafted - d.rewound, 0) * 20 < d.drafted

GuardPasses ==
  /\ pc = "draft" /\ ~GuardTrips
  /\ pc' = "ensure"
  /\ UNCHANGED <<fixed, m, d, snaps, ref, loop, out, want, todo, back>>

\* syncReferenceState: the reference gets the history from the start.
StartSync(where) ==
  /\ ref' = << >>
  /\ todo' = d.history
  /\ pc' = "sync" /\ back' = where

GuardSyncs ==
  /\ pc = "draft" /\ GuardTrips
  /\ StartSync("ensure")
  /\ UNCHANGED <<fixed, m, d, snaps, loop, out, want>>

Sync ==
  /\ pc = "sync" /\ todo # << >>
  /\ ref' = Append(ref, Head(todo))
  /\ todo' = Tail(todo)
  /\ UNCHANGED <<fixed, m, d, snaps, loop, out, want, pc, back>>

\* The guard leaves the drafter with the ANE model then.
SyncFails ==
  /\ pc = "sync" /\ todo # << >>
  /\ May("reference")
  /\ ref' \in {ref, Append(ref, Head(todo))}
  /\ todo' = << >>
  /\ pc' = back
  /\ UNCHANGED <<fixed, m, d, snaps, loop, out, want, back>>

\* Mutant of SyncEnds: referenceOnly is not set.
SyncEndsUnswitched ==
  /\ pc = "sync" /\ todo = << >>
  /\ d' = [d EXCEPT !.ready = d.history # << >>]
  /\ pc' = back
  /\ UNCHANGED <<fixed, m, snaps, ref, loop, out, want, todo, back>>

SyncEnds ==
  /\ pc = "sync" /\ todo = << >>
  /\ d' = [d EXCEPT !.ready = d.history # << >>, !.refOnly = @ \/ back = "ensure"]
  /\ pc' = back
  /\ UNCHANGED <<fixed, m, snaps, ref, loop, out, want, todo, back>>

-----------------------------------------------------------------------------
\* Mutant of Known: any last token is taken for the end of the history.
KnownIfReady(t) == d.history # << >> /\ d.ready

\* ensureTokenState: a last token that equals the end of the history is taken for it.
Known(t) == d.history # << >> /\ d.history[Len(d.history)] = t /\ d.ready

Corrected == [d EXCEPT !.corrections = IF d.history # << >> THEN @ + 1 ELSE @]

EnsureKnown ==
  /\ pc = "ensure" /\ Known(LastToken)
  /\ pc' = "drafting"
  /\ UNCHANGED <<fixed, m, d, snaps, ref, loop, out, want, todo, back>>

EnsureFed ==
  /\ pc = "ensure" /\ ~Known(LastToken)
  /\ FeedOk(Corrected, LastToken)
  /\ pc' = "drafting"
  /\ UNCHANGED <<fixed, snaps, loop, out, want, todo, back>>

EnsureFails ==
  /\ pc = "ensure" /\ ~Known(LastToken)
  /\ FeedFails(Corrected, LastToken)
  /\ pc' = "off"
  /\ UNCHANGED <<fixed, snaps, loop, out, want, todo, back>>

\* captureDraftSnapshot, before the draft is fed; its failure is only logged.
Captured ==
  IF ~conf.model \/ ~conf.direct THEN {snaps}
  ELSE {Append(snaps, SnapshotOf(m))} \cup (IF May("capture") THEN {snaps} ELSE {})

DraftToken ==
  /\ pc = "drafting" /\ Len(out) < want
  /\ snaps' \in Captured
  /\ \E t \in Token : FeedOk(d, t) /\ out' = Append(out, t)
  /\ UNCHANGED <<fixed, loop, want, todo, pc, back>>

DraftFails ==
  /\ pc = "drafting" /\ Len(out) < want
  /\ snaps' \in Captured
  /\ \E t \in Token : FeedFails(d, t)
  /\ pc' = "off"
  /\ UNCHANGED <<fixed, loop, out, want, todo, back>>

DraftReturns ==
  /\ pc = "drafting" /\ Len(out) = want
  /\ d' = [d EXCEPT !.drafted = @ + Len(out)]
  /\ pc' = "verify"
  /\ UNCHANGED <<fixed, m, snaps, ref, loop, out, want, todo, back>>

\* The target accepts n drafts and adds a token, other than the draft it rejects.
Verify ==
  /\ pc = "verify"
  /\ \E n \in 0..Len(out), t \in Token :
       /\ n < Len(out) => t # out[n + 1]
       /\ text' = text \o Append(SubSeq(out, 1, n), t)
       /\ want' = Len(out) - n
       /\ pc' = IF n = Len(out) THEN "idle" ELSE "rewind"
  /\ UNCHANGED <<fixed, m, d, snaps, ref, out, todo, back, rounds, started>>

-----------------------------------------------------------------------------
\* Rewind of n drafts: the books first.
Rewind ==
  /\ pc = "rewind"
  /\ d' = [d EXCEPT !.rewound = @ + want, !.history = ShorterBy(@, want), !.ready = FALSE]
  /\ want' = Smaller(want, Len(d.history))
  /\ pc' = CASE d.history = << >> -> "idle"
             [] d.history # << >> /\ conf.model -> "restore"
             [] OTHER -> "shadow"
  /\ UNCHANGED <<fixed, m, snaps, ref, loop, out, todo, back>>

\* Mutant of Restore: the newest snapshot is taken.
RestoreNewest ==
  /\ pc = "restore" /\ Len(snaps) >= want
  /\ m' = AfterRestore(m, snaps[Len(snaps)])
  /\ snaps' = ShorterBy(snaps, want)
  /\ pc' = "shadow"
  /\ UNCHANGED <<fixed, d, ref, loop, out, want, todo, back>>

\* restoreDraftSnapshot: the snapshot taken before the first draft to go.
Restore ==
  /\ pc = "restore" /\ Len(snaps) >= want
  /\ m' = AfterRestore(m, snaps[Len(snaps) - want + 1])
  /\ snaps' = ShorterBy(snaps, want)
  /\ pc' = "shadow"
  /\ UNCHANGED <<fixed, d, ref, loop, out, want, todo, back>>

RestoreFails ==
  /\ pc = "restore"
  /\ \/ Len(snaps) < want /\ UNCHANGED m
     \/ /\ Len(snaps) >= want /\ May("restore")
        /\ m' \in AfterFailedRestore(m, snaps[Len(snaps) - want + 1])
  /\ pc' = "position"
  /\ UNCHANGED <<fixed, d, snaps, ref, loop, out, want, todo, back>>

\* d.model.RewindDecodePosition.
RewindPosition ==
  /\ pc = "position" /\ RewindOk(m)
  /\ m' = AfterRewind(m, want)
  /\ pc' = "shadow"
  /\ UNCHANGED <<fixed, d, snaps, ref, loop, out, want, todo, back>>

RewindPositionFails ==
  /\ pc = "position"
  /\ ~RewindOk(m) \/ May("rewind")
  /\ m' \in AfterFailedRewind(m, want)
  /\ pc' = "rebuild"
  /\ UNCHANGED <<fixed, d, snaps, ref, loop, out, want, todo, back>>

\* Mutant of RewindReference: only a watched reference is rewound.
RewindReferenceWatched ==
  /\ pc = "shadow"
  /\ ref' = IF conf.runner /\ (conf.useRef \/ conf.taps) THEN ShorterBy(ref, want) ELSE ref
  /\ pc' = "idle"
  /\ UNCHANGED <<fixed, m, d, snaps, loop, out, want, todo, back>>

\* aneDraftReferenceRunner.Rewind trims the cache, or replays the tokens that stay.
RewindReference ==
  /\ pc = "shadow"
  /\ ref' = IF NeedsReference THEN ShorterBy(ref, want) ELSE ref
  /\ pc' = "idle"
  /\ UNCHANGED <<fixed, m, d, snaps, loop, out, want, todo, back>>

\* The replay fails part of the way.
RewindReferenceFails ==
  /\ pc = "shadow"
  /\ NeedsReference /\ May("reference") /\ Len(ref) > want
  /\ \E i \in 0..(Len(ref) - want) :
       IF conf.model
       THEN /\ ref' = SubSeq(ref, 1, i)
            /\ pc' = "rebuild"
            /\ UNCHANGED <<todo, back>>
       ELSE StartSync("idle")
  /\ UNCHANGED <<fixed, m, d, snaps, loop, out, want>>

\* rebuildState: everything is reset and the history fed again.
Rebuild ==
  /\ pc = "rebuild"
  /\ ResetOk(m) /\ m' = AfterReset(m)
  /\ ref' = IF conf.runner THEN << >> ELSE ref
  /\ todo' = d.history
  /\ d' = [d EXCEPT !.history = << >>, !.ready = FALSE]
  /\ snaps' = << >>
  /\ pc' = "replay" /\ back' = "idle"
  /\ UNCHANGED <<fixed, loop, out, want>>

\* Rewind has no result: a rebuild that cannot reset the model is only logged.
RebuildFails ==
  /\ pc = "rebuild"
  /\ May("reset")
  /\ m' \in AfterFailedReset(m)
  /\ pc' = "idle"
  /\ UNCHANGED <<fixed, d, snaps, ref, loop, out, want, todo, back>>

\* A bound ends the behaviour.
Finished ==
  /\ pc \in {"off", "idle"}
  /\ started = MaxGenerations
  /\ pc = "idle" => Len(text) >= MaxText
  /\ UNCHANGED vars

Next ==
  \/ Prefill \/ PrefillFails \/ Reset \/ Replay \/ ReplayFails \/ ReplayEnds
  \/ Draft \/ GuardPasses \/ GuardSyncs \/ Sync \/ SyncFails \/ SyncEnds
  \/ EnsureKnown \/ EnsureFed \/ EnsureFails \/ DraftToken \/ DraftFails \/ DraftReturns
  \/ Verify \/ Rewind \/ Restore \/ RestoreFails \/ RewindPosition \/ RewindPositionFails
  \/ RewindReference \/ RewindReferenceFails \/ Rebuild \/ RebuildFails \/ Finished

Spec == Init /\ [][Next]_vars

-----------------------------------------------------------------------------
NoneOf(faults) == faulty \cap faults = {}
NoRepeats == \A i \in 1..(Len(text) - 1) : text[i] # text[i + 1]

\* Between two rounds the history is the text without its last token. It takes a text in
\* which no token follows itself: ensureTokenState recognises the last token by its
\* value, and a token the target adds after an equal accepted draft is never fed. It
\* also takes replays that succeed: one that fails leaves the part it has fed.
HistoryIsText ==
  (pc = "idle" /\ NoRepeats /\ NoneOf({"eval", "reference"})) => d.history = ShorterBy(text, 1)

\* Between two rounds the decode state of the model in use is that of the history, with
\* every row rotated by its position: through snapshots, position rewinds and rebuilds,
\* whichever of them fail half-way. It takes snapshots that are all captured (one that is
\* missing shifts the others by a token) and a model that evaluates and resets.
ContextIsHistory ==
  (pc = "idle" /\ conf.model /\ ~d.refOnly /\ NoneOf({"eval", "capture", "reset"})) =>
    HasContext(m, d.history) /\ RotatedByPosition(m)

\* Between two rounds the reference has exactly the history wherever it is used or
\* watched, also when the guard has just handed the drafting over to it. It takes a
\* reference that steps, and resets that succeed: Rewind resets an ANE model that is no
\* longer used, and skips the reference if that fails.
ReferenceIsHistory ==
  (pc = "idle" /\ NeedsReference /\ NoneOf({"reference", "reset"})) => ref = d.history

\* The guard does not look at the acceptance rate alone. Feeding the token the target
\* has added counts as a state correction, so a guarded drafter leaves the ANE model
\* after MinCorrections rounds, however many drafts were accepted. It takes replays that
\* succeed: a round that begins without a history counts as none.
GuardTripsSoon ==
  (conf.guard /\ ~conf.useRef /\ pc = "verify" /\ NoRepeats /\ NoneOf({"eval", "reference"})
     /\ rounds > MinCorrections) => d.refOnly
=============================================================================

-------------------------- MODULE RunPipelineProofs --------------------------
(***************************************************************************)
(* Proofs about `ldm run`: for any releases, any claims of packages and    *)
(* any number of commands one after the other.                             *)
(***************************************************************************)
EXTENDS RunPipeline, TLAPS

-----------------------------------------------------------------------------
(* The records a command works on                                          *)

Contexts ==
  [isNew : BOOLEAN, rootExisted : BOOLEAN, initSuccess : BOOLEAN,
   asked : BOOLEAN, forced : BOOLEAN, tag : Versions \cup {0}, meta : Metas]

States == [bundles : Versions \cup {0}, marker : Versions \cup {0}]

Others == [exists : BOOLEAN, same : BOOLEAN]

Labels ==
  {"idle", "start", "located", "resolved", "matched", "claimed", "flagged",
   "reachable", "checked", "laidOut", "seeded", "registered", "verified",
   "wiped", "marked", "noticed", "compared", "restoring", "restored", "stamped",
   "up", "pinned"}

\* TypeOK, by the names of its sets.
Typed ==
  /\ phase \in {"execute", "rollback", "returned", "exited"}
  /\ at \in 1..(StageCount + 1)
  /\ step \in Labels
  /\ noUp \in BOOLEAN
  /\ ctx \in Contexts
  /\ runs \in 1..MaxRuns
  /\ dir \in BOOLEAN /\ (HasMeta => dir)
  /\ meta \in Metas
  /\ registry \in Owners
  /\ stack \in Owners
  /\ data \in Versions \cup {0}
  /\ volume \in Names
  /\ osgi \in States
  /\ told \subseteq Excuses
  /\ other \in Others

\* It is the same formula.
LEMMA TypedIsTypeOK == TypeOK <=> Typed
  BY DEF TypeOK, Typed, Contexts, States, Others, Labels

\* The fields of a project's metadata.
LEMMA MetaFields ==
  ASSUME NEW m \in Metas
  PROVE  /\ m.tag \in Versions \cup {0} /\ m.lastRun \in Versions \cup {0}
         /\ m.container \in Names \cup {"none"}
         /\ m.overridden \in BOOLEAN /\ m.persist \in BOOLEAN
  BY DEF Metas

\* Of a command's context.
LEMMA ContextFields ==
  ASSUME NEW c \in Contexts
  PROVE  /\ c.isNew \in BOOLEAN /\ c.rootExisted \in BOOLEAN
         /\ c.initSuccess \in BOOLEAN /\ c.asked \in BOOLEAN /\ c.forced \in BOOLEAN
         /\ c.tag \in Versions \cup {0} /\ c.meta \in Metas
  BY DEF Contexts

\* Of the OSGi state.
LEMMA StateFields ==
  ASSUME NEW s \in States
  PROVE  s.bundles \in Versions \cup {0} /\ s.marker \in Versions \cup {0}
  BY DEF States

\* A project without metadata has neither release nor names.
LEMMA NoMetaFields ==
  /\ NoMeta \in Metas /\ NoMeta.tag = 0 /\ NoMeta.lastRun = 0
  /\ NoMeta.container = "none" /\ NoMeta.claim = NoClaim
  /\ ~NoMeta.overridden
  BY DEF NoMeta, Metas

\* A command that begins knows of none.
LEMMA NewContextFields ==
  /\ NewContext \in Contexts
  /\ ~NewContext.isNew /\ NewContext.rootExisted
  /\ ~NewContext.initSuccess /\ ~NewContext.asked /\ ~NewContext.forced /\ NewContext.tag = 0
  /\ NewContext.meta = NoMeta
  BY NoMetaFields DEF NewContext, Contexts

\* Releases are numbers, so they can be compared.
LEMMA Numbers ==
  ASSUME Typed
  PROVE  /\ data \in Nat /\ ctx.tag \in Nat
         /\ ctx.meta.tag \in Nat /\ ctx.meta.lastRun \in Nat
         /\ meta.tag \in Nat /\ meta.lastRun \in Nat
  <1>1. \A v \in Versions \cup {0} : v \in Nat
    BY VersionsAssumption DEF VersionsAssumption
  <1>2. ctx \in Contexts /\ meta \in Metas /\ data \in Versions \cup {0}
    BY DEF Typed
  <1>3. ctx.tag \in Versions \cup {0} /\ ctx.meta \in Metas
    BY <1>2, ContextFields
  <1>4. /\ ctx.meta.tag \in Versions \cup {0} /\ ctx.meta.lastRun \in Versions \cup {0}
        /\ meta.tag \in Versions \cup {0} /\ meta.lastRun \in Versions \cup {0}
    BY <1>2, <1>3, MetaFields
  <1> QED
    BY <1>1, <1>2, <1>3, <1>4

(* What the actions make of the context                                    *)

\* Locate: the context says what is there.
LEMMA ContextReadProject ==
  ASSUME meta \in Metas, dir \in BOOLEAN, ctx \in Contexts, ReadProject
  PROVE  /\ ctx' \in Contexts /\ ctx'.isNew = ~HasMeta
         /\ ctx'.rootExisted = dir /\ ctx'.initSuccess = ctx.initSuccess
         /\ ctx'.asked = ctx.asked /\ ctx'.forced = ctx.forced /\ ctx'.tag = ctx.tag
         /\ ctx'.meta = meta
  BY DEF ReadProject, Contexts

\* The downgrade is asked about, and nothing else changes.
LEMMA ContextValidateRuntime ==
  ASSUME ctx \in Contexts, ValidateRuntime
  PROVE  /\ ctx' \in Contexts /\ ctx'.isNew = ctx.isNew
         /\ ctx'.rootExisted = ctx.rootExisted /\ ctx'.initSuccess = ctx.initSuccess
         /\ ctx'.asked = ctx.asked /\ ctx'.forced = DowngradeDetected /\ ctx'.tag = ctx.tag
         /\ ctx'.meta = ctx.meta
  <1>1. DowngradeDetected \in BOOLEAN
    BY DEF DowngradeDetected
  <1> QED
    BY <1>1 DEF ValidateRuntime, Contexts

\* The release is settled on, in the context alone.
LEMMA ContextResolveTag ==
  ASSUME ctx \in Contexts, ResolveTag
  PROVE  /\ ctx' \in Contexts /\ ctx'.isNew = ctx.isNew
         /\ ctx'.rootExisted = ctx.rootExisted /\ ctx'.initSuccess = ctx.initSuccess
         /\ ctx'.meta = ctx.meta /\ ctx'.forced = ctx.forced
         /\ ctx'.tag \in Versions
         /\ \/ ctx'.asked
            \/ /\ ctx'.asked = ctx.asked
               /\ ctx.meta.tag # 0 => ctx'.tag = ctx.meta.tag
  <1>1. CASE \E v \in Versions : ctx' = [ctx EXCEPT !.tag = v, !.asked = TRUE]
    BY <1>1 DEF Contexts
  <1>2. CASE ctx.meta.tag # 0 /\ ctx' = [ctx EXCEPT !.tag = ctx.meta.tag]
    <2>1. ctx.meta.tag \in Versions
      BY <1>2 DEF Contexts, Metas
    <2> QED
      BY <1>2, <2>1 DEF Contexts
  <1>3. ASSUME ctx.meta.tag = 0,
               NEW narrow \in SUBSET Quarterly(Versions),
               NEW wide \in SUBSET Versions, NEW index \in SUBSET Versions,
               NEW inactive \in SUBSET Legacy,
               NEW tag \in Discovered(Found(narrow, wide, index), inactive),
               ctx' = [ctx EXCEPT !.tag = tag]
        PROVE  /\ ctx' \in Contexts /\ ctx'.isNew = ctx.isNew
               /\ ctx'.rootExisted = ctx.rootExisted
               /\ ctx'.initSuccess = ctx.initSuccess
               /\ ctx'.tag \in Versions /\ ctx'.meta = ctx.meta
               /\ ctx'.asked = ctx.asked /\ ctx'.forced = ctx.forced
    <2>1. Found(narrow, wide, index) \subseteq Versions
      BY DEF Found, Quarterly
    <2>2. tag \in Versions
      BY <2>1 DEF Discovered, Quarterly
    <2> QED
      BY <1>3, <2>2 DEF Contexts
  <1> QED
    BY <1>1, <1>2, <1>3 DEF ResolveTag

\* It may be the workspace's.
LEMMA ContextTakeWorkspaceProduct ==
  ASSUME ctx \in Contexts, TakeWorkspaceProduct
  PROVE  /\ ctx' \in Contexts /\ ctx'.isNew = ctx.isNew
         /\ ctx'.rootExisted = ctx.rootExisted /\ ctx'.initSuccess = ctx.initSuccess
         /\ ctx'.asked = TRUE /\ ctx'.forced = ctx.forced /\ ctx'.meta = ctx.meta
         /\ ctx'.tag \in Versions
  BY DEF TakeWorkspaceProduct, Contexts

\* The ceiling of the packages is overridden in the metadata.
LEMMA ContextOverrideCeiling ==
  ASSUME ctx \in Contexts, OverrideCeiling
  PROVE  /\ ctx' \in Contexts /\ ctx'.isNew = ctx.isNew
         /\ ctx'.rootExisted = ctx.rootExisted /\ ctx'.initSuccess = ctx.initSuccess
         /\ ctx'.asked = ctx.asked /\ ctx'.forced = ctx.forced /\ ctx'.tag = ctx.tag
         /\ ctx'.meta.tag = ctx.meta.tag /\ ctx'.meta.container = ctx.meta.container
         /\ ctx'.meta.lastRun = ctx.meta.lastRun /\ ctx'.meta.claim = ctx.meta.claim
         /\ ctx'.meta.persist = ctx.meta.persist /\ ctx'.meta.overridden = TRUE
  BY DEF OverrideCeiling, Contexts, Metas

\* The flags name the containers, if they have no name.
LEMMA ContextApplyFlags ==
  ASSUME ctx \in Contexts, ApplyFlags
  PROVE  /\ ctx' \in Contexts /\ ctx'.isNew = ctx.isNew
         /\ ctx'.rootExisted = ctx.rootExisted /\ ctx'.initSuccess = ctx.initSuccess
         /\ ctx'.asked = ctx.asked /\ ctx'.forced = ctx.forced /\ ctx'.tag = ctx.tag
         /\ ctx'.meta.tag = ctx.meta.tag /\ ctx'.meta.lastRun = ctx.meta.lastRun
         /\ ctx'.meta.claim = ctx.meta.claim /\ ctx'.meta.persist = ctx.meta.persist
         /\ ctx'.meta.overridden = ctx.meta.overridden
         /\ ctx'.meta.container # "none"
         /\ ctx.meta.container # "none" => ctx'.meta.container = ctx.meta.container
  BY DEF ApplyFlags, Names, Contexts, Metas

\* The last step of the configuration, whatever it finds registered.
\* The release goes into the metadata.
LEMMA ContextConfigured ==
  ASSUME ctx \in Contexts, Configured
  PROVE  /\ ctx' \in Contexts /\ ctx'.isNew = ctx.isNew
         /\ ctx'.rootExisted = ctx.rootExisted /\ ctx'.initSuccess = ctx.initSuccess
         /\ ctx'.asked = ctx.asked /\ ctx'.forced = ctx.forced /\ ctx'.tag = ctx.tag
         /\ ctx'.meta.tag = ctx.tag /\ ctx'.meta.container = ctx.meta.container
         /\ ctx'.meta.lastRun = ctx.meta.lastRun /\ ctx'.meta.claim = ctx.meta.claim
         /\ ctx'.meta.overridden = ctx.meta.overridden
  <1>1. PICK persist \in BOOLEAN :
          ctx' = [ctx EXCEPT !.meta.tag = ctx.tag, !.meta.persist = persist]
    BY DEF Configured
  <1> QED
    BY <1>1 DEF Contexts, Metas

\* From here the rollback leaves the project alone.
LEMMA ContextRegister ==
  ASSUME ctx \in Contexts, Register
  PROVE  /\ ctx' \in Contexts /\ ctx'.isNew = ctx.isNew
         /\ ctx'.rootExisted = ctx.rootExisted /\ ctx'.initSuccess = ctx.isNew
         /\ ctx'.asked = ctx.asked /\ ctx'.forced = ctx.forced /\ ctx'.tag = ctx.tag
         /\ ctx'.meta = ctx.meta
  BY DEF Register, Contexts

\* The release is stamped as the one that ran last.
LEMMA ContextStampRun ==
  ASSUME ctx \in Contexts, StampRun
  PROVE  /\ ctx' \in Contexts /\ ctx'.isNew = ctx.isNew
         /\ ctx'.rootExisted = ctx.rootExisted /\ ctx'.initSuccess = ctx.initSuccess
         /\ ctx'.asked = ctx.asked /\ ctx'.forced = ctx.forced /\ ctx'.tag = ctx.tag
         /\ ctx'.meta.tag = ctx.meta.tag /\ ctx'.meta.container = ctx.meta.container
         /\ ctx'.meta.lastRun = ctx.meta.tag /\ ctx'.meta.claim = ctx.meta.claim
         /\ ctx'.meta.persist = ctx.meta.persist /\ ctx'.meta.overridden = ctx.meta.overridden
  BY DEF StampRun, Contexts, Metas

\* What an error leaves of the context.
LEMMA ContextRaise ==
  ASSUME NEW e, ctx \in Contexts, Raise(e)
  PROVE  /\ ctx' \in Contexts /\ ctx'.isNew = ctx.isNew
         /\ ctx'.rootExisted = ctx.rootExisted
         /\ ctx'.initSuccess = ctx.initSuccess
  BY NoMetaFields DEF Raise, NewContext, Contexts

(* What they make of the world                                             *)

\* A directory is made, never removed, before the rollback.
LEMMA WorldLocateProject ==
  ASSUME dir \in BOOLEAN, LocateProject
  PROVE  dir' \in BOOLEAN /\ (dir => dir')
  <1>1. dir' = dir \/ dir' = TRUE
    BY DEF LocateProject
  <1> QED
    BY <1>1

\* The marker names the release.
LEMMA WorldMarkState ==
  ASSUME osgi \in States, ctx \in Contexts, MarkState
  PROVE  osgi' \in States /\ osgi'.marker = ctx.tag /\ osgi'.bundles = osgi.bundles
  BY DEF MarkState, States, Contexts

\* A restored database brings its release with it.
LEMMA WorldRecordRestored ==
  ASSUME meta \in Metas, data \in Versions \cup {0}, RecordRestored
  PROVE  /\ meta' \in Metas /\ meta'.container = meta.container
         /\ meta'.tag \in {meta.tag, data}
  BY DEF RecordRestored, Metas

\* A boot writes its stamp into the metadata.
LEMMA WorldStampRun ==
  ASSUME ctx \in Contexts, StampRun
  PROVE  meta' \in Metas
  BY ContextStampRun, ContextFields DEF StampRun

\* `ldm upgrade` writes a release; the names stay.
LEMMA WorldBumpVersion ==
  ASSUME meta \in Metas, BumpVersion
  PROVE  /\ meta' \in Metas /\ meta'.tag \in Versions
         /\ meta'.container = meta.container /\ meta'.lastRun = meta.lastRun
  BY DEF BumpVersion, Metas

-----------------------------------------------------------------------------
(* The inductive invariant                                                 *)

\* How far a command has come that nothing has stopped yet.
HasRead == E!Executing /\ at >= 2
AsRead == E!Executing /\ at \in 2..4 /\ step \in {"start", "resolved", "matched"}
Resolved == E!Executing /\ (at >= 5 \/ (at = 4 /\ step # "start"))
Ceiled ==
  /\ E!Executing
  /\ at >= 5 \/ (at = 4 /\ step \in {"claimed", "flagged", "reachable", "checked"})
Named ==
  E!Executing /\ (at >= 5 \/ (at = 4 /\ step \in {"flagged", "reachable", "checked"}))
Decided == E!Executing /\ at >= 5
LaidOut == E!Executing /\ (at >= 6 \/ (at = 5 /\ step # "start"))
Registered ==
  /\ E!Executing
  /\ at >= 6 \/ (at = 5 /\ step \in {"registered", "verified", "wiped", "marked"})
Swept == E!Executing /\ at = 5 /\ step = "wiped"
Marked == E!Executing /\ (at >= 6 \/ (at = 5 /\ step = "marked"))
Written == E!Executing /\ at >= 6
Noticed == E!Executing /\ (at >= 7 \/ (at = 6 /\ step \in {"noticed", "compared"}))
Stamped == E!Executing /\ at = 7 /\ step \in {"stamped", "up", "pinned"}

\* Between two commands nothing is left of the last one's context.
BetweenCommands ==
  step = "idle" =>
    /\ phase = "execute" /\ at = 1 /\ ~stopped /\ runs < MaxRuns
    /\ ctx = NewContext

\* What the rollback reads is right in every phase.
RollbackIsGuarded ==
  /\ userFiles => dir /\ ctx.rootExisted
  /\ established => HasMeta /\ registry = "here" /\ ~ctx.isNew
  /\ ctx.isNew /\ ~ctx.initSuccess => data = 0
  /\ Registered /\ ctx.isNew => ctx.initSuccess

\* Metadata is written whole: with a release and a name for the containers.
Whole(m) == m = NoMeta \/ (m.tag # 0 /\ m.container # "none")

MetadataIsWhole ==
  /\ Whole(meta)
  /\ AsRead => ctx.meta = meta
  /\ Named => ctx.meta.container # "none"
  /\ Resolved => ctx.tag # 0
  /\ Decided => ctx.meta.tag = ctx.tag
  /\ LaidOut => dir

\* The containers keep the name the database volume goes by.
NameIsKept ==
  /\ data # 0 => meta.container = volume
  /\ HasRead /\ data # 0 => ctx.meta.container = meta.container
  /\ Written => ctx.meta.container = meta.container

\* An older release was forced, or asked for by name.
LetPass == "forced" \in told \/ "older" \in told

\* What the history says of the release stamped last and of the one that
\* booted last.
Covered(stamp) ==
  data # 0 /\ "restored" \notin told =>
    /\ stamp # 0
    /\ stamp < data => LetPass
    /\ stamp > data => "newer" \in told

StampIsCovered ==
  /\ Covered(meta.lastRun)
  /\ HasRead => "restored" \in told \/ ctx.meta.lastRun = meta.lastRun
  /\ HasRead /\ at = 4 /\ step = "start" => ctx.forced \/ ~DowngradeDetected
  /\ Resolved /\ ~Stamped /\ data # 0 /\ "restored" \notin told /\ ctx.tag < data =>
       ctx.asked \/ ctx.forced \/ LetPass
  /\ Noticed /\ ~Stamped /\ data # 0 /\ "restored" \notin told /\ ctx.tag > data =>
       "newer" \in told
  /\ E!Executing /\ at = 7 /\ step = "restored" => "restored" \in told
  /\ E!Executing /\ at = 7 /\ step = "restoring" => "restored" \in told /\ data # 0
  /\ Stamped => meta = ctx.meta /\ ctx.meta.lastRun = ctx.meta.tag

CeilingIsKept ==
  Ceiled => ~ExceedsCeiling(ctx.meta.claim, ctx.tag) \/ ctx.meta.overridden

\* The OSGi state is what its marker says.
StateIsMarked ==
  "leftovers" \notin told =>
    /\ osgi.bundles \in {0, osgi.marker}
    /\ Swept => osgi.bundles \in {0, ctx.tag}
    /\ Marked /\ ctx.meta.persist => osgi.bundles \in {0, ctx.tag}

MarkIsSet ==
  /\ Swept => ctx.meta.persist
  /\ Marked /\ ctx.meta.persist => osgi.marker = ctx.tag

RInv ==
  /\ Typed
  /\ BetweenCommands
  /\ RollbackIsGuarded
  /\ MetadataIsWhole
  /\ NameIsKept
  /\ StampIsCovered
  /\ CeilingIsKept
  /\ StateIsMarked
  /\ MarkIsSet

-----------------------------------------------------------------------------
(* Every step preserves it                                                 *)

\* Every stage, every failure, every rollback and what happens between two
\* commands keep the invariant.
LEMMA StepRInv == RInv /\ [Next]_vars => RInv'
  <1> SUFFICES ASSUME RInv, [Next]_vars PROVE RInv'
    OBVIOUS
  <1> USE VersionsAssumption, MaxRunsAssumption, MetaFields, ContextFields,
          StateFields, NoMetaFields, NewContextFields
          DEF VersionsAssumption, MaxRunsAssumption, Names, Owners, Excuses, Labels,
              engineVars, world, rest, history, HasMeta, E!Executing, StageCount,
              HasRead, AsRead, Resolved, Ceiled, Named, Decided, LaidOut, Registered,
              Swept, Marked, Written, Noticed, Stamped,
              RInv, Typed, BetweenCommands, RollbackIsGuarded, MetadataIsWhole,
              NameIsKept, StampIsCovered, CeilingIsKept, StateIsMarked,
              MarkIsSet,
              Whole, Covered, LetPass, DowngradeDetected
  <1>1. CASE Initialize
    <2>1. CASE CancelSelection
      BY <2>1 DEF CancelSelection, InStage, Return, E!Advance
    <2>2. CASE LocateProject
      <3>1. dir' \in BOOLEAN /\ (dir => dir')
        BY <2>2, WorldLocateProject
      <3> QED
        BY <2>2, <3>1 DEF LocateProject, InStage, Continue
    <2>3. CASE ReadProject
      <3>1. /\ ctx' \in Contexts /\ ctx'.isNew = ~HasMeta /\ ctx'.rootExisted = dir
            /\ ctx'.initSuccess = ctx.initSuccess /\ ctx'.asked = ctx.asked
            /\ ctx'.tag = ctx.tag /\ ctx'.meta = meta
        BY <2>3, ContextReadProject
      <3>2. Typed'
        BY <2>3, <3>1 DEF ReadProject, InStage, Return, E!Advance
      <3>3. RollbackIsGuarded'
        BY <2>3, <3>1 DEF ReadProject, InStage, Return, E!Advance
      <3> QED
        BY <2>3, <3>1, <3>2, <3>3 DEF ReadProject, InStage, Return, E!Advance
    <2> QED
      BY <1>1, <2>1, <2>2, <2>3 DEF Initialize
  <1>2. CASE ValidateTooling
    BY <1>2 DEF ValidateTooling, InStage, Return, E!Advance
  <1>3. CASE CheckRuntime
    <2>1. CASE ReportAlreadyRunning
      BY <2>1
         DEF ReportAlreadyRunning, InStage, E!ReportNoOp, E!SystemExit, E!NoOpCode
    <2>2. CASE DeclineRestart
      BY <2>2 DEF DeclineRestart, InStage, Return, E!Advance
    <2>3. CASE ValidateRuntime
      <3>1. /\ ctx' \in Contexts /\ ctx'.isNew = ctx.isNew
            /\ ctx'.rootExisted = ctx.rootExisted
            /\ ctx'.initSuccess = ctx.initSuccess
            /\ ctx'.asked = ctx.asked /\ ctx'.forced = DowngradeDetected
            /\ ctx'.tag = ctx.tag /\ ctx'.meta = ctx.meta
        BY <2>3, ContextValidateRuntime
      <3>2. Typed'
        BY <2>3, <3>1 DEF ValidateRuntime, InStage, Return, E!Advance
      <3>3. StampIsCovered'
        BY <2>3, <3>1 DEF ValidateRuntime, InStage, Return, E!Advance
      <3> QED
        BY <2>3, <3>1, <3>2, <3>3
           DEF ValidateRuntime, InStage, Return, E!Advance
    <2> QED
      BY <1>3, <2>1, <2>2, <2>3 DEF CheckRuntime
  <1>4. CASE ResolveRelease
    <2>1. CASE ResolveTag
      <3>1. /\ ctx' \in Contexts /\ ctx'.isNew = ctx.isNew
            /\ ctx'.rootExisted = ctx.rootExisted
            /\ ctx'.initSuccess = ctx.initSuccess
            /\ ctx'.tag \in Versions /\ ctx'.meta = ctx.meta
            /\ ctx'.forced = ctx.forced
            /\ \/ ctx'.asked
               \/ /\ ctx'.asked = ctx.asked
                  /\ ctx.meta.tag # 0 => ctx'.tag = ctx.meta.tag
        BY <2>1, ContextResolveTag
      <3>2. Typed'
        BY <2>1, <3>1 DEF ResolveTag, InStage, Continue
      <3>3. /\ HasRead /\ AsRead /\ at = 4 /\ step = "start" /\ step' = "resolved"
            /\ UNCHANGED <<phase, at, stopped, runs, established, userFiles, told>>
            /\ UNCHANGED <<dir, meta, registry, data, volume, osgi>>
        <4>1. /\ InStage(4, "start") /\ Continue("resolved")
              /\ UNCHANGED world
          BY <2>1 DEF ResolveTag
        <4> QED
          BY <4>1 DEF InStage, Continue
      <3>4. data # 0 => meta.tag # 0
        BY <3>3
      <3>5. data # 0 /\ "restored" \notin told /\ ctx'.tag < data =>
              ctx'.asked \/ ctx'.forced \/ LetPass
        <4> SUFFICES ASSUME data # 0, "restored" \notin told,
                            ctx'.tag < data, ~ctx'.asked, ~ctx'.forced
                     PROVE  LetPass
          OBVIOUS
        <4>1. ~ctx.asked /\ ~ctx.forced /\ ctx'.tag = meta.tag
          BY <3>1, <3>3, <3>4
        <4>2. meta.lastRun # 0 /\ ~(meta.tag < meta.lastRun)
          BY <3>3, <3>4, <4>1
        <4>3. data \in Nat /\ meta.lastRun \in Nat /\ meta.tag \in Nat
          OBVIOUS
        <4>4. meta.lastRun < data
          BY <4>1, <4>2, <4>3
        <4> QED
          BY <3>3, <4>2, <4>4
      <3>6. StampIsCovered'
        BY <3>1, <3>3, <3>5
      <3> QED
        BY <3>1, <3>2, <3>3, <3>6
    <2>2. CASE KeepTag
      BY <2>2 DEF KeepTag, InStage, Continue
    <2>3. CASE TakeWorkspaceProduct
      <3>1. /\ ctx' \in Contexts /\ ctx'.isNew = ctx.isNew
            /\ ctx'.rootExisted = ctx.rootExisted
            /\ ctx'.initSuccess = ctx.initSuccess
            /\ ctx'.asked /\ ctx'.forced = ctx.forced
            /\ ctx'.tag \in Versions /\ ctx'.meta = ctx.meta
        BY <2>3, ContextTakeWorkspaceProduct
      <3>2. Typed'
        BY <2>3, <3>1 DEF TakeWorkspaceProduct, InStage, Continue
      <3> QED
        BY <2>3, <3>1, <3>2 DEF TakeWorkspaceProduct, InStage, Continue
    <2>4. CASE PassCeiling
      BY <2>4 DEF PassCeiling, InStage, Continue
    <2>5. CASE OverrideCeiling
      <3>1. /\ ctx' \in Contexts /\ ctx'.isNew = ctx.isNew
            /\ ctx'.rootExisted = ctx.rootExisted
            /\ ctx'.initSuccess = ctx.initSuccess
            /\ ctx'.asked = ctx.asked /\ ctx'.forced = ctx.forced /\ ctx'.tag = ctx.tag
            /\ ctx'.meta.tag = ctx.meta.tag
            /\ ctx'.meta.container = ctx.meta.container
            /\ ctx'.meta.lastRun = ctx.meta.lastRun
            /\ ctx'.meta.overridden
        BY <2>5, ContextOverrideCeiling
      <3>2. ctx.meta = meta
        BY <2>5 DEF OverrideCeiling, InStage
      <3>3. HasMeta
        <4>1. ~ExceedsCeiling(NoClaim, ctx.tag)
          BY DEF ExceedsCeiling, HasCeiling, NoClaim
        <4> QED
          BY <2>5, <3>2, <4>1 DEF OverrideCeiling
      <3>4. /\ meta' \in Metas /\ meta'.tag = meta.tag
            /\ meta'.container = meta.container /\ meta'.lastRun = meta.lastRun
        BY <2>5, <3>1, <3>2 DEF OverrideCeiling
      <3>5. HasMeta' /\ Whole(meta)'
        BY <3>3, <3>4
      <3>6. Typed'
        BY <2>5, <3>1, <3>3, <3>4 DEF OverrideCeiling, InStage, Continue
      <3> HIDE DEF HasMeta, Whole
      <3>7. RollbackIsGuarded' /\ MetadataIsWhole'
        BY <2>5, <3>1, <3>3, <3>5 DEF OverrideCeiling, InStage, Continue
      <3>8. NameIsKept' /\ StampIsCovered'
        BY <2>5, <3>1, <3>2, <3>4 DEF OverrideCeiling, InStage, Continue
      <3> QED
        BY <2>5, <3>1, <3>6, <3>7, <3>8 DEF OverrideCeiling, InStage, Continue
    <2>6. CASE ApplyFlags
      <3>1. /\ ctx' \in Contexts /\ ctx'.isNew = ctx.isNew
            /\ ctx'.rootExisted = ctx.rootExisted
            /\ ctx'.initSuccess = ctx.initSuccess
            /\ ctx'.asked = ctx.asked /\ ctx'.forced = ctx.forced /\ ctx'.tag = ctx.tag
            /\ ctx'.meta.tag = ctx.meta.tag
            /\ ctx'.meta.lastRun = ctx.meta.lastRun
            /\ ctx'.meta.claim = ctx.meta.claim
            /\ ctx'.meta.overridden = ctx.meta.overridden
            /\ ctx'.meta.container # "none"
            /\ ctx.meta.container # "none" => ctx'.meta.container = ctx.meta.container
        BY <2>6, ContextApplyFlags
      <3>2. Typed'
        BY <2>6, <3>1 DEF ApplyFlags, InStage, Continue
      <3>3. RollbackIsGuarded' /\ MetadataIsWhole' /\ NameIsKept'
        BY <2>6, <3>1 DEF ApplyFlags, InStage, Continue
      <3>4. StampIsCovered'
        BY <2>6, <3>1 DEF ApplyFlags, InStage, Continue
      <3> QED
        BY <2>6, <3>1, <3>2, <3>3, <3>4 DEF ApplyFlags, InStage, Continue
    <2>7. CASE ReachHost
      BY <2>7 DEF ReachHost, InStage, Continue
    <2>8. CASE FindPort
      BY <2>8 DEF FindPort, InStage, Continue
    <2> QED
      BY <1>4, <2>1, <2>2, <2>3, <2>4, <2>5, <2>6, <2>7, <2>8 DEF ResolveRelease
  <1>5. CASE ResolveConfig
    <2>1. CASE FindNoCollision
      <3>1. /\ ctx' \in Contexts /\ ctx'.isNew = ctx.isNew
            /\ ctx'.rootExisted = ctx.rootExisted
            /\ ctx'.initSuccess = ctx.initSuccess
            /\ ctx'.asked = ctx.asked /\ ctx'.forced = ctx.forced /\ ctx'.tag = ctx.tag
            /\ ctx'.meta.tag = ctx.tag
            /\ ctx'.meta.container = ctx.meta.container
            /\ ctx'.meta.lastRun = ctx.meta.lastRun
            /\ ctx'.meta.claim = ctx.meta.claim
            /\ ctx'.meta.overridden = ctx.meta.overridden
        BY <2>1, ContextConfigured DEF FindNoCollision
      <3>2. Typed'
        BY <2>1, <3>1 DEF FindNoCollision, PreFlown, InStage, Return, E!Advance
      <3>3. MetadataIsWhole' /\ NameIsKept' /\ StampIsCovered' /\ CeilingIsKept'
        BY <2>1, <3>1 DEF FindNoCollision, PreFlown, InStage, Return, E!Advance
      <3>4. RollbackIsGuarded'
        BY <2>1, <3>1 DEF FindNoCollision, PreFlown, InStage, Return, E!Advance
      <3> QED
        BY <2>1, <3>2, <3>3, <3>4
           DEF FindNoCollision, PreFlown, InStage, Return, E!Advance
    <2>2. CASE DropStaleEntry
      <3>1. /\ ctx' \in Contexts /\ ctx'.isNew = ctx.isNew
            /\ ctx'.rootExisted = ctx.rootExisted
            /\ ctx'.initSuccess = ctx.initSuccess
            /\ ctx'.asked = ctx.asked /\ ctx'.forced = ctx.forced /\ ctx'.tag = ctx.tag
            /\ ctx'.meta.tag = ctx.tag
            /\ ctx'.meta.container = ctx.meta.container
            /\ ctx'.meta.lastRun = ctx.meta.lastRun
            /\ ctx'.meta.claim = ctx.meta.claim
            /\ ctx'.meta.overridden = ctx.meta.overridden
        BY <2>2, ContextConfigured DEF DropStaleEntry
      <3>2. Typed'
        BY <2>2, <3>1 DEF DropStaleEntry, PreFlown, InStage, Return, E!Advance
      <3>3. MetadataIsWhole' /\ NameIsKept' /\ StampIsCovered' /\ CeilingIsKept'
        BY <2>2, <3>1 DEF DropStaleEntry, PreFlown, InStage, Return, E!Advance
      <3>4. RollbackIsGuarded'
        BY <2>2, <3>1
           DEF DropStaleEntry, NameTaken, PreFlown, InStage, Return, E!Advance
      <3> QED
        BY <2>2, <3>2, <3>3, <3>4
           DEF DropStaleEntry, PreFlown, InStage, Return, E!Advance
    <2>3. CASE OverwriteEntry
      <3>1. /\ ctx' \in Contexts /\ ctx'.isNew = ctx.isNew
            /\ ctx'.rootExisted = ctx.rootExisted
            /\ ctx'.initSuccess = ctx.initSuccess
            /\ ctx'.asked = ctx.asked /\ ctx'.forced = ctx.forced /\ ctx'.tag = ctx.tag
            /\ ctx'.meta.tag = ctx.tag
            /\ ctx'.meta.container = ctx.meta.container
            /\ ctx'.meta.lastRun = ctx.meta.lastRun
            /\ ctx'.meta.claim = ctx.meta.claim
            /\ ctx'.meta.overridden = ctx.meta.overridden
        BY <2>3, ContextConfigured DEF OverwriteEntry
      <3>2. Typed'
        BY <2>3, <3>1 DEF OverwriteEntry, PreFlown, InStage, Return, E!Advance
      <3>3. MetadataIsWhole' /\ NameIsKept' /\ StampIsCovered' /\ CeilingIsKept'
        BY <2>3, <3>1 DEF OverwriteEntry, PreFlown, InStage, Return, E!Advance
      <3>4. RollbackIsGuarded'
        BY <2>3, <3>1
           DEF OverwriteEntry, NameTaken, PreFlown, InStage, Return, E!Advance
      <3> QED
        BY <2>3, <3>2, <3>3, <3>4
           DEF OverwriteEntry, PreFlown, InStage, Return, E!Advance
    <2> QED
      BY <1>5, <2>1, <2>2, <2>3 DEF ResolveConfig
  <1>6. CASE SetUp
    <2>1. CASE LayOut
      BY <2>1 DEF LayOut, InStage, Continue
    <2>2. CASE Seed
      BY <2>2 DEF Seed, InStage, Continue
    <2>3. CASE Register
      BY <2>3, ContextRegister DEF Register, InStage, Continue, Seeded
    <2>4. CASE VerifyEnvironment
      BY <2>4 DEF VerifyEnvironment, InStage, Continue
    <2>5. CASE WipeState
      <3>1. /\ osgi' \in States /\ told' \subseteq Excuses
            /\ told' \ {"leftovers"} = told \ {"leftovers"}
            /\ osgi'.marker = 0
            /\ "leftovers" \notin told' => osgi'.bundles = 0
        BY <2>5 DEF WipeState, States
      <3>2. Typed'
        BY <2>5, <3>1 DEF WipeState, Verified, InStage
      <3>3. LetPass' <=> LetPass
        BY <3>1
      <3>4. "newer" \in told' <=> "newer" \in told
        BY <3>1
      <3>5. "restored" \in told' <=> "restored" \in told
        BY <3>1
      <3>6. StampIsCovered'
        BY <2>5, <3>3, <3>4, <3>5 DEF WipeState, Verified, InStage
      <3> QED
        BY <2>5, <3>1, <3>2, <3>6 DEF WipeState, Verified, InStage
    <2>6. CASE KeepState
      BY <2>6 DEF KeepState, InStage, Continue, Verified
    <2>7. CASE MarkState
      <3>1. osgi' \in States /\ osgi'.marker = ctx.tag /\ osgi'.bundles = osgi.bundles
        BY <2>7, WorldMarkState
      <3>2. Typed'
        BY <2>7, <3>1 DEF MarkState, InStage, Continue
      <3>3. StateIsMarked' /\ MarkIsSet'
        BY <2>7, <3>1 DEF MarkState, InStage, Continue
      <3> QED
        BY <2>7, <3>2, <3>3 DEF MarkState, InStage, Continue
    <2>8. CASE SetUpEnvironment
      BY <2>8 DEF SetUpEnvironment, InStage, Return, E!Advance, Verified
    <2> QED
      BY <1>6, <2>1, <2>2, <2>3, <2>4, <2>5, <2>6, <2>7, <2>8 DEF SetUp
  <1>7. CASE Compose
    <2>1. CASE NoticeUpgrade
      BY <2>1 DEF NoticeUpgrade, InStage
    <2>2. CASE BackUpFirst
      BY <2>2 DEF BackUpFirst, InStage, Continue
    <2>3. CASE DeclineBackup
      BY <2>3 DEF DeclineBackup, InStage, Continue
    <2>4. CASE WriteCompose
      <3>1. Noticed \/ ~Upgrading
        BY <2>4 DEF WriteCompose, Compared, InStage
      <3>2. /\ Written /\ Resolved /\ ~Stamped /\ at = 6 /\ at' = 7 /\ step' = "start"
            /\ meta' = ctx.meta /\ UNCHANGED <<phase, noUp, runs, history>>
            /\ UNCHANGED <<ctx, dir, registry, stack, data, rest>>
        BY <2>4 DEF WriteCompose, Compared, InStage, Return, E!Advance
      <3>3. data # 0 /\ "restored" \notin told /\ ctx.tag > data => "newer" \in told
        <4>1. /\ data \in Nat /\ ctx.tag \in Nat /\ meta.lastRun \in Nat
              /\ ctx.meta.lastRun \in Nat
          BY Numbers
        <4> QED
          BY <3>1, <3>2, <4>1 DEF Upgrading
      <3>4. Covered(meta.lastRun)'
        BY <3>2
      <3>5. StampIsCovered'
        BY <3>2, <3>3, <3>4
      <3> QED
        BY <2>4, <3>5 DEF WriteCompose, Compared, InStage, Return, E!Advance
    <2> QED
      BY <1>7, <2>1, <2>2, <2>3, <2>4 DEF Compose
  <1>8. CASE Execute
    <2>1. CASE RestoreData
      BY <2>1 DEF RestoreData, InStage
    <2>2. CASE RecordRestored
      <3>1. meta.container # "none" /\ data # 0
        BY <2>2 DEF RecordRestored, InStage
      <3>2. /\ meta' \in Metas /\ meta'.container = meta.container
            /\ meta'.tag \in {meta.tag, data}
        BY <2>2, WorldRecordRestored
      <3>3. HasMeta' /\ Whole(meta)'
        BY <3>1, <3>2
      <3>4. Typed'
        BY <2>2, <3>2 DEF RecordRestored, InStage, Continue
      <3> HIDE DEF HasMeta, Whole
      <3>5. RollbackIsGuarded' /\ MetadataIsWhole' /\ NameIsKept'
        BY <2>2, <3>2, <3>3 DEF RecordRestored, InStage, Continue
      <3> QED
        BY <2>2, <3>2, <3>4, <3>5 DEF RecordRestored, InStage, Continue
    <2>3. CASE FinishWithoutUp
      BY <2>3 DEF FinishWithoutUp, InStage, Return, E!Advance, Provided
    <2>4. CASE StampRun
      <3>1. /\ ctx' \in Contexts /\ ctx'.isNew = ctx.isNew
            /\ ctx'.rootExisted = ctx.rootExisted
            /\ ctx'.initSuccess = ctx.initSuccess
            /\ ctx'.asked = ctx.asked /\ ctx'.forced = ctx.forced /\ ctx'.tag = ctx.tag
            /\ ctx'.meta.tag = ctx.meta.tag
            /\ ctx'.meta.container = ctx.meta.container
            /\ ctx'.meta.lastRun = ctx.meta.tag
            /\ ctx'.meta.persist = ctx.meta.persist
            /\ ctx'.meta.claim = ctx.meta.claim
            /\ ctx'.meta.overridden = ctx.meta.overridden
        BY <2>4, ContextStampRun
      <3>2. told' \subseteq Excuses /\ told \subseteq told'
        BY <2>4 DEF StampRun
      <3>3. Typed'
        <4>1. meta' \in Metas
          BY <2>4, WorldStampRun
        <4>2. dir /\ step' = "stamped"
          BY <2>4 DEF StampRun, Provided, InStage
        <4>3. UNCHANGED <<phase, at, noUp, runs, dir, registry, stack, data, rest>>
          BY <2>4 DEF StampRun
        <4> QED
          BY <3>1, <3>2, <4>1, <4>2, <4>3
      <3>4. RollbackIsGuarded' /\ MetadataIsWhole' /\ NameIsKept'
        BY <2>4, <3>1 DEF StampRun, Provided, InStage
      <3>5. StampIsCovered'
        BY <2>4, <3>1 DEF StampRun, Provided, InStage
      <3> QED
        BY <2>4, <3>1, <3>3, <3>4, <3>5 DEF StampRun, Provided, InStage
    <2>5. CASE DependencyExited
      BY <2>5 DEF DependencyExited, InStage, Return, E!Advance
    <2>6. CASE BringUp
      <3>1. /\ osgi' \in States
            /\ osgi'.marker = osgi.marker
            /\ ctx.meta.persist => osgi'.bundles = ctx.meta.tag
            /\ ~ctx.meta.persist => osgi' = osgi
        BY <2>6 DEF BringUp, States
      <3>2. told' \subseteq Excuses /\ ("leftovers" \in told' <=> "leftovers" \in told)
        BY <2>6 DEF BringUp
      <3>3. Typed'
        BY <2>6, <3>1, <3>2 DEF BringUp, InStage
      <3>4. StampIsCovered'
        BY <2>6 DEF BringUp, InStage
      <3>5. StateIsMarked' /\ MarkIsSet'
        BY <2>6, <3>1, <3>2 DEF BringUp, InStage
      <3> QED
        BY <2>6, <3>3, <3>4, <3>5 DEF BringUp, InStage
    <2>7. CASE VerifyPin
      BY <2>7 DEF VerifyPin, InStage, Continue
    <2>8. CASE BecomeReady
      BY <2>8 DEF BecomeReady, InStage, Return, E!Advance
    <2> QED
      BY <1>8, <2>1, <2>2, <2>3, <2>4, <2>5, <2>6, <2>7, <2>8 DEF Execute
  <1>9. CASE FailStage
    <2>1. PICK e \in {E!Error, E!KeyboardInterrupt, Refusal} : Raise(e)
      BY <1>9 DEF FailStage
    <2>2. /\ ctx' \in Contexts /\ ctx'.isNew = ctx.isNew
          /\ ctx'.rootExisted = ctx.rootExisted
          /\ ctx'.initSuccess = ctx.initSuccess
      BY <2>1, ContextRaise
    <2>3. /\ phase' = "rollback" /\ step' = "start"
          /\ UNCHANGED <<at, noUp, runs, world, history>>
      BY <2>1 DEF Raise, E!Fail
    <2> QED
      BY <2>2, <2>3
  <1>10. CASE RollBackInitialization
    BY <1>10 DEF RollBackInitialization, E!UndoStage, E!RollingBack, Unwound
  <1>11. CASE BotchInitializationRollback
    BY <1>11
       DEF BotchInitializationRollback, E!BotchUndo, E!RollingBack, Unwound
  <1>12. CASE RollBackNothing
    BY <1>12 DEF RollBackNothing, E!UndoStage, E!RollingBack
  <1>13. CASE HandOver
    BY <1>13
       DEF HandOver, E!Complete, E!FinishRollback, E!AbandonRollback, E!ExitProcess
  <1>14. CASE Kill
    BY <1>14 DEF Kill
  <1>15. CASE Leave
    <2>1. /\ ctx' = NewContext /\ at' = 1 /\ step' = "idle" /\ ~stopped' /\ noUp' = FALSE
          /\ phase' = "execute" /\ runs < MaxRuns /\ ~established'
          /\ UNCHANGED <<runs, world, userFiles, told>>
      BY <1>15 DEF Leave
    <2>2. Typed'
      <3>1. at' \in 1..8 /\ ctx' \in Contexts
        BY <2>1
      <3>2. /\ UNCHANGED <<runs, dir, meta, registry, stack, data, volume>>
            /\ UNCHANGED <<osgi, other, told>>
        BY <2>1
      <3>3. phase' = "execute" /\ step' = "idle" /\ noUp' = FALSE
        BY <2>1
      <3>4. runs' \in 1..MaxRuns
        BY <3>2
      <3>5. dir' \in BOOLEAN /\ (HasMeta => dir)' /\ meta' \in Metas
        BY <3>2
      <3>6. registry' \in Owners /\ stack' \in Owners /\ volume' \in Names
        BY <3>2
      <3>7. /\ data' \in Versions \cup {0} /\ osgi' \in States
            /\ told' \subseteq Excuses /\ other' \in Others
        BY <3>2
      <3>8. at' \in 1..(StageCount + 1)
        BY <3>1
      <3>9. step' \in Labels
        BY <3>3
      <3> QED
        BY <3>1, <3>3, <3>4, <3>5, <3>6, <3>7, <3>8, <3>9
    <2>3. RollbackIsGuarded' /\ MetadataIsWhole' /\ NameIsKept'
      BY <2>1
    <2>4. StampIsCovered' /\ CeilingIsKept'
      BY <2>1
    <2> QED
      BY <2>1, <2>2, <2>3, <2>4
  <1>16. CASE StackStops
    BY <1>16 DEF StackStops
  <1>17. CASE BumpVersion
    <2>1. /\ meta' \in Metas /\ meta'.tag # 0 /\ meta'.container = meta.container
          /\ meta'.lastRun = meta.lastRun
      BY <1>17, VersionsAssumption, WorldBumpVersion
    <2>2. HasMeta' /\ Whole(meta)'
      BY <1>17, <2>1 DEF BumpVersion
    <2>3. Typed'
      BY <1>17, <2>1 DEF BumpVersion
    <2> HIDE DEF HasMeta, Whole
    <2> QED
      BY <1>17, <2>1, <2>2, <2>3 DEF BumpVersion
  <1>18. CASE NextCommand
    BY <1>18 DEF NextCommand
  <1>19. CASE UNCHANGED vars
    BY <1>19 DEF vars
  <1> QED
    BY <1>1, <1>2, <1>3, <1>4, <1>5, <1>6, <1>7, <1>8, <1>9,
       <1>10, <1>11, <1>12, <1>13, <1>14, <1>15, <1>16, <1>17, <1>18, <1>19
       DEF Next

-----------------------------------------------------------------------------
(* Theorems                                                                *)

\* A project is at first as an earlier command left it, or is not there.
LEMMA InitRInv == Init => RInv
  <1> SUFFICES ASSUME Init PROVE RInv
    OBVIOUS
  <1>1. /\ meta \in Metas /\ Whole(meta) /\ (HasMeta => userFiles)
        /\ osgi \in States /\ osgi.bundles = osgi.marker
        /\ data \in Versions \cup {0}
        /\ data # 0 => meta.container = "own" /\ meta.lastRun = data
    <2>1. CASE meta = NoMeta /\ data = 0 /\ osgi = NoBundles
      BY <2>1, NoMetaFields DEF NoBundles, States, Whole, HasMeta
    <2>2. CASE userFiles /\ \E v \in Versions, c \in Claims :
                 /\ meta = [NoMeta EXCEPT !.tag = v, !.lastRun = v, !.claim = c,
                                          !.container = "own", !.persist = TRUE]
                 /\ data = v
                 /\ osgi = [bundles |-> v, marker |-> v]
      <3>1. PICK v \in Versions, c \in Claims :
                 /\ meta = [NoMeta EXCEPT !.tag = v, !.lastRun = v, !.claim = c,
                                          !.container = "own", !.persist = TRUE]
                 /\ data = v
                 /\ osgi = [bundles |-> v, marker |-> v]
        BY <2>2
      <3>2. meta \in Metas /\ meta.tag = v /\ meta.lastRun = v /\ meta.container = "own"
        BY <3>1 DEF NoMeta, Metas, Names
      <3>3. v # 0
        BY VersionsAssumption DEF VersionsAssumption
      <3>4. osgi \in States /\ osgi.bundles = osgi.marker
        BY <3>1 DEF States
      <3> QED
        BY <2>2, <3>1, <3>2, <3>3, <3>4 DEF Whole, HasMeta
    <2> QED
      BY <2>1, <2>2 DEF Init
  <1>2. Typed
    <2>1. at \in 1..(StageCount + 1) /\ runs \in 1..MaxRuns
      <3>1. at = 1 /\ runs = 1
        BY DEF Init
      <3> QED
        BY <3>1, MaxRunsAssumption DEF MaxRunsAssumption, StageCount
    <2>2. ctx \in Contexts /\ phase = "execute" /\ step \in Labels /\ noUp \in BOOLEAN
      BY NewContextFields DEF Init, Labels
    <2>3. dir \in BOOLEAN /\ (HasMeta => dir)
      BY <1>1 DEF Init
    <2>4. registry \in Owners /\ volume \in Names /\ other \in Others
      BY DEF Init, Owners, Names, Others
    <2>5. stack \in Owners /\ told \subseteq Excuses
      BY DEF Init, Owners
    <2> QED
      BY <1>1, <2>1, <2>2, <2>3, <2>4, <2>5 DEF Typed
  <1>3. at = 1
    BY DEF Init
  <1>4. /\ ~HasRead /\ ~AsRead /\ ~Resolved /\ ~Ceiled /\ ~Named /\ ~Decided
        /\ ~LaidOut /\ ~Registered /\ ~Swept /\ ~Marked /\ ~Written /\ ~Noticed
        /\ ~Stamped
    BY <1>3 DEF HasRead, AsRead, Resolved, Ceiled, Named, Decided, LaidOut,
                Registered, Swept, Marked, Written, Noticed, Stamped
  <1>5. BetweenCommands /\ RollbackIsGuarded
    BY <1>1, <1>4, NewContextFields DEF Init, BetweenCommands, RollbackIsGuarded
  <1>6. Covered(meta.lastRun)
    BY <1>1, VersionsAssumption DEF Covered, VersionsAssumption
  <1>7. MetadataIsWhole /\ NameIsKept
    BY <1>1, <1>4 DEF Init, MetadataIsWhole, NameIsKept
  <1>8. StampIsCovered
    BY <1>3, <1>4, <1>6 DEF StampIsCovered
  <1>9. CeilingIsKept /\ StateIsMarked /\ MarkIsSet
    BY <1>1, <1>4 DEF CeilingIsKept, StateIsMarked, MarkIsSet
  <1> QED
    BY <1>2, <1>5, <1>7, <1>8, <1>9 DEF RInv

\* Every command keeps the invariant.
THEOREM RunsKeepTheInvariant == Spec => []RInv
  BY InitRInv, StepRInv, PTL DEF Spec

\* The variables have the types the code gives them.
THEOREM RunsAreTyped == Spec => []TypeOK
  <1>1. RInv => TypeOK
    BY TypedIsTypeOK DEF RInv
  <1> QED
    BY <1>1, RunsKeepTheInvariant, PTL

\* A folder of the user's own is never deleted, an established project keeps its
\* metadata and its registry entry, and its containers the name its volumes go
\* by, through any number of commands and whatever stops them.
THEOREM ProjectsSurvive == Spec => []EstablishedProjectSurvives
  <1>1. RInv => EstablishedProjectSurvives
    BY DEF RInv, RollbackIsGuarded, NameIsKept, EstablishedProjectSurvives
  <1> QED
    BY <1>1, RunsKeepTheInvariant, PTL

-----------------------------------------------------------------------------
(* What is booted                                                          *)

\* Only BringUp boots, and what it boots is what was stamped.
LEMMA BootIsBringUp ==
  ASSUME [Next]_vars, Boots
  PROVE  BringUp
  <1> USE DEF Boots, engineVars, world, rest, history
  <1>1. ASSUME NEW stop \in BOOLEAN, Return(stop) PROVE FALSE
    BY <1>1 DEF Return
  <1>2. ASSUME NEW label \in Labels \ {"up"}, Continue(label) PROVE FALSE
    BY <1>2 DEF Continue
  <1>3. ~Initialize /\ ~ValidateTooling /\ ~CheckRuntime
    BY <1>1, <1>2
       DEF Initialize, CancelSelection, LocateProject, ReadProject, ValidateTooling,
           CheckRuntime, ReportAlreadyRunning, DeclineRestart, ValidateRuntime, Labels
  <1>4. ~ResolveRelease
    BY <1>2
       DEF ResolveRelease, ResolveTag, KeepTag, TakeWorkspaceProduct, PassCeiling,
           OverrideCeiling, ApplyFlags, ReachHost, FindPort, Labels
  <1>5. ~ResolveConfig
    BY <1>1 DEF ResolveConfig, FindNoCollision, DropStaleEntry, OverwriteEntry
  <1>6. ~SetUp
    BY <1>1, <1>2
       DEF SetUp, LayOut, Seed, Register, VerifyEnvironment, WipeState, KeepState,
           MarkState, SetUpEnvironment, Labels
  <1>7. ~Compose
    BY <1>1, <1>2
       DEF Compose, NoticeUpgrade, BackUpFirst, DeclineBackup, WriteCompose, Labels
  <1>8. Execute => BringUp
    BY <1>1, <1>2
       DEF Execute, RestoreData, RecordRestored, FinishWithoutUp, StampRun,
           DependencyExited, VerifyPin, BecomeReady, Labels
  <1>9. ~FailStage
    BY DEF FailStage, Raise
  <1>10. /\ ~RollBackInitialization /\ ~BotchInitializationRollback /\ ~RollBackNothing
         /\ ~HandOver /\ ~Kill /\ ~Leave /\ ~StackStops /\ ~BumpVersion /\ ~NextCommand
    BY DEF RollBackInitialization, BotchInitializationRollback, RollBackNothing,
           HandOver, Kill, Leave, StackStops, BumpVersion, NextCommand
  <1>11. ~UNCHANGED vars
    BY DEF vars
  <1> QED
    BY <1>3, <1>4, <1>5, <1>6, <1>7, <1>8, <1>9, <1>10, <1>11 DEF Next

\* What boots has been stamped, marked and held to the ceiling.
LEMMA BootIsStamped ==
  ASSUME RInv, BringUp
  PROVE  /\ Stamped /\ Marked /\ Ceiled
         /\ data' = ctx.meta.tag /\ data' = meta.lastRun /\ data' = ctx.tag
         /\ meta = ctx.meta /\ meta' = meta /\ ctx' = ctx
         /\ data \in Nat /\ data' \in Nat
  <1>1. /\ Stamped /\ Marked /\ Ceiled /\ Decided
        /\ data' = ctx.meta.tag /\ meta' = meta /\ ctx' = ctx
    BY DEF BringUp, InStage, Stamped, Marked, Ceiled, Decided, E!Executing
  <1>2. meta = ctx.meta /\ ctx.meta.lastRun = ctx.meta.tag /\ ctx.meta.tag = ctx.tag
    BY <1>1 DEF RInv, StampIsCovered, MetadataIsWhole
  <1>3. data \in Nat /\ ctx.meta.tag \in Nat
    BY Numbers DEF RInv
  <1> QED
    BY <1>1, <1>2, <1>3

\* The release a run boots was forced or asked for when it is older than the
\* data, noticed when it is newer, and above the ceiling only by an override.
THEOREM BootsAreAsked == Spec => ReleaseIsAsked
  <1>1. RInv /\ [Next]_vars =>
          [Boots =>
             /\ data' < data => told \cap {"forced", "older", "restored"} # {}
             /\ data # 0 /\ data' > data => told \cap {"newer", "restored"} # {}
             /\ ~ExceedsCeiling(meta.claim, data') \/ meta.overridden]_vars
    <2> SUFFICES ASSUME RInv, [Next]_vars, Boots
                 PROVE  /\ data' < data => told \cap {"forced", "older", "restored"} # {}
                        /\ data # 0 /\ data' > data =>
                             told \cap {"newer", "restored"} # {}
                        /\ ~ExceedsCeiling(meta.claim, data') \/ meta.overridden
      OBVIOUS
    <2>1. /\ Ceiled /\ data' = meta.lastRun /\ data' = ctx.tag /\ meta = ctx.meta
          /\ data \in Nat /\ data' \in Nat
      BY BootIsBringUp, BootIsStamped
    <2>2. Covered(data')
      BY <2>1 DEF RInv, StampIsCovered
    <2>3. data' < data => told \cap {"forced", "older", "restored"} # {}
      BY <2>1, <2>2 DEF Covered, LetPass
    <2>4. data # 0 /\ data' > data => told \cap {"newer", "restored"} # {}
      BY <2>1, <2>2 DEF Covered
    <2>5. ~ExceedsCeiling(meta.claim, data') \/ meta.overridden
      BY <2>1 DEF RInv, CeilingIsKept
    <2> QED
      BY <2>3, <2>4, <2>5
  <1> QED
    BY <1>1, RunsKeepTheInvariant, PTL DEF Spec, ReleaseIsAsked

\* A portal boots on OSGi state that is empty or its own, wherever an earlier
\* command was killed, unless the state could not be wiped.
THEOREM BootsArePrepared == Spec => BootIsPrepared
  <1>1. RInv /\ [Next]_vars =>
          [Boots /\ ctx.meta.persist /\ "leftovers" \notin told =>
             osgi.bundles \in {0, data'}]_vars
    <2> SUFFICES ASSUME RInv, [Next]_vars, Boots, ctx.meta.persist,
                        "leftovers" \notin told
                 PROVE  osgi.bundles \in {0, data'}
      OBVIOUS
    <2>1. Marked /\ data' = ctx.tag
      BY BootIsBringUp, BootIsStamped
    <2> QED
      BY <2>1 DEF RInv, StateIsMarked
  <1> QED
    BY <1>1, RunsKeepTheInvariant, PTL DEF Spec, BootIsPrepared
=============================================================================

------------------------------ MODULE Properties ------------------------------
(***************************************************************************)
(* A project's portal-ext.properties (handlers/config.py): five layers are *)
(* merged into the file, which is itself the fifth; a manifest of what was *)
(* merged lets the next sync be skipped.  Beside the sync, the file is     *)
(* changed by `ldm config edit`, `revert-properties`, `reset-properties`,  *)
(* by the dashboard and by the generation of the compose file.  Each reads *)
(* the file, the sync three times, and later writes it whole, over what    *)
(* another wrote meanwhile.  A run and the commands named here hold the    *)
(* project's lock, which does not always exclude (module FileLock); the    *)
(* dashboard, `ldm env` with the run it ends in, `feature`, `ssl` and the  *)
(* editors of the other layers take none.  So any two overlap here, and    *)
(* any may be killed.                                                      *)
(***************************************************************************)
EXTENDS Naturals, SequencesExt

CONSTANTS
  Actors,      \* terminals, and the dashboard's server
  Key, Value,  \* properties, and what they may be set to
  Seed,        \* layer 1, shipped with the program
  LayerEdits,  \* what the user writes into a shared layer
  Typed,       \* the properties the user touches, and what he sets them to
  FlagKey,     \* the property of a feature flag
  DriverKey,   \* the property the database decides
  DroppedKey,  \* include-and-override, which a run takes out
  LoginKey,    \* the administrator's password
  Databases,   \* engines, named as their drivers are
  Mark,        \* the comment line `# !important`
  Nothing,     \* no such file
  Commands     \* bound: commands and edits that are begun

\* Some properties.
IsProps(p) ==
  /\ DOMAIN p \subseteq Key /\ IsFiniteSet(DOMAIN p)
  /\ p \in [DOMAIN p -> [value : Value, important : BOOLEAN]]

Shared == {"ldmp", "global", "local"}

\* The text: a line is a mark, or a property.
Line == [key : Key \cup {Mark}, value : Value \cup {"none"}]

\* What a manifest records: the shared layers, the file and the host's settings.
Manifests ==
  [layers : [Shared -> UNION {[K -> [value : Value, important : BOOLEAN]] : K \in SUBSET Key}],
   target : {Nothing} \cup Seq(Line),
   host : UNION {[K -> Value] : K \in SUBSET Key}]

ASSUME LayersAssumption == \A p \in {Seed} \cup LayerEdits : IsProps(p)
ASSUME KeysAssumption ==
  /\ {FlagKey, DriverKey, DroppedKey, LoginKey} \subseteq Key
  /\ "true" \in Value /\ Databases \subseteq Value
  /\ Mark \notin Key /\ DOMAIN Typed \subseteq Key
  /\ \A k \in DOMAIN Typed : Typed[k] \subseteq Value
ASSUME NothingAssumption == Nothing \notin Seq(Line) \cup Manifests
ASSUME CommandsAssumption == Commands \in Nat

VARIABLES
  layer,      \* the properties of layers 2, 3 and 4
  file,       \* files/portal-ext.properties, layer 5 and the result
  aside,      \* the same under its name during a reset
  original,   \* the copy of the first result
  manifest,   \* what was merged last
  meta,       \* what the project's metadata says that decides properties
  cmd,        \* the command of each actor; text: what it read or will write
  held,       \* what the command has made of what it read
  wish,       \* history: what the user set in the project's file
  asked,      \* history: properties somebody marked important
  raced,      \* history: the manifest's sync was crossed by another change
  torn,       \* history: a dry reset was killed or overlapped
  orphaned,   \* history: a property was removed and a mark of it stayed
  begun

files == <<layer, file, aside, original, manifest, meta>>
history == <<wish, asked, raced, torn, orphaned>>
propertiesVars == <<files, cmd, held, history, begun>>

-----------------------------------------------------------------------------
(* The text.  A file is a sequence of lines.                               *)

MarkLine == [key |-> Mark, value |-> "none"]
Lines(f) == IF f = Nothing THEN <<>> ELSE f

IsMark(ls, i) == i \in DOMAIN ls /\ ls[i].key = Mark
KeysOf(ls) == {ls[i].key : i \in DOMAIN ls} \ {Mark}

\* _get_properties_with_metadata(): a mark is for the line after it.
GetProperties(ls) ==
  [k \in KeysOf(ls) |->
     LET i == CHOOSE i \in DOMAIN ls : ls[i].key = k
     IN  [value |-> ls[i].value, important |-> IsMark(ls, i - 1)]]

\* The property that the comment lines from i on precede.
Marked(ls, i) ==
  {ls[j].key : j \in {j \in DOMAIN ls :
     /\ j > i /\ ls[j].key # Mark
     /\ \A m \in i + 1..j - 1 : ls[m].key = Mark}}

Written(k, v, important) ==
  (IF k \in important THEN <<MarkLine>> ELSE <<>>) \o <<[key |-> k, value |-> v]>>

\* update_portal_ext(): every property line is written again, with a mark if
\* the key is among the important ones; the marks that were there are left out
\* only before the keys that are updated.
UpdatePortalExt(ls, updates, important) ==
  LET value(k) == IF k \in DOMAIN updates THEN updates[k]
                  ELSE GetProperties(ls)[k].value
      piece(i) ==
        IF ls[i].key # Mark THEN Written(ls[i].key, value(ls[i].key), important)
        ELSE IF Marked(ls, i) \cap DOMAIN updates = {} THEN <<ls[i]>>
        ELSE <<>>
      new == SetToSeq(DOMAIN updates \ KeysOf(ls))
  IN  IF DOMAIN updates = {} THEN ls
      ELSE FlattenSeq([i \in DOMAIN ls |-> piece(i)])
           \o FlattenSeq([i \in DOMAIN new |->
                            Written(new[i], updates[new[i]], important)])

\* The same, with the mark left where it is.
RemoveTheLine(ls, k) ==
  FlattenSeq([i \in DOMAIN ls |-> IF ls[i].key = k THEN <<>> ELSE <<ls[i]>>])

\* remove_portal_ext(): the line, and one mark directly before it.
RemovePortalExt(ls, k) ==
  LET gone(i) == \/ ls[i].key = k
                 \/ IsMark(ls, i) /\ i < Len(ls) /\ ls[i + 1].key = k
      kept(i) == IF gone(i) THEN <<>> ELSE <<ls[i]>>
  IN  FlattenSeq([i \in DOMAIN ls |-> kept(i)])

LeavesAMark(ls, k) ==
  \E i \in DOMAIN ls : ls[i].key = k /\ IsMark(ls, i - 1) /\ IsMark(ls, i - 2)

-----------------------------------------------------------------------------
(* The cascade.                                                            *)

Update(f, updates, important) ==
  IF DOMAIN updates = {} THEN f
  ELSE UpdatePortalExt(Lines(f), updates, important)

\* _configure_feature_flags() and its like.
HostUpdates(m) == IF m.flag THEN [k \in {FlagKey} |-> "true"] ELSE <<>>

\* What f sets, and what g sets beside it.
Over(f, g) ==
  [k \in DOMAIN f \cup DOMAIN g |-> IF k \in DOMAIN f THEN f[k] ELSE g[k]]

Baseline(ls) == Over(ls["ldmp"], Seed)

\* The project's own: what is not in layers 1 and 2 as it is in the file.
ProjectCustom(ls, props) ==
  [k \in {k \in DOMAIN props :
            k \in DOMAIN Baseline(ls) => props[k] # Baseline(ls)[k]} |-> props[k]]

Layers(ls, props) ==
  <<Seed, ls["ldmp"], ls["global"], ls["local"], ProjectCustom(ls, props)>>

Defining(stack, k) == {i \in DOMAIN stack : k \in DOMAIN stack[i]}

\* The first that is marked, not the last.
FirstMarked(stack, k) ==
  LET all == Defining(stack, k)
      important == {i \in all : stack[i][k].important}
  IN  stack[IF important # {} THEN Min(important) ELSE Max(all)][k]

\* Important before plain, then the later layer.
Winner(stack, k) ==
  LET all == Defining(stack, k)
      important == {i \in all : stack[i][k].important}
  IN  stack[Max(IF important # {} THEN important ELSE all)][k]

AllKeys(stack) == UNION {DOMAIN stack[i] : i \in DOMAIN stack}
Plain(updates) ==
  [k \in DOMAIN updates |-> [value |-> updates[k], important |-> FALSE]]

\* Only what no layer sets.
ResolvedWithHostLast(ls, props, host) ==
  LET stack == Layers(ls, props)
  IN  Over([k \in AllKeys(stack) |-> Winner(stack, k)], Plain(host))

\* The settings of the host come last, whatever is important.
Resolved(ls, props, host) ==
  LET stack == Layers(ls, props)
  IN  Over(Plain(host), [k \in AllKeys(stack) |-> Winner(stack, k)])

Important(props) == {k \in DOMAIN props : props[k].important}
Changed(win, props) ==
  {k \in DOMAIN win : k \notin DOMAIN props \/ props[k] # win[k]}

\* The dashboard's inspector computes the cascade once more, with the host's
\* settings as a sixth layer.
Inspected(ls, props, host) ==
  LET stack == Layers(ls, props) \o <<Plain(host)>>
  IN  [k \in AllKeys(stack) |-> Winner(stack, k)]

\* validate_properties(): the driver is that of the project's database.
Valid(win, m) == DriverKey \in DOMAIN win => win[DriverKey].value = m.db

Inputs(ls, f, host) == [layers |-> ls, target |-> f, host |-> host]

-----------------------------------------------------------------------------
NoCommand ==
  [op |-> "none", step |-> "idle", dry |-> FALSE, moved |-> FALSE,
   meta |-> Nothing, inputs |-> Nothing, text |-> Nothing]

\* The properties it resolved or shows, those it will write, what the user sets
\* with that, what may go from the file, and whether another changed what it read.
NoRead ==
  [props |-> <<>>, updates |-> {}, sets |-> <<>>, drops |-> {}, crossed |-> FALSE]

PropertiesInit ==
  /\ layer \in [Shared -> {<<>>} \cup LayerEdits]
  /\ layer["ldmp"] = <<>> /\ layer["local"] = <<>>
  /\ file = Nothing /\ aside = Nothing /\ original = Nothing
  /\ manifest = Nothing
  /\ meta \in [flag : {FALSE}, db : Databases \ {"hypersonic"}, login : {Nothing}]
  /\ cmd = [a \in Actors |-> NoCommand]
  /\ held = [a \in Actors |-> NoRead]
  /\ wish = <<>>
  /\ asked = Important(Seed) \cup Important(layer["global"])
  /\ raced = FALSE /\ torn = FALSE /\ orphaned = FALSE
  /\ begun = 0

Idle(a) == cmd[a].step = "idle"
Resetting == {a \in Actors : cmd[a].op = "reset" /\ ~Idle(a)}
At(a, op, step) == cmd[a].op = op /\ cmd[a].step = step
Goto(a, step) == cmd' = [cmd EXCEPT ![a].step = step]
Leave(a) ==
  /\ cmd' = [cmd EXCEPT ![a] = NoCommand]
  /\ held' = [held EXCEPT ![a] = NoRead]
Count == begun < Commands /\ begun' = begun + 1

Without(p, gone) == [k \in DOMAIN p \ gone |-> p[k]]

\* Between its first read of the file and its writing.
Writing == {"merging", "setting", "removing", "injecting"}
Holding(a) == cmd[a].step \in {"resolved", "diffed"} \cup Writing

\* safe_write_text() puts the whole text in the file's place.  What the user sets
\* while another holds a text is not counted on.
WriteBack(a) ==
  LET h == held[a]
      alone == \A b \in Actors \ {a} : ~Holding(b)
  IN  /\ file' = cmd[a].text
      /\ wish' = Over(IF alone THEN h.sets ELSE <<>>,
                      Without(wish, h.drops \cup DOMAIN h.sets))
      /\ UNCHANGED <<layer, aside, original, manifest, meta, asked, raced, torn,
                     orphaned, begun>>

-----------------------------------------------------------------------------
(* The sync.                                                               *)

Begin(a, op, dry) ==
  [NoCommand EXCEPT !.op = op, !.step = "read", !.dry = dry, !.meta = meta]

HostOf(c) == HostUpdates(c.meta)

\* _persist_resolved_admin_credentials(): into the command's own copy.
Login(c, f) ==
  IF c.dry \/ f = Nothing THEN c.meta
  ELSE [c.meta EXCEPT !.login =
          IF LoginKey \in KeysOf(f) THEN GetProperties(f)[LoginKey].value
          ELSE "default"]

Syncs(a) ==
  \/ cmd[a].op \in {"run", "rebuild", "ssl"} /\ cmd[a].step = "read"
  \/ At(a, "reset", "aside")

Bypassed(c) == ~c.dry /\ manifest = Inputs(layer, file, HostOf(c))

Bypass(a) ==
  /\ Syncs(a) /\ Bypassed(cmd[a])
  /\ cmd' = [cmd EXCEPT ![a] = [cmd[a] EXCEPT !.step = "synced",
                                              !.meta = Login(cmd[a], file)]]
  /\ UNCHANGED <<files, held, history, begun>>

\* What the layers and the file are when the sync begins.
Hash(a) ==
  /\ Syncs(a) /\ ~Bypassed(cmd[a])
  /\ cmd' = [cmd EXCEPT ![a] = [cmd[a] EXCEPT !.step = "hashed",
               !.inputs = Inputs(layer, file, HostOf(cmd[a]))]]
  /\ UNCHANGED <<files, held, history, begun>>

Props(f) == GetProperties(Lines(f))
Result(c) == Resolved(layer, Props(file), HostOf(c))

\* Where a layer may overrule what the user set: a setting of the host; a layer
\* that marks the property where he did not; and a common layer, where his entry
\* is the baseline's and so no change of his.
Beaten(c) ==
  LET props == Props(file)
  IN  {k \in DOMAIN wish \cap DOMAIN props :
         \/ k \in DOMAIN HostOf(c)
         \/ /\ ~props[k].important
            /\ \E p \in {Seed} \cup {layer[l] : l \in Shared} :
                 k \in DOMAIN p /\ p[k].important
         \/ /\ k \in DOMAIN Baseline(layer) /\ props[k] = Baseline(layer)[k]
            /\ \E l \in {"global", "local"} : k \in DOMAIN layer[l]}

\* UI.die() is no exception that the dashboard or the editor catches.
Refuse(a) ==
  /\ cmd[a].step = "hashed"
  /\ ~Valid(Result(cmd[a]), cmd[a].meta)
  /\ Goto(a, "dead")
  /\ UNCHANGED <<files, held, history, begun>>

\* The cascade, of the layers and the file as they are read by now.
Resolve(a) ==
  LET c == cmd[a]
  IN  /\ c.step = "hashed"
      /\ Valid(Result(c), c.meta)
      /\ ~c.dry
      /\ cmd' = [cmd EXCEPT ![a] = [c EXCEPT !.step = "resolved", !.text = file]]
      /\ held' = [held EXCEPT ![a] = [NoRead EXCEPT
                    !.props = Result(c), !.drops = Beaten(c),
                    !.crossed = (layer # c.inputs.layers)]]
      /\ UNCHANGED <<files, history, begun>>

\* A dry one only says what it would write.
Announce(a) ==
  /\ cmd[a].step = "hashed"
  /\ Valid(Result(cmd[a]), cmd[a].meta)
  /\ cmd[a].dry
  /\ Goto(a, "synced")
  /\ UNCHANGED <<files, held, history, begun>>

\* The result is compared with the file as it is now.
Diff(a) ==
  LET c == cmd[a]
      updates == Changed(held[a].props, Props(file))
  IN  /\ c.step = "resolved"
      /\ cmd' = [cmd EXCEPT ![a] = [c EXCEPT
                   !.step = IF updates = {} THEN "merged" ELSE "diffed",
                   !.text = file]]
      /\ held' = [held EXCEPT ![a] = [held[a] EXCEPT
                    !.updates = updates, !.crossed = (@ \/ file # c.text)]]
      /\ UNCHANGED <<files, history, begun>>

\* update_portal_ext() reads it once more, and writes what it made of it.
Reread(a) ==
  LET h == held[a]
  IN  /\ cmd[a].step = "diffed"
      /\ cmd' = [cmd EXCEPT ![a] = [cmd[a] EXCEPT !.step = "merging",
                   !.text = Update(file, [k \in h.updates |-> h.props[k].value],
                                   Important(h.props))]]
      /\ held' = [held EXCEPT ![a] = [h EXCEPT
                    !.crossed = (@ \/ file # cmd[a].text)]]
      /\ UNCHANGED <<files, history, begun>>
Merge(a) ==
  /\ cmd[a].step = "merging"
  /\ WriteBack(a)
  /\ Goto(a, "merged")
  /\ UNCHANGED held

\* What the command read.
HashedBefore(c) == c.inputs

\* The first result is kept, and the manifest is of the result, not of the
\* file the command began with.
Hashed(c) == [c.inputs EXCEPT !.target = file]

Record(a) ==
  LET c == cmd[a]
  IN  /\ c.step = "merged"
      /\ original' = IF original = Nothing THEN file ELSE original
      /\ manifest' = Hashed(c)
      /\ raced' = (held[a].crossed \/ file # c.text)
      /\ cmd' = [cmd EXCEPT ![a] = [c EXCEPT !.step = "synced",
                   !.inputs = Nothing, !.text = Nothing,
                   !.meta = Login(c, file)]]
      /\ held' = [held EXCEPT ![a] = NoRead]
      /\ UNCHANGED <<layer, file, aside, meta, wish, asked, torn, orphaned, begun>>

-----------------------------------------------------------------------------
(* The commands.                                                           *)

\* `ldm run`, with another database perhaps, which is saved before the sync.
Run(a, db) ==
  /\ Idle(a) /\ Count
  /\ meta' = [meta EXCEPT !.db = db]
  /\ cmd' = [cmd EXCEPT ![a] = [Begin(a, "run", FALSE) EXCEPT !.meta = meta']]
  /\ UNCHANGED <<layer, file, aside, original, manifest, held, history>>

\* cmd_rebuild_properties() and cmd_reset_properties().
Ask(a, op, dry) ==
  /\ Idle(a) /\ Count
  /\ cmd' = [cmd EXCEPT ![a] = Begin(a, op, dry)]
  /\ UNCHANGED <<files, held, history>>

\* Somebody is to set a property of the file, or to take one out of it: the file
\* is read.
Reads(a, op, text, h) ==
  /\ cmd' = [cmd EXCEPT ![a] = [Begin(a, op, FALSE) EXCEPT !.step = "setting", !.text = text]]
  /\ held' = [held EXCEPT ![a] = h]
SetInFile(a, op, k, v, important) ==
  /\ Reads(a, op, UpdatePortalExt(Lines(file), [x \in {k} |-> v], important),
           [NoRead EXCEPT !.sets = [x \in {k} |-> v]])
  /\ asked' = asked \cup (important \cap {k})
  /\ UNCHANGED <<files, wish, raced, torn, orphaned>>
TakeFromFile(a, op, k) ==
  /\ file # Nothing
  /\ Reads(a, op, RemovePortalExt(Lines(file), k), [NoRead EXCEPT !.drops = {k}])
  /\ orphaned' = (orphaned \/ LeavesAMark(Lines(file), k))
  /\ UNCHANGED <<files, wish, asked, raced, torn>>

\* A PUT and a DELETE of the dashboard: the file, then a rebuild.
Put(a, k, v, important) == Idle(a) /\ Count /\ SetInFile(a, "rebuild", k, v, important)
Delete(a, k) == Idle(a) /\ Count /\ TakeFromFile(a, "rebuild", k)

\* The text is written; the rebuild reads the metadata, the editor the file.
Set(a) ==
  /\ cmd[a].step = "setting"
  /\ WriteBack(a)
  /\ cmd' = [cmd EXCEPT ![a] =
       IF cmd[a].op = "edit" THEN [Begin(a, "edit", FALSE) EXCEPT !.step = "listing"]
       ELSE Begin(a, "rebuild", FALSE)]
  /\ held' = [held EXCEPT ![a] = NoRead]

\* A reset, dry or not, takes the file out of the way.
MoveAside(a) ==
  LET there == file # Nothing
  IN  /\ At(a, "reset", "read")
      /\ file' = Nothing
      /\ aside' = IF there THEN file ELSE aside
      /\ cmd' = [cmd EXCEPT ![a] = [cmd[a] EXCEPT !.step = "aside", !.moved = there]]
      /\ wish' = IF cmd[a].dry THEN wish ELSE <<>>
      /\ torn' = (torn \/ Resetting # {a})
      /\ UNCHANGED <<layer, original, manifest, meta, held, asked, raced,
                     orphaned, begun>>

\* A dry one puts it back, over whatever is there by now.
MoveBack(a) ==
  /\ cmd[a].op = "reset" /\ cmd[a].dry /\ cmd[a].step \in {"synced", "dead"}
  /\ IF cmd[a].moved /\ aside # Nothing
     THEN file' = aside /\ aside' = Nothing
     ELSE UNCHANGED <<file, aside>>
  /\ torn' = (torn \/ file # Nothing \/ \E b \in Actors : Holding(b))
  /\ Leave(a)
  /\ UNCHANGED <<layer, original, manifest, meta, wish, asked, raced, orphaned, begun>>

\* A reset that died in the sync deletes the file as one that did not.
Unlink(a) ==
  /\ cmd[a].op = "reset" /\ ~cmd[a].dry /\ cmd[a].step \in {"saved", "dead"}
  /\ aside' = IF cmd[a].moved THEN Nothing ELSE aside
  /\ Leave(a)
  /\ UNCHANGED <<layer, file, original, manifest, meta, history, begun>>

\* A run takes the seed's include-and-override out again,
ReadToRemove(a) ==
  LET there == file # Nothing
      leaves == there /\ LeavesAMark(Lines(file), DroppedKey)
  IN  /\ At(a, "run", "synced")
      /\ cmd' = [cmd EXCEPT ![a] = [cmd[a] EXCEPT
                   !.step = IF there THEN "removing" ELSE "removed",
                   !.text = IF there THEN RemovePortalExt(Lines(file), DroppedKey)
                            ELSE Nothing]]
      /\ held' = [held EXCEPT ![a] = [NoRead EXCEPT !.drops = {DroppedKey}]]
      /\ orphaned' = (orphaned \/ leaves)
      /\ UNCHANGED <<files, wish, asked, raced, torn, begun>>
TakeOut(a) ==
  /\ cmd[a].step = "removing"
  /\ WriteBack(a)
  /\ Goto(a, "removed")
  /\ UNCHANGED held

\* _inject_liferay_db_env(): nothing of a database that is not a server.
Injected(m) == IF m.db = "hypersonic" THEN <<>> ELSE [k \in {DriverKey} |-> m.db]

\* the generation of the compose file sets what is injected,
ReadToInject(a) ==
  LET new == Injected(cmd[a].meta)
  IN  /\ cmd[a].step = "removed"
      /\ cmd' = [cmd EXCEPT ![a] = [cmd[a] EXCEPT
                   !.step = IF DOMAIN new = {} THEN "composed" ELSE "injecting",
                   !.text = Update(file, new, {})]]
      /\ held' = [held EXCEPT ![a] = [NoRead EXCEPT !.drops = DOMAIN new]]
      /\ UNCHANGED <<files, history, begun>>
Inject(a) ==
  /\ cmd[a].step = "injecting"
  /\ WriteBack(a)
  /\ Goto(a, "composed")
  /\ UNCHANGED held

\* `ldm env`, `ldm ssl` and `ldm config revert` read the metadata, ask the user
\* or stop the portal, and write their copy back, all of it.
Consider(a) ==
  /\ Idle(a) /\ Count
  /\ cmd' = [cmd EXCEPT ![a] = [Begin(a, "settings", FALSE) EXCEPT !.step = "considering"]]
  /\ UNCHANGED <<files, held, history>>

\* Settings that decide no property; the copy goes on into a run.
SetEnv(a) ==
  /\ cmd[a].step = "considering"
  /\ meta' = cmd[a].meta
  /\ cmd' = [cmd EXCEPT ![a] = [cmd[a] EXCEPT !.op = "run", !.step = "read"]]
  /\ UNCHANGED <<layer, file, aside, original, manifest, held, history, begun>>

\* To the defaults; the engine too, when it is forced.
RevertSettings(a) ==
  /\ cmd[a].step = "considering"
  /\ \E db \in Databases : meta' = [cmd[a].meta EXCEPT !.db = db]
  /\ Leave(a)
  /\ UNCHANGED <<layer, file, aside, original, manifest, history, begun>>

\* The address of the portal, which is no property; then the properties are
\* rebuilt, from the metadata on disk.
SslMode(a) ==
  /\ cmd[a].step = "considering"
  /\ meta' = cmd[a].meta
  /\ cmd' = [cmd EXCEPT ![a] = [Begin(a, "ssl", FALSE) EXCEPT !.meta = meta']]
  /\ UNCHANGED <<layer, file, aside, original, manifest, held, history, begun>>

\* A portal that was stopped for it is run again.
Restart(a) ==
  /\ At(a, "ssl", "synced")
  /\ meta' = cmd[a].meta
  /\ cmd' = [cmd EXCEPT ![a] = [Begin(a, "run", FALSE) EXCEPT !.meta = meta']]
  /\ UNCHANGED <<layer, file, aside, original, manifest, held, history, begun>>

\* The command's copy of the metadata is written back, all of it.
Save(a) ==
  LET c == cmd[a]
  IN  /\ \/ At(a, "rebuild", "synced") /\ ~c.dry
         \/ At(a, "ssl", "synced")
         \/ At(a, "run", "composed")
         \/ At(a, "reset", "synced") /\ ~c.dry
      /\ meta' = c.meta
      /\ IF c.op = "reset" THEN Goto(a, "saved") /\ UNCHANGED held ELSE Leave(a)
      /\ UNCHANGED <<layer, file, aside, original, manifest, history, begun>>

End(a) ==
  /\ \/ At(a, "rebuild", "synced") /\ cmd[a].dry
     \/ cmd[a].step = "dead" /\ cmd[a].op # "reset"
  /\ Leave(a)
  /\ UNCHANGED <<files, history, begun>>

Kill(a) ==
  /\ ~Idle(a)
  /\ torn' = (torn \/ (a \in Resetting /\ cmd[a].dry))
  /\ Leave(a)
  /\ UNCHANGED <<files, wish, asked, raced, orphaned, begun>>

\* cmd_revert_properties().
Revert ==
  /\ Count
  /\ original # Nothing
  /\ file' = original
  /\ wish' = <<>>
  /\ UNCHANGED <<layer, aside, original, manifest, meta, cmd, held, asked,
                 raced, torn, orphaned>>

\* cmd_feature(): the metadata alone.
Feature(on) ==
  /\ Count
  /\ meta' = [meta EXCEPT !.flag = on]
  /\ UNCHANGED <<layer, file, aside, original, manifest, cmd, held, history>>

-----------------------------------------------------------------------------
(* `ldm config edit --target properties --tui`: a list of the properties,  *)
(* and a change to one of them, written with what the list showed.         *)

\* An empty file, if there is none.
OpenEditor(a) ==
  /\ Idle(a) /\ begun < Commands
  /\ IF file = Nothing THEN Reads(a, "edit", <<>>, NoRead)
     ELSE /\ cmd' = [cmd EXCEPT ![a] = [Begin(a, "edit", FALSE) EXCEPT !.step = "listing"]]
          /\ UNCHANGED held
  /\ UNCHANGED <<files, history, begun>>

List(a) ==
  /\ At(a, "edit", "listing")
  /\ Goto(a, "editing")
  /\ held' = [held EXCEPT ![a] = [NoRead EXCEPT !.props = Props(file)]]
  /\ UNCHANGED <<files, history, begun>>

CloseEditor(a) ==
  /\ At(a, "edit", "editing")
  /\ Leave(a)
  /\ UNCHANGED <<files, history, begun>>

\* Add and edit: Enter keeps the value that was shown.
EditorSet(a, k, v, important) ==
  LET shown == held[a].props
  IN  /\ At(a, "edit", "editing") /\ Count
      /\ v \in Typed[k] \/ (k \in DOMAIN shown /\ v = shown[k].value)
      /\ SetInFile(a, "edit", k, v, important)

\* Toggling hands over every property that was shown as important.
EditorToggle(a, k) ==
  LET shown == held[a].props
      marked == Important(shown)
  IN  /\ At(a, "edit", "editing") /\ Count
      /\ k \in DOMAIN shown
      /\ SetInFile(a, "edit", k, shown[k].value,
                   IF k \in marked THEN marked \ {k} ELSE marked \cup {k})

EditorDelete(a, k) ==
  /\ At(a, "edit", "editing") /\ Count
  /\ k \in DOMAIN held[a].props
  /\ TakeFromFile(a, "edit", k)

-----------------------------------------------------------------------------
(* The other layers.                                                       *)

EditLayer(l, p) ==
  /\ Count
  /\ layer' = [layer EXCEPT ![l] = p]
  /\ asked' = asked \cup Important(p)
  /\ UNCHANGED <<file, aside, original, manifest, meta, cmd, held, wish, raced,
                 torn, orphaned>>

\* _install_restored_portal_ext(): the file of a snapshot, of today or of the
\* beginning, becomes the project's file and layer 2.
Restore(f) ==
  /\ Count
  /\ f # Nothing
  /\ file' = f
  /\ layer' = [layer EXCEPT !["ldmp"] = GetProperties(f)]
  /\ wish' = <<>>
  /\ UNCHANGED <<aside, original, manifest, meta, cmd, held, asked, raced, torn,
                 orphaned>>

Sync(a) ==
  \/ Bypass(a) \/ Hash(a) \/ Refuse(a) \/ Resolve(a) \/ Announce(a)
  \/ Diff(a) \/ Reread(a) \/ Merge(a) \/ Record(a)
Step(a) ==
  \/ Sync(a) \/ Set(a) \/ MoveAside(a) \/ MoveBack(a) \/ Unlink(a)
  \/ ReadToRemove(a) \/ TakeOut(a) \/ ReadToInject(a) \/ Inject(a)
  \/ Save(a) \/ End(a)
  \/ SetEnv(a) \/ RevertSettings(a) \/ SslMode(a) \/ Restart(a)

Editor(a) ==
  \/ OpenEditor(a) \/ List(a) \/ CloseEditor(a)
  \/ \E k \in DOMAIN Typed :
       \/ \E v \in Value, important \in SUBSET {k} : EditorSet(a, k, v, important)
       \/ EditorToggle(a, k)
       \/ EditorDelete(a, k)

PropertiesNext ==
  \/ \E a \in Actors :
       \/ \E db \in Databases : Run(a, db)
       \/ Consider(a)
       \/ \E op \in {"rebuild", "reset"}, dry \in BOOLEAN : Ask(a, op, dry)
       \/ \E k \in DOMAIN Typed :
            \/ \E v \in Typed[k], important \in SUBSET {k} : Put(a, k, v, important)
            \/ Delete(a, k)
       \/ Step(a)
       \/ Editor(a)
       \/ Kill(a)
  \/ Revert
  \/ \E on \in BOOLEAN : Feature(on)
  \/ \E l \in {"global", "local"}, p \in LayerEdits : EditLayer(l, p)
  \/ \E f \in {file, original} : Restore(f)

PropertiesSpec == PropertiesInit /\ [][PropertiesNext]_propertiesVars

-----------------------------------------------------------------------------
(* What the file is worth.                                                 *)

\* Nothing that went into the file has changed since the manifest was written.
UpToDate == manifest = Inputs(layer, file, HostUpdates(meta))

Sound == UpToDate /\ ~raced /\ ~orphaned

\* _resolve_properties_cascade() skips its work when the manifest agrees: doing
\* it would have changed nothing.
BypassIsSound ==
  Sound => Changed(Resolved(layer, Props(file), HostUpdates(meta)), Props(file)) = {}

\* What the user set in the project's file stays in it, whatever commands run
\* after, overlap, are refused or killed, until he changes it or a layer rightly
\* overrules it (Beaten).  Set aside are a property he set while another process
\* was between its read of the file and its writing, which may undo it (the
\* dashboard takes no lock, config.py:350-423), and a dry reset that was killed
\* or overlapped.
EditSurvives ==
  ~torn /\ Resetting = {} =>
    \A k \in DOMAIN wish : k \in DOMAIN Props(file) /\ Props(file)[k].value = wish[k]

\* The dashboard's inspector and the file agree, but for settings of the host
\* that a layer marks important (dashboard/server.py, api_project_properties()).
InspectorAgrees ==
  LET host == HostUpdates(meta)
      shown == Inspected(layer, Props(file), host)
  IN  Sound => \A k \in DOMAIN shown :
        \/ Props(file)[k] = shown[k]
        \/ k \in DOMAIN host /\ shown[k].important

\* A property of the file is important only if somebody marked it so: the marks
\* are comment lines, and each stays with its property when the properties
\* around it are set, merged and removed (update_portal_ext(),
\* remove_portal_ext()), as long as no property had two of them.
ImportanceIsAsked == ~orphaned => Important(Props(file)) \subseteq asked
===============================================================================

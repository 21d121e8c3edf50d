----------------------------- MODULE MCProperties -----------------------------
EXTENDS Properties

Entry(v, important) == [value |-> v, important |-> important]

MCKey == {"password", "flag", "driver", "extra"}
MCValue == {"0", "1", "2", "true", "postgresql", "hypersonic"}
MCSeed == [k \in {"password", "extra"} |-> Entry("0", FALSE)]
MCLayerEdits ==
  {<<>>, [k \in {"password"} |-> Entry("1", TRUE)],
   [k \in {"password", "flag"} |-> Entry("1", FALSE)]}
MCTyped == [k \in {"password", "extra"} |-> IF k = "password" THEN {"2"} ELSE {}]
Symmetry == Permutations(Actors)

\* The bound on commands is spent on what follows: a project that was never
\* run, or one after its first run, and perhaps an edit whose rebuild was killed.
Untouched ==
  /\ file = Nothing /\ original = Nothing /\ manifest = Nothing
  /\ meta.login = Nothing
  /\ wish = <<>> /\ asked = Important(Seed) \cup Important(layer["global"])

\* The file is without DroppedKey and has the driver; the manifest is of the
\* result before that.
FirstResult ==
  LET win == Resolved(layer, <<>>, <<>>)
  IN  Update(Nothing, [k \in DOMAIN win |-> win[k].value], Important(win))
AfterARun(wishes, marks) ==
  LET run == Update(RemovePortalExt(FirstResult, DroppedKey), Injected(meta), {})
  IN  /\ file = Update(run, wishes, marks)
      /\ original = FirstResult /\ manifest = Inputs(layer, FirstResult, <<>>)
      /\ meta.login = Props(FirstResult)["password"].value
      /\ wish = wishes
      /\ asked = Important(Seed) \cup Important(layer["global"]) \cup marks

MCInit ==
  /\ layer \in [Shared -> {<<>>} \cup LayerEdits]
  /\ layer["ldmp"] = <<>> /\ layer["local"] = <<>>
  /\ meta \in [flag : {FALSE}, db : {"postgresql"}, login : {Nothing} \cup Value]
  /\ \/ Untouched
     \/ AfterARun(<<>>, {})
     \/ \E marks \in SUBSET {"password"} :
          AfterARun([k \in {"password"} |-> "2"], marks)
  /\ aside = Nothing
  /\ cmd = [a \in Actors |-> NoCommand]
  /\ held = [a \in Actors |-> NoRead]
  /\ raced = FALSE /\ torn = FALSE /\ orphaned = FALSE
  /\ begun = 0
MCSpec == MCInit /\ [][PropertiesNext]_propertiesVars
===============================================================================

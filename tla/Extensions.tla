------------------------------ MODULE Extensions ------------------------------
(***************************************************************************)
(* What a client extension says of itself (workspace/metadata.py).  It     *)
(* comes as an archive that was built, as the folder it was unpacked to,   *)
(* or as both; the scan reads the archives first and then the folders, and *)
(* what a folder says replaces what was read before.                       *)
(*                                                                         *)
(* Contents of either: descriptors in the order of the archive, and where  *)
(* a Dockerfile is: at the top, somewhere below it, or nowhere ("none").   *)
(* A descriptor's "unset" and 0 stand for what is not in the file.         *)
(***************************************************************************)
EXTENDS Integers, Sequences, FiniteSets

Descriptors ==
  [file : {"yaml", "LCP.json", "config"}, top : BOOLEAN, type : STRING, kind : STRING,
   deploy : BOOLEAN, ports : Seq([port : Nat, external : BOOLEAN]), balancer : Nat,
   probe : BOOLEAN, erc : STRING]

Archives == [files : Seq(Descriptors), docker : {"none", "top", "below"}]

NoContents == [files |-> <<>>, docker |-> "none"]

NoMetadata ==
  [type |-> "unset", kind |-> "unset", deploy |-> TRUE, ports |-> <<>>,
   balancer |-> 0, probe |-> FALSE, erc |-> "unset"]

Kept(new, old) == IF new = "unset" THEN old ELSE new

\* _parse_client_extension_yaml
MergeYaml(info, d) ==
  [info EXCEPT !.type = Kept(d.type, info.type), !.erc = Kept(d.erc, info.erc)]

\* _parse_lcp_json: what the file leaves out is its default, and replaces what
\* another said; ports are added to those there are, unless it has none.
MergeLcp(info, d) ==
  [info EXCEPT !.kind = Kept(d.kind, info.kind),
               !.deploy = d.deploy,
               !.ports = IF d.ports = <<>> THEN <<>> ELSE info.ports \o d.ports,
               !.balancer = IF d.balancer = 0 THEN info.balancer ELSE d.balancer,
               !.probe = info.probe \/ d.probe,
               !.erc = Kept(d.erc, info.erc)]

\* _parse_client_extension_config_json
MergeConfig(info, d) == [info EXCEPT !.erc = Kept(d.erc, info.erc)]

\* _merge_metadata_info
MergeMetadata(info, d) ==
  CASE d.file = "yaml" -> MergeYaml(info, d)
    [] d.file = "LCP.json" -> MergeLcp(info, d)
    [] d.file = "config" -> MergeConfig(info, d)

DescribedBy(files) ==
  LET upTo[n \in 0..Len(files)] ==
        IF n = 0 THEN NoMetadata ELSE MergeMetadata(upTo[n - 1], files[n])
  IN  upTo[Len(files)]

\* _scan_extension_zip_metadata: at any depth, in the order of the archive.
ZipMetadata(x) == DescribedBy(x.files)

\* The first of its kind at the top.
First(x, file) ==
  LET at == {i \in DOMAIN x.files : x.files[i].file = file /\ x.files[i].top}
  IN  IF at = {} THEN <<>> ELSE <<x.files[CHOOSE i \in at : \A j \in at : i <= j]>>

\* _scan_extension_folder_metadata: one of each from the top, in a fixed order.
FolderMetadata(x) ==
  DescribedBy(First(x, "yaml") \o First(x, "LCP.json") \o First(x, "config"))

Has(x, file) == \E i \in DOMAIN x.files : x.files[i].file = file

\* _process_built_cx_zips: a container is built for it.
IsServiceZip(x) ==
  LET info == ZipMetadata(x)
  IN  /\ \/ info.type # "unset"
         \/ Has(x, "yaml") \/ Has(x, "LCP.json")
      /\ x.docker # "none" /\ info.kind # "Job" /\ info.deploy

\* The archive of a service is unpacked over what there was of it.
Folder(e) == IF IsServiceZip(e.built) THEN e.built ELSE e.unpacked

\* _process_existing_cx_folders: what looks like an extension replaces what its
\* archive said.
IsExtensionFolder(x) ==
  \/ FolderMetadata(x).type # "unset"
  \/ \E i \in DOMAIN x.files : x.files[i].file = "LCP.json" /\ x.files[i].top

\* What the composer is given of an extension.
Metadata(e) ==
  IF IsExtensionFolder(Folder(e)) THEN FolderMetadata(Folder(e)) ELSE ZipMetadata(e.built)

\* "is_service" of a folder does not ask for `deploy`; the composer does.
IsService(e) ==
  IF IsExtensionFolder(Folder(e))
  THEN Folder(e).docker = "top" /\ Metadata(e).kind # "Job" /\ Metadata(e).deploy
  ELSE IsServiceZip(e.built)

\* What it was looked at as for a port of the host: the archive comes first.
PortMetadata(e) ==
  IF IsServiceZip(e.built) THEN ZipMetadata(e.built) ELSE FolderMetadata(e.unpacked)

\* Each descriptor once, and all at the top, with the Dockerfile.
Flat(x) ==
  /\ x.docker # "below"
  /\ \A i, j \in DOMAIN x.files :
       x.files[i].top /\ (x.files[i].file = x.files[j].file => i = j)

\* Of an archive that is laid out like that both scans make the same container,
\* and an extension has one if its archive says so, unless a folder is left
\* from a time when it did.
ScansAgree(e) ==
  Flat(e.built) =>
    /\ IsServiceZip(e.built) =>
         [Metadata(e) EXCEPT !.erc = "unset"] = [PortMetadata(e) EXCEPT !.erc = "unset"]
    /\ e.unpacked = NoContents => (IsService(e) <=> IsServiceZip(e.built))

\* scan_client_extensions: an extension with what its scans make of it.
Scanned(id, e, scale) ==
  [id |-> id, scale |-> scale, from |-> e, service |-> IsService(e), says |-> Metadata(e),
   wants |-> PortMetadata(e), agree |-> ScansAgree(e)]
===============================================================================

------------------------------- MODULE Config -------------------------------
(***************************************************************************)
(* The configuration on disk and in memory (Utils/config.cpp): a YAML file *)
(* that is read first, an older JSON file it is made from when it cannot   *)
(* be read, and sections written back whole.  A section has one key, whose *)
(* value is a number.  A write truncates the file first: a program that    *)
(* ends in it leaves part of what it wrote, which may be readable.         *)
(***************************************************************************)
EXTENDS Naturals, FiniteSets, Functions

CONSTANTS
  Sections,
  MaxValue         (* bound on the values saved and on what the user does      *)

VARIABLES
  yaml, json,      (* what the files hold: <<sections>>, or <<>> when there is *)
                   (* none or it cannot be read                                *)
  configs,         (* the sections in memory                                   *)
  up,              (* the program runs                                         *)
  saved,           (* history: what a completed write or the user left         *)
  torn             (* history: a write was cut off                             *)

configVars == <<yaml, json, configs, up, saved, torn>>

NoFile == <<>>
Empty == [s \in {} |-> 0]
All == UNION {[S -> 0..MaxValue] : S \in SUBSET Sections}

Init ==
  /\ up = FALSE /\ configs = Empty /\ torn = FALSE
  /\ yaml \in {NoFile} \cup {<<[s \in Sections |-> 1]>>}
  /\ json \in {NoFile} \cup {<<[s \in Sections |-> 0]>>}
  /\ saved = yaml

(* dumpFile()                                                              *)
Dumped(sections) == yaml' = <<sections>> /\ saved' = <<sections>> /\ torn' = torn
CutOff(sections) ==
  /\ yaml' \in {NoFile} \cup {<<Restrict(sections, S)>> : S \in SUBSET DOMAIN sections}
  /\ torn' = TRUE /\ saved' = saved

(* loadConfig(): an object from either, JSON only when YAML gives none.    *)
Readable_Slip == IF json # NoFile THEN json ELSE yaml
Readable == IF yaml # NoFile THEN yaml ELSE json
Load ==
  /\ ~up /\ up' = TRUE
  /\ configs' = IF Readable = NoFile THEN Empty ELSE Readable[1]
  /\ IF yaml = NoFile /\ json # NoFile THEN Dumped(json[1]) ELSE UNCHANGED <<yaml, saved, torn>>
  /\ UNCHANGED json
LoadCutOff ==
  /\ ~up /\ yaml = NoFile /\ json # NoFile
  /\ CutOff(json[1])
  /\ UNCHANGED <<json, configs, up>>

(* saveConfig(): the section it is given and all others in memory.         *)
Saved(s, v) == [x \in DOMAIN configs \cup {s} |-> IF x = s THEN v ELSE configs[x]]
SaveConfig(s, v) ==
  /\ up /\ configs' = Saved(s, v)
  /\ Dumped(Saved(s, v))
  /\ UNCHANGED <<json, up>>
SaveCutOff(s, v) ==
  /\ up /\ up' = FALSE /\ configs' = Empty
  /\ CutOff(Saved(s, v))
  /\ UNCHANGED json

Exit == up /\ up' = FALSE /\ configs' = Empty /\ UNCHANGED <<yaml, json, saved, torn>>

(* The user edits the file, and may leave it such that it is not read.     *)
Edit(sections) ==
  /\ yaml' = sections /\ saved' = sections
  /\ UNCHANGED <<json, configs, up, torn>>

Next ==
  \/ Load \/ LoadCutOff \/ Exit
  \/ \E s \in Sections, v \in 0..MaxValue : SaveConfig(s, v) \/ SaveCutOff(s, v)
  \/ \E sections \in {NoFile} \cup {<<f>> : f \in [Sections -> 0..MaxValue]} : Edit(sections)

Spec == Init /\ [][Next]_configVars

-----------------------------------------------------------------------------
(* Without a cut-off write, the program starts with what was last written  *)
(* or edited, and with the JSON file's sections when that cannot be read.  *)
StartsWithLast ==
  [][~up /\ up' /\ ~torn =>
       /\ saved # NoFile => configs' = saved[1]
       /\ saved = NoFile /\ json # NoFile => configs' = json[1] /\ yaml' = json]_configVars

(* A save changes one section of the file (config.cpp:14: editing the file *)
(* is how one configures).                                                 *)
SaveKeepsOthers ==
  [][\A s \in Sections, v \in 0..MaxValue : SaveConfig(s, v) /\ yaml # NoFile =>
       \A x \in DOMAIN yaml[1] \ {s} : x \in DOMAIN yaml'[1] /\ yaml'[1][x] = yaml[1][x]]_configVars
=============================================================================

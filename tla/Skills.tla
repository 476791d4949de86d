------------------------------- MODULE Skills -------------------------------
(***************************************************************************)
(* Skills: the YAML files under skills_dir become the manifest of the      *)
(* application, or keep it from starting (skills/skill_loader.py,          *)
(* skill_yaml_schema.py, skill.py, skill_manifest.py, create_app).  The    *)
(* loader takes one file after the other, notes what is wrong with it and  *)
(* goes on, and raises in the end if it noted anything.                    *)
(*                                                                         *)
(* A file: its place ("layout" is <name>/<version>.yaml, "stray" any other *)
(* place or .yml), directory and stem; whether it can be read and parsed   *)
(* to the Pydantic shape (defect); and the body's name, version, output    *)
(* schema (type, properties, whether its root is composed of other         *)
(* schemas) and examples (the names each one's output has).                *)
(***************************************************************************)
EXTENDS Integers, Sequences, FiniteSets

CONSTANT Directories   \* bound: what skills_dir may hold, each a sequence of files in sorted order

ASSUME DirectoriesAssumption ==
  Directories \subseteq
    Seq([place : {"layout", "stray"}, dir : STRING, stem : STRING,
         defect : {"none", "unreadable", "broken"}, name : STRING, version : Int,
         type : {"object", "none", "string"}, properties : SUBSET STRING, closed : BOOLEAN,
         composed : BOOLEAN, examples : Seq(SUBSET STRING)])

VARIABLES
  dir,        \* the files of skills_dir
  next,       \* the file the loader is at
  loaded,     \* (name, version) -> the number of its file
  problems,   \* the files with a problem
  boot        \* "loading", "failed" (create_app raised) or "up"
skillVars == <<dir, next, loaded, problems, boot>>

\* int(path.stem); a stem that is no integer has none.
IntOf(stem) == CASE stem \in {"1", "01"} -> 1 [] stem = "2" -> 2 [] OTHER -> 0
IsInt(stem) == stem \in {"1", "01", "2"}

\* Draft7Validator: an example's output is always an object.
Conforms(output, f) == f.type # "string" /\ (f.closed => output \subseteq f.properties)

IsEmptyObjectSchema(f) == f.type # "string" /\ f.properties = {}

\* SkillYamlSchema.load_from_file returns; an OSError of the read is another matter.
Validates(f) ==
  /\ IsInt(f.stem)
  /\ f.defect = "none"
  /\ ~f.composed
  /\ ~IsEmptyObjectSchema(f)
  /\ f.examples # <<>> /\ \A k \in DOMAIN f.examples : Conforms(f.examples[k], f)
  /\ f.version = IntOf(f.stem)

KeyOf(f) == <<f.name, f.version>>

LoadInit ==
  /\ dir \in Directories /\ next = 1 /\ loaded = <<>> /\ boot = "loading"
  /\ problems = {k \in DOMAIN dir : dir[k].place = "stray"}

\* Mutant of Note: a file with a problem is skipped without a word.
Skip(k) ==
  /\ ~(Validates(dir[k]) /\ dir[k].dir = dir[k].name /\ KeyOf(dir[k]) \notin DOMAIN loaded)
  /\ UNCHANGED <<problems, loaded>>

\* The key in loaded is the code's key in origins.
Accept(k) ==
  /\ dir[k].dir = dir[k].name /\ KeyOf(dir[k]) \notin DOMAIN loaded
  /\ loaded' = [key \in DOMAIN loaded \cup {KeyOf(dir[k])} |-> IF key = KeyOf(dir[k]) THEN k ELSE loaded[key]]
  /\ UNCHANGED problems

Note(k) ==
  /\ ~(Validates(dir[k]) /\ dir[k].dir = dir[k].name /\ KeyOf(dir[k]) \notin DOMAIN loaded)
  /\ problems' = problems \cup {k} /\ UNCHANGED loaded

\* An OSError is not caught: it ends create_app at once.
LoadFile ==
  /\ boot = "loading" /\ next <= Len(dir)
  /\ LET f == dir[next]
         unreadable == f.place = "layout" /\ IsInt(f.stem) /\ f.defect = "unreadable"
     IN \/ unreadable /\ boot' = "failed" /\ UNCHANGED <<next, loaded, problems>>
        \/ /\ ~unreadable /\ next' = next + 1
           /\ IF f.place = "stray" THEN UNCHANGED <<loaded, problems>>
              ELSE (Validates(f) /\ Accept(next)) \/ Note(next)
           /\ UNCHANGED boot
  /\ UNCHANGED dir

LoadEnds ==
  /\ boot = "loading" /\ next > Len(dir)
  /\ boot' = IF problems # {} THEN "failed" ELSE "up"
  /\ UNCHANGED <<dir, next, loaded, problems>>

Load == LoadFile \/ LoadEnds

\* SkillManifest: the versions of a name, and lookup; none is 0.
Versions(name) == {key[2] : key \in {key \in DOMAIN loaded : key[1] = name}}

Latest(name) ==
  IF Versions(name) = {} THEN 0 ELSE CHOOSE v \in Versions(name) : \A w \in Versions(name) : w <= v

Lookup(name, version) ==
  LET v == IF version = "latest" THEN Latest(name) ELSE IntOf(version)
  IN IF v \in Versions(name) THEN loaded[<<name, v>>] ELSE 0

=============================================================================

---------------------------- MODULE ResourceFiles ----------------------------
(***************************************************************************)
(* How the raw provider finds and parses its manifests (provider/raw.go    *)
(* getResourceFiles and NewUnstructuredResources, util/utils.go            *)
(* FindFilesWithRegex, GetFilesFullPath and ReadFile), as operators over   *)
(* the application's sparse directory.                                     *)
(*                                                                         *)
(* A directory is a function from paths below it (sequences of entry       *)
(* names, <<>> being the directory itself) to what is there: "dir", a      *)
(* manifest that parses ("ok"), or a file yaml.Unmarshal rejects or finds  *)
(* empty ("bad").  Two levels are enough for a manifest in a              *)
(* subdirectory.  The regex ^.+\.(yaml|yml)$ is the set of names it        *)
(* matches.                                                                *)
(***************************************************************************)
EXTENDS Integers, Sequences, FiniteSets, SequencesExt

CONSTANTS
    Lexical,   \* every entry name, in the order filepath.Walk sorts them
    YamlNames, \* the names the regex matches
    RootName   \* the base name of the sparse directory itself

VARIABLE dir   \* the sparse directory as the worktree holds it

Names == ToSet(Lexical)

Paths == {<<n>> : n \in Names} \cup {<<n, m>> : n, m \in Names}

IsDir(t, p) == p = <<>> \/ t[p] = "dir"

(* Every directory of at most two levels: an entry below the top level     *)
(* sits in a directory.                                                    *)
Trees ==
    {t \in UNION {[D -> {"dir", "ok", "bad"}] : D \in SUBSET Paths} :
        \A p \in DOMAIN t : Len(p) = 2 => <<p[1]>> \in DOMAIN t /\ IsDir(t, <<p[1]>>)}

(* info.Name(): the base name of a visited path.                           *)
BaseName(p) == IF p = <<>> THEN RootName ELSE Last(p)

(* filepath.Walk: the path itself, then, for a directory, each entry in    *)
(* lexical order, walked in turn.                                          *)
RECURSIVE Walk(_, _)
Walk(t, p) ==
    <<p>> \o
    IF IsDir(t, p)
    THEN FoldLeft(LAMBDA acc, n : IF Append(p, n) \in DOMAIN t
                                  THEN acc \o Walk(t, Append(p, n)) ELSE acc,
                  <<>>, Lexical)
    ELSE <<>>

(* FindFilesWithRegex: info.Name() of every visited path the regex         *)
(* matches, directories included.                                          *)
FindFilesWithRegex(t) ==
    LET hits == SelectSeq(Walk(t, <<>>), LAMBDA p : BaseName(p) \in YamlNames)
    IN  [i \in 1..Len(hits) |-> BaseName(hits[i])]

(* GetFilesFullPath: filepath.Join(resourcePath, name).                    *)
GetFilesFullPath(names) == [i \in 1..Len(names) |-> <<names[i]>>]

(* ReadFile: os.ReadFile succeeds on a regular file only.                 *)
Readable(t, f) == f \in DOMAIN t /\ t[f] # "dir"

(* NewUnstructuredResources: ReadFile returns nil for a path that is not  *)
(* a regular file and yaml.Unmarshal dereferences it, a panic; *)
(* a file that does not parse or is empty is skipped.                      *)
NewUnstructuredResources(t, files) ==
    FoldLeft(LAMBDA acc, f :
                 IF acc.panic THEN acc
                 ELSE IF ~Readable(t, f)
                      THEN [acc EXCEPT !.panic = TRUE]
                      ELSE IF t[f] = "bad" THEN acc
                      ELSE [acc EXCEPT !.loaded = Append(acc.loaded, f)],
             [panic |-> FALSE, loaded |-> <<>>], files)

(* NewRawProvider from getResourceFiles on: no file found is an error.     *)
Load(t) ==
    LET files == GetFilesFullPath(FindFilesWithRegex(t))
        r     == NewUnstructuredResources(t, files)
    IN  [found |-> files # <<>>, panic |-> files # <<>> /\ r.panic, loaded |-> r.loaded]
-----------------------------------------------------------------------------
(* The worktree holds the sparse checkout of some revision; every later   *)
(* reset and checkout replaces it by another one.                          *)
Init == dir \in Trees

Checkout == dir' \in Trees

Spec == Init /\ [][Checkout]_dir

TypeOK == dir \in Trees
-----------------------------------------------------------------------------
(* spec.md 4.4.2: every .yaml/.yml file under the directory, recursively;  *)
(* those that parse are the resources.                                     *)
SpecFiles(t) == {p \in DOMAIN t : t[p] # "dir" /\ Last(p) \in YamlNames}

SpecResources(t) == {p \in SpecFiles(t) : t[p] = "ok"}

(* Whatever the checkout holds, NewRawProvider and the re-read of a new    *)
(* revision in RawProvider.Delivery read the manifests spec.md 4.4.2       *)
(* describes: they find a file exactly when one matches anywhere under the *)
(* directory, never panic, and parse every matching file, in a             *)
(* subdirectory too.                                                       *)
ResourceFilesMatchSpec ==
    LET r == Load(dir)
    IN  /\ r.found = (SpecFiles(dir) # {})
        /\ ~r.panic
        /\ ToSet(r.loaded) = SpecResources(dir)
====

------------------------------ MODULE NginxListens ------------------------------
(***************************************************************************)
(* The listens of an nginx configuration, found by walking its include     *)
(* tree (nginx_listen.rs walk_includes).                                   *)
(*                                                                         *)
(* A path is a directory and a name; Canon gives the file it stands for:   *)
(* with symbolic links several paths have the same.  A file is the set of  *)
(* the ports it listens on and the sequence of its includes; an include is *)
(* a directory, taken from the directory of the including path, and a name *)
(* or a pattern.  Names and patterns are sequences of characters because   *)
(* which files are read depends on how they are matched.                   *)
(***************************************************************************)
EXTENDS Naturals, Sequences

CONSTANTS
  Sorted,      \* the paths that may exist, in the order of PathBuf
  Root,        \* the path of nginx.conf
  Canon(_),    \* canonicalize
  Join(_, _),  \* a directory and a relative one
  Missing      \* in place of the contents of a file that does not exist

Paths == {Sorted[i] : i \in DOMAIN Sorted}

ASSUME PathsAssumption ==
  /\ Root \in Paths
  /\ \A path \in Paths :
       /\ path = [dir |-> path.dir, name |-> path.name]
       /\ path.name \in Seq({path.name[i] : i \in DOMAIN path.name}) /\ path.name # <<>>

Files == {Canon(path) : path \in Paths}

VARIABLES
  text,     \* contents of every file
  walk,     \* where the walk is
  todo,     \* loops over paths and includes to expand, in the order of the recursion
  visited,  \* the files that are not visited again
  read      \* what was read: path and contents

walkVars == <<text, walk, todo, visited, read>>

\* A loop over a set of paths, in their order; an include line.
Visits(paths) == [do |-> "visit", paths |-> paths]
Look(dir, includes) == [i \in DOMAIN includes |-> [do |-> "look", dir |-> dir, spec |-> includes[i]]]

WalkInit(trees) ==
  /\ text \in trees
  /\ walk = "idle" /\ todo = <<>> /\ visited = {} /\ read = <<>>

-------------------------------------------------------------------------------
(* Patterns.                                                               *)

\* Mutant: what follows a star is compared with the end of the name as it is.
MutGlobMatches(pattern, name) ==
  \/ pattern = name
  \/ \E i \in DOMAIN pattern :
       /\ pattern[i] = "*" /\ i <= Len(name) + 1
       /\ SubSeq(pattern, 1, i - 1) = SubSeq(name, 1, i - 1)
       /\ LET rest == SubSeq(pattern, i + 1, Len(pattern)) IN
            Len(rest) <= Len(name) /\ rest = SubSeq(name, Len(name) - Len(rest) + 1, Len(name))

\* glob_matches: <<j, from>> is in glob[i] if a call whose name starts at place `from' and
\* that has come to place i of the pattern and j of the name returns true.  A star calls
\* it for the rest of the pattern at every place of its own name, not only behind j.
Accepts(pattern, name) ==
  LET P == Len(pattern)
      N == Len(name)
      glob[i \in 1..(P + 1)] ==
        {e \in (1..(N + 1)) \X (1..(N + 1)) :
           IF i > P THEN e[1] > N
           ELSE IF pattern[i] = "*" THEN i = P \/ \E at \in e[2]..N : <<at, at>> \in glob[i + 1]
           ELSE e[1] <= N /\ pattern[i] \in {"?", name[e[1]]} /\ <<e[1] + 1, e[2]>> \in glob[i + 1]}
  IN  glob

glob_matches(pattern, name) == <<1, 1>> \in Accepts(pattern, name)[1]

\* What a pattern means to nginx: the places from which the name may go on for what is
\* left of the pattern.
Fits(pattern, name) ==
  LET P == Len(pattern)
      N == Len(name)
      fits[i \in 1..(P + 1)] ==
        {j \in 1..(N + 1) :
           IF i > P THEN j > N
           ELSE IF pattern[i] = "*" THEN \E l \in j..(N + 1) : l \in fits[i + 1]
           ELSE j <= N /\ pattern[i] \in {"?", name[j]} /\ j + 1 \in fits[i + 1]}
  IN  fits

Matches(pattern, name) == 1 \in Fits(pattern, name)[1]

IsPattern(name) == \E i \in DOMAIN name : name[i] \in {"*", "?"}

-------------------------------------------------------------------------------
(* The walk.                                                               *)

Readable(path) == path \in Paths /\ text[Canon(path)] # Missing

\* What read_dir lists: a link is there also when it leads nowhere.
Listed(path) == Readable(path) \/ Canon(path) # path

\* resolve_include, expand_glob: a name is taken as it is, a pattern stands for the
\* paths it matches in its directory.
Expand(dir, spec) ==
  LET base == Join(dir, spec.in) IN
  IF ~IsPattern(spec.name) THEN {[dir |-> base, name |-> spec.name]}
  ELSE {path \in Paths : /\ path.dir = base /\ Listed(path)
                         /\ glob_matches(spec.name, path.name)}

\* matches.sort(): the path the loop takes next.
Before(x, y) == \E i, j \in DOMAIN Sorted : i < j /\ Sorted[i] = x /\ Sorted[j] = y
First(paths) == CHOOSE path \in paths : \A other \in paths \ {path} : Before(path, other)

BeginWalk ==
  /\ walk = "idle"
  /\ walk' = "walk" /\ todo' = <<Visits({Root})>>
  /\ UNCHANGED <<text, visited, read>>

\* A file is read and its includes come next, before what is still to do.
ReadFile(path, rest) ==
  LET contents == text[Canon(path)] IN
  /\ visited' = visited \cup {Canon(path)}
  /\ read' = Append(read, [path |-> path, contents |-> contents])
  /\ todo' = Look(path.dir, contents.includes) \o rest
  /\ UNCHANGED walk

Fail == walk' = "error" /\ todo' = <<>> /\ UNCHANGED <<visited, read>>
Pass(rest) == todo' = rest /\ UNCHANGED <<walk, visited, read>>

Visiting == walk = "walk" /\ todo # <<>> /\ Head(todo).do = "visit"

\* Mutant: visited paths are remembered as they are written, without canonicalize.
MutVisitPath ==
  /\ Visiting /\ Head(todo).paths # {}
  /\ LET path == First(Head(todo).paths)
         rest == <<Visits(Head(todo).paths \ {path})>> \o Tail(todo)
     IN IF \E i \in DOMAIN read : read[i].path = path THEN Pass(rest)
        ELSE IF Readable(path) THEN ReadFile(path, rest) ELSE Fail
  /\ UNCHANGED text

\* walk_includes: a file that was visited is passed over, one that cannot be read ends
\* the walk.
VisitPath ==
  /\ Visiting /\ Head(todo).paths # {}
  /\ LET path == First(Head(todo).paths)
         rest == <<Visits(Head(todo).paths \ {path})>> \o Tail(todo)
     IN IF path \in Paths /\ Canon(path) \in visited THEN Pass(rest)
        ELSE IF Readable(path) THEN ReadFile(path, rest) ELSE Fail
  /\ UNCHANGED text

EndLoop ==
  /\ Visiting /\ Head(todo).paths = {}
  /\ Pass(Tail(todo)) /\ UNCHANGED text

\* An include is expanded when its line is reached.
LookAtInclude ==
  /\ walk = "walk" /\ todo # <<>> /\ Head(todo).do = "look"
  /\ todo' = <<Visits(Expand(Head(todo).dir, Head(todo).spec))>> \o Tail(todo)
  /\ UNCHANGED <<text, walk, visited, read>>

EndWalk ==
  /\ walk = "walk" /\ todo = <<>>
  /\ walk' = "done" /\ UNCHANGED <<text, todo, visited, read>>

WalkNext == BeginWalk \/ VisitPath \/ EndLoop \/ LookAtInclude \/ EndWalk

\* parse_listen_ports_from_conf: the union of what was read.
FoundPorts == UNION {read[i].contents.ports : i \in DOMAIN read}

-------------------------------------------------------------------------------
(* Properties.                                                             *)

\* The paths an include of nginx stands for, and those it reads: Root and what is
\* included from a path it reads.
Includes(dir, spec) ==
  {q \in Paths : /\ q.dir = Join(dir, spec.in)
                 /\ IF IsPattern(spec.name) THEN Listed(q) /\ Matches(spec.name, q.name)
                    ELSE q.name = spec.name}

IncludedBy(path) ==
  IF ~Readable(path) THEN {}
  ELSE LET specs == text[Canon(path)].includes
       IN  UNION {Includes(path.dir, specs[i]) : i \in DOMAIN specs}

FollowsIncludes(paths) == Root \in paths /\ \A path \in paths : IncludedBy(path) \subseteq paths

NginxReads ==
  {q \in Paths : \A paths \in SUBSET Paths : FollowsIncludes(paths) => q \in paths}

\* The ports nginx listens on.
NginxListensOn == UNION {text[Canon(q)].ports : q \in {r \in NginxReads : Readable(r)}}

\* No file is read twice, whatever links and cycles there are (nginx_listen.rs
\* walk_includes, visit_key): each listen is reported once and the walk ends.
ReadOnce ==
  \A i, j \in DOMAIN read : Canon(read[i].path) = Canon(read[j].path) => i = j
===============================================================================

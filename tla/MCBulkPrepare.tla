------------------------------ MODULE MCBulkPrepare ------------------------------
(***************************************************************************)
(* A small configuration: /etc/m is nginx.conf, /etc/d holds a, ab and b,  *)
(* of which b is a link to ab or, if ab is missing, dangles.               *)
(***************************************************************************)
EXTENDS BulkPrepare

Path(dir, name) == [dir |-> dir, name |-> name]

conf == Path("etc", <<"m">>)
a    == Path("etc/d", <<"a">>)
ab   == Path("etc/d", <<"a", "b">>)
b    == Path("etc/d", <<"b">>)

InOrder == <<a, ab, b, conf>>
Follow(path) == IF path = b THEN ab ELSE path

\* The paths of one file lie in one directory.
ASSUME OneDirectory == \A x, y \in DOMAIN InOrder :
  Follow(InOrder[x]) = Follow(InOrder[y]) => InOrder[x].dir = InOrder[y].dir

\* "/" starts an absolute specification, "." is the directory itself.
InDir(dir, rel) ==
  CASE rel = "."    -> dir
    [] rel = "/etc" -> "etc"
    [] rel = "d" /\ dir = "etc" -> "etc/d"
    [] OTHER -> "nowhere"

Inc1(in, name) == [in |-> in, name |-> name]
File(ports, includes) == [ports |-> ports, includes |-> includes]

ConfChoices ==
  {Missing} \cup {File({}, includes) : includes \in
     {<<Inc1("d", <<"*">>)>>,
      <<Inc1("d", <<"a", "*">>), Inc1("d", <<"b">>)>>,
      <<Inc1("d", <<"a">>)>>,
      <<Inc1("d", <<"*", "b">>)>>}}
AChoices ==
  {Missing, File({2}, <<>>), File({2}, <<Inc1("/etc", <<"m">>)>>), File({2}, <<Inc1(".", <<"?", "b">>)>>)}
AbChoices ==
  {Missing, File({4}, <<>>), File({4}, <<Inc1("/etc", <<"m">>)>>), File({}, <<Inc1(".", <<"*">>)>>)}

AllTrees ==
  {[f \in {conf, a, ab} |-> CASE f = conf -> x [] f = a -> y [] f = ab -> z] :
     x \in ConfChoices, y \in AChoices, z \in AbChoices}

SomeRequests ==
  [op : {"fill"}, start : {0, 1, 4, 6}, count : {0, 2, 3, 6}, skip : {{}, {2, 7}, U16}]
    \cup [op : {"bulk"}, specs : {<<>>, <<<<2, 2>>>>, <<<<5, 7>>, <<3, 3>>, <<6, 6>>>>,
                                  <<<<1, 1>>, <<4, 3>>>>, <<<<3, 4>>, <<0, 0>>>>,
                                  <<<<1, 2>>, <<5, 7>>, <<3, 3>>>>}]
===============================================================================

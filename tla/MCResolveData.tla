---------------------------- MODULE MCResolveData ---------------------------
(***************************************************************************)
(* Instances of ResolveData for TLC: names {a, b}, indices 0..1, and one  *)
(* leaf of each kind heval tells apart: a plain string, a value == ""     *)
(* (0 or false), a getter naming b, a setter and an unmatched "h~".        *)
(***************************************************************************)
EXTENDS ResolveData, TLC

CONSTANTS nm_a, nm_b, v1, vz, get_b, set_a, hmisc, flt_a

(* The property names of testjs/bands.js, and its one getter.             *)
CONSTANTS version, count, beatles, stones, references, tags, style, music,
          genres, core, other, name, instruments, get_ref

BandNames == {version, count, beatles, stones, references, tags, style, music,
              genres, core, other, name, instruments}

MCNames == {nm_a, nm_b} \cup BandNames

MCPlain == {v1}
MCLoose == {vz}
MCGetExpr == (get_b :> <<"'", nm_b, "'">>)   \* "h~<-${'b'}"
             @@ (get_ref :> <<"'", beatles, "/", core, "[", "0", "]", "/", instruments, "'">>)
MCLeafVals == {v1, vz, get_b, set_a, hmisc, get_ref}

(* The filter "^a": the navKey starts with the name a.                    *)
MCAccept(f, p, v) == p # <<>> /\ p[1].name = nm_a

(* The getters of document d name a leaf, or nothing, in d: a getter that *)
(* names an object stores that object itself in the clone.                 *)
NamesNoObject(d) ==
    LET l == Load(d, <<>>)
    IN \A g \in DOMAIN MCGetExpr :
         LET r == hdataRun(l[2], htrimChar(MCGetExpr[g], <<"'">>), l[1], NULL, NoIdx)
         IN ~r.ok \/ isPrim(r.t) \/ r.t > Len(l[2])

(* Objects and arrays of up to 4 nodes over plain leaves, getters, setters *)
(* and the unmatched "h~", whose getters name no object.                  *)
SoundDocs == {d \in DocsOver(4, {v1, get_b, set_a, hmisc, NULL}, {nm_a, nm_b}) :
                 ~isPrim(d) /\ NamesNoObject(d)}

(* Objects and arrays of up to 3 nodes over the plain leaf and the leaf    *)
(* == "".                                                                  *)
PlainDocs == {d \in DocsOver(3, {v1, vz}, {nm_a, nm_b}) : ~isPrim(d)}

(* The bands literal of testjs/bands.js, with every string and number the *)
(* plain leaf and every array cut to its first MaxIdx + 1 elements.  "The  *)
(* Rolling References" holds the getter                                    *)
(* "h~<-${'The Beatles/Core Members[0]/instruments'}", which names an      *)
(* array of "The Beatles".                                                 *)
Obj(ks, kids) == Composite(FALSE, ks, kids)
Arr(kids) == Composite(TRUE, [i \in DOMAIN kids |-> i - 1], kids)
Member(instr) == Obj(<<name, instruments>>, <<v1, instr>>)
Members == Arr(<<Member(Arr(<<v1, v1>>)), Member(Arr(<<v1, v1>>))>>)
Bands ==
    Obj(<<version, count, beatles, stones, references>>,
        <<v1, v1,
          Obj(<<tags, core, other>>,
              <<Obj(<<style>>, <<Obj(<<music>>, <<Obj(<<genres>>, <<Arr(<<v1, v1>>)>>)>>)>>),
                Members, Members>>),
          Obj(<<core, other>>, <<Members, Members>>),
          Obj(<<core>>, <<Arr(<<Member(get_ref)>>)>>)>>)

BandsDocs == SoundDocs \cup {Bands}
=============================================================================

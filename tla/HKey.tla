-------------------------------- MODULE HKey --------------------------------
(***************************************************************************)
(* Path keys as strings: how recurseData writes a key and how hdata reads  *)
(* one back (heliosjs/helios.hdata.js).                                    *)
(*                                                                         *)
(* A key string is a sequence of tokens: a property name of Names is one   *)
(* token (names never hold '/', '[' or ']'), the empty name "" is no       *)
(* token at all, an array index is its decimal digit, and "/", "[" and "]" *)
(* are themselves.  The String.prototype helpers, split and join, the      *)
(* name[index] regex of setTarget and the join-and-replace that builds     *)
(* navKey are operators on such sequences.                                 *)
(***************************************************************************)
EXTENDS NavMap

ASSUME MaxIdx <= 9          \* one digit per index: "\d+" reads one token

Digit(j)  == ToString(j)
DigitTok  == {Digit(j) : j \in Idx}
Tokens    == Names \cup DigitTok \cup {"/", "[", "]"}
Slash     == <<"/">>

(* The positions of s holding "/", ascending.                              *)
SlashesOf(s) == SelectSeq([i \in DOMAIN s |-> i], LAMBDA i : s[i] = "/")

(* The text of a property key: "" for the empty name, "0" for index 0.     *)
KeyText(k) == CASE k = EmptyName -> <<>>
                [] k \in Idx     -> <<Digit(k)>>
                [] OTHER         -> <<k>>

(* The property key a text names, the inverse of KeyText.                  *)
KeyOf(s) == CHOOSE k \in Keys : KeyText(k) = s

(* String.prototype.hstartsWith, lines 309-311: indexOf(str) === 0.        *)
hstartsWith(s, t) == IsPrefix(t, s)

(* String.prototype.hreverse, lines 344-346.                               *)
hreverse(s) == Reverse(s)

(* String.prototype.hendsWith, lines 322-324: the reversed string starts   *)
(* with t, which is "ends with" only for a t of one character.             *)
hendsWith(s, t) == hstartsWith(hreverse(s), t)

RECURSIVE TrimLeading(_, _), TrimTrailing(_, _)
TrimLeading(s, t) ==
    IF hstartsWith(s, t) THEN TrimLeading(SubSeq(s, Len(t) + 1, Len(s)), t) ELSE s
TrimTrailing(s, t) ==
    IF hendsWith(s, t) THEN TrimTrailing(SubSeq(s, 1, Len(s) - Len(t)), t) ELSE s

(* String.prototype.htrimChar(t), lines 356-367: for a non-empty string,   *)
(* strip t from the front while it starts with t, then from the back       *)
(* while it ends with t.                                                   *)
htrimChar(s, t) == IF s = <<>> THEN s ELSE TrimTrailing(TrimLeading(s, t), t)

(* s.split('/'): the pieces between separators; "".split('/') is [""].     *)
Split(s) ==
    LET cut == <<0>> \o SlashesOf(s) \o <<Len(s) + 1>>
    IN [i \in 1..Len(cut) - 1 |-> SubSeq(s, cut[i] + 1, cut[i + 1] - 1)]

(* parts.join('/'); [].join('/') is "".                                    *)
Join(parts) ==
    IF parts = <<>> THEN <<>>
    ELSE FlattenSeq([i \in 1..2 * Len(parts) - 1 |->
                         IF i % 2 = 1 THEN parts[(i + 1) \div 2] ELSE Slash])

(* The match of setTarget's regex on a segment, lines 130-132: a group of *)
(* any characters, "[", a group of digits, "]"; unanchored and greedy,     *)
(* so the last "[digit]" of the segment is the index, the text before it   *)
(* the name, and anything after it is ignored; without a match the whole   *)
(* segment is the name.                                                    *)
SegOf(s) ==
    LET at == {i \in 1..Len(s) - 2 : s[i] = "[" /\ s[i + 1] \in DigitTok /\ s[i + 2] = "]"}
    IN IF at = {} THEN [name |-> KeyOf(s), idx |-> NoIdx]
       ELSE LET i == Max(at)
            IN [name |-> KeyOf(SubSeq(s, 1, i - 1)), idx |-> KeyOf(<<s[i + 1]>>)]

(* ctx.join("/").replace(/\/\[/g, "["), lines 66 and 84: the context holds *)
(* a property name for every property and "[j]" for every array element.  *)
NavKey(p) ==
    LET ctx == FlattenSeq([i \in DOMAIN p |->
                   IF p[i].idx = NoIdx THEN <<KeyText(p[i].name)>>
                   ELSE <<KeyText(p[i].name), <<"[", Digit(p[i].idx), "]">> >>])
        s   == Join(ctx)
        out == SelectSeq([i \in DOMAIN s |-> i],
                         LAMBDA i : ~(s[i] = "/" /\ i < Len(s) /\ s[i + 1] = "["))
    IN [i \in DOMAIN out |-> s[out[i]]]

(* One recursion of hdata(nKey, ...), lines 241-248: the segments of the   *)
(* trimmed key; setTarget gets the first, and the rest, joined and         *)
(* trimmed again, is the key of the next recursion.  The test for the end  *)
(* (line 242) is on the untrimmed key.                                     *)
KeySegs(k)    == Split(htrimChar(k, Slash))
KeyRest(segs) == htrimChar(Join(Tail(segs)), Slash)

-----------------------------------------------------------------------------
(***************************************************************************)
(* The key grammar of the specification (section 6): leading and trailing *)
(* '/' are ignored; the rest is empty (the whole target) or segments       *)
(* separated by single '/', each an identifier optionally followed by      *)
(* "[index]"; an identifier is one or more characters other than '/' and  *)
(* '['.  SpecPath is the reference parse of a key that conforms.           *)
(***************************************************************************)
SpecBody(k) ==
    LET in == {i \in DOMAIN k : k[i] # "/"}
    IN IF in = {} THEN <<>> ELSE SubSeq(k, Min(in), Max(in))

SpecPieces(k) ==
    LET b   == SpecBody(k)
        sep == <<0>> \o SlashesOf(b) \o <<Len(b) + 1>>
    IN IF b = <<>> THEN <<>>
       ELSE [i \in 1..Len(sep) - 1 |-> SubSeq(b, sep[i] + 1, sep[i + 1] - 1)]

SpecSeg(s) ==
    IF Len(s) = 1 THEN [name |-> KeyOf(s), idx |-> NoIdx]
    ELSE [name |-> KeyOf(<<s[1]>>), idx |-> KeyOf(<<s[3]>>)]

(* A key the grammar accepts, for identifiers of one token.                *)
SpecConforms(k) ==
    \A i \in DOMAIN SpecPieces(k) :
        LET s == SpecPieces(k)[i]
        IN \/ Len(s) = 1 /\ s[1] \in Names \cup DigitTok
           \/ Len(s) = 4 /\ s[1] \in Names \cup DigitTok /\ s[2] = "["
              /\ s[3] \in DigitTok /\ s[4] = "]"

SpecPath(k) == [i \in DOMAIN SpecPieces(k) |-> SpecSeg(SpecPieces(k)[i])]

=============================================================================

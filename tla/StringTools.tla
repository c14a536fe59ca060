---------------------------- MODULE StringTools -----------------------------
(***************************************************************************)
(* The functions of src/utils/StringTools.cpp that take a string apart or  *)
(* change it, each as the loop it is.  A string is a sequence of           *)
(* characters without NUL; a position counts from 0, as in the code.       *)
(***************************************************************************)
EXTENDS Integers, SequencesExt

CONSTANTS
    Lower,      \* tolower, a function on the characters
    Room,       \* sizeof(TokCopy): 512 in strtokcmp
    Calls       \* the calls: records of fn and the arguments fn takes

(***************************************************************************)
(* stringSplit never returns for an empty splitter, and no null pointers   *)
(* are passed: those return at once.                                       *)
(***************************************************************************)
Functions ==
    {"stringSplit", "RemoveDoubleSlashs", "removeCharFromString", "FullpathToFilename",
     "str_replace", "strtokcmp", "strextcmp", "EndsWith", "byte_to_binary"}

StringAssumption ==
    /\ Room \in Nat \ {0}
    /\ "/" \in DOMAIN Lower /\ \A c \in DOMAIN Lower : Lower[Lower[c]] = Lower[c]
    /\ \A c \in Calls :
         /\ c.fn \in Functions
         /\ c.fn # "byte_to_binary" => c.text \in Seq(DOMAIN Lower)
         /\ c.fn \in {"stringSplit", "str_replace"} => c.by \in Seq(DOMAIN Lower) \ {<<>>}
         /\ c.fn = "str_replace" => c.with \in Seq(DOMAIN Lower)

VARIABLES
    call,       \* the call
    pc,         \* the loop that runs, or "done"
    rest,       \* the string the loop works on
    out,        \* what it has built: characters, or the parts of stringSplit
    i,          \* its index or pointer
    n,          \* its second one: length, count, Filename or z
    room,       \* what str_replace allocated
    ret         \* the int or BOOL that is returned; -1 for NULL too

vars == <<call, pc, rest, out, i, n, room, ret>>

Init ==
    /\ call \in Calls
    /\ pc = call.fn
    /\ rest = IF call.fn = "byte_to_binary" THEN <<>> ELSE call.text
    /\ out = <<>>
    /\ i = IF call.fn = "RemoveDoubleSlashs" THEN 1 ELSE 0
    /\ n = CASE call.fn = "RemoveDoubleSlashs" -> Len(call.text)
             [] call.fn = "byte_to_binary" -> 128
             [] OTHER -> 0
    /\ room = 0 /\ ret = 0

From(s, k) == SubSeq(s, k + 1, Len(s))
To(s, k) == SubSeq(s, 1, k)

Occurrences(p, s) == {k \in 0 .. Len(s) - Len(p) : IsPrefix(p, From(s, k))}

\* string::find and strstr: -1 for npos and NULL.
Find(p, s) ==
    LET at == Occurrences(p, s)
    IN IF at = {} THEN -1 ELSE CHOOSE k \in at : \A j \in at : k <= j

Erase(s, k) == RemoveAt(s, k + 1)
SameCaseless(s, t) == [k \in DOMAIN s |-> Lower[s[k]]] = [k \in DOMAIN t |-> Lower[t[k]]]

Return(value) == pc' = "done" /\ ret' = value

-----------------------------------------------------------------------------

\* The branch for a splitter that reaches behind the end cannot be taken.
Split ==
    /\ pc = "stringSplit"
    /\ LET at == Find(call.by, rest)
           next == at + Len(call.by)
       IN IF at = -1 THEN out' = Append(out, rest) /\ Return(0) /\ UNCHANGED rest
          ELSE IF next = Len(rest)
          THEN out' = out \o <<To(rest, at), <<>> >> /\ Return(0) /\ UNCHANGED rest
          ELSE out' = Append(out, To(rest, at)) /\ rest' = From(rest, next) /\ UNCHANGED <<pc, ret>>
    /\ UNCHANGED <<call, i, n, room>>

\* After an erase i-- and ++i leave the index where it was.
RemoveSlash ==
    /\ pc = "RemoveDoubleSlashs"
    /\ IF i >= n THEN Return(0) /\ UNCHANGED <<rest, i, n>>
       ELSE /\ IF rest[i] = "/" /\ rest[i + 1] = "/"
               THEN rest' = Erase(rest, i) /\ n' = n - 1 /\ UNCHANGED i
               ELSE i' = i + 1 /\ UNCHANGED <<rest, n>>
            /\ UNCHANGED <<pc, ret>>
    /\ UNCHANGED <<call, out, room>>

RemoveChar ==
    /\ pc = "removeCharFromString"
    /\ LET position == Find(<<call.toBeRemoved>>, rest)
       IN IF position = -1 THEN Return(0) /\ UNCHANGED rest
          ELSE rest' = Erase(rest, position) /\ UNCHANGED <<pc, ret>>
    /\ UNCHANGED <<call, out, i, n, room>>

NextName ==
    /\ pc = "FullpathToFilename"
    /\ IF i = Len(rest) THEN Return(0) /\ UNCHANGED <<i, n>>
       ELSE /\ i' = i + 1
            /\ n' = IF rest[i + 1] = "/" /\ i + 1 < Len(rest) THEN i + 1 ELSE n
            /\ UNCHANGED <<pc, ret>>
    /\ UNCHANGED <<call, rest, out, room>>

-----------------------------------------------------------------------------
(***************************************************************************)
(* str_replace: count, allocate, then copy; i is `ins', the place where    *)
(* the count goes on, and n the count.                                     *)
(***************************************************************************)

CountOne ==
    /\ pc = "str_replace"
    /\ LET at == Find(call.by, From(rest, i))
       IN /\ at # -1
          /\ i' = i + at + Len(call.by)
    /\ n' = n + 1
    /\ UNCHANGED <<call, pc, rest, out, room, ret>>

ResultSize == Len(rest) + (Len(call.with) - Len(call.by)) * n + 1

Allocate ==
    /\ pc = "str_replace" /\ Find(call.by, From(rest, i)) = -1
    /\ \/ room' = ResultSize /\ pc' = "replace" /\ UNCHANGED ret
       \/ Return(-1) /\ UNCHANGED room
    /\ UNCHANGED <<call, rest, out, i, n>>

ReplaceOne_NoSkip ==
    /\ pc = "replace" /\ n > 0
    /\ LET at == Find(call.by, rest)
       IN /\ out' = out \o To(rest, at) \o call.with
          /\ rest' = From(rest, at + 1)
    /\ n' = n - 1
    /\ UNCHANGED <<call, pc, i, room, ret>>

ReplaceOne ==
    /\ pc = "replace" /\ n > 0
    /\ LET at == Find(call.by, rest)
       IN /\ out' = out \o To(rest, at) \o call.with
          /\ rest' = From(rest, at + Len(call.by))
    /\ n' = n - 1
    /\ UNCHANGED <<call, pc, i, room, ret>>

CopyRest ==
    /\ pc = "replace" /\ n = 0
    /\ out' = out \o rest
    /\ Return(0)
    /\ UNCHANGED <<call, rest, i, n, room>>

-----------------------------------------------------------------------------
\* strncpy fills TokCopy and its last byte is cleared.
TokCopy ==
    /\ pc = "strtokcmp"
    /\ rest' = To(call.text, IF Len(call.text) < Room THEN Len(call.text) ELSE Room - 1)
    /\ pc' = "token"
    /\ UNCHANGED <<call, out, i, n, room, ret>>

\* strtok: separators are skipped, then characters up to the next one taken.
TokenStart(s) == SelectInSeq(s, LAMBDA c : c \notin call.separator)
Token(s) ==
    LET t == From(s, TokenStart(s) - 1)
        stop == SelectInSeq(t, LAMBDA c : c \in call.separator)
    IN IF stop = 0 THEN t ELSE To(t, stop - 1)

NextToken ==
    /\ pc = "token"
    /\ IF TokenStart(rest) = 0 THEN Return(-1) /\ UNCHANGED rest
       ELSE IF SameCaseless(call.string, Token(rest)) THEN Return(0) /\ UNCHANGED rest
       ELSE /\ rest' = From(rest, TokenStart(rest) + Len(Token(rest)))
            /\ UNCHANGED <<pc, ret>>
    /\ UNCHANGED <<call, out, i, n, room>>

\* strrchr is the last place the separator is at.
StrExtCmp ==
    /\ pc = "strextcmp"
    /\ LET ptr == SelectLastInSeq(rest, LAMBDA c : c = call.separator)
       IN Return(IF ptr # 0 /\ SameCaseless(From(rest, ptr), call.extension) THEN 0 ELSE -1)
    /\ UNCHANGED <<call, rest, out, i, n, room>>

EndsWith ==
    /\ pc = "EndsWith"
    /\ LET over == Len(rest) - Len(call.b)
       IN Return(IF over >= 0 /\ \A k \in DOMAIN call.b : rest[over + k] = call.b[k] THEN 1 ELSE 0)
    /\ UNCHANGED <<call, rest, out, i, n, room>>

\* The bit of a two's complement number that has the value z.
HasBit(x, z) == (x \div z) % 2 = 1

BinaryDigit ==
    /\ pc = "byte_to_binary"
    /\ IF n = 0 THEN Return(0) /\ UNCHANGED <<out, n>>
       ELSE /\ out' = Append(out, IF HasBit(call.x, n) THEN 1 ELSE 0)
            /\ n' = n \div 2
            /\ UNCHANGED <<pc, ret>>
    /\ UNCHANGED <<call, rest, i, room>>

Done == pc = "done" /\ UNCHANGED vars

Step ==
    \/ Split \/ RemoveSlash \/ RemoveChar \/ NextName
    \/ CountOne \/ Allocate \/ ReplaceOne \/ CopyRest
    \/ TokCopy \/ NextToken \/ StrExtCmp \/ EndsWith \/ BinaryDigit

Next == Step \/ Done

Spec == Init /\ [][Next]_vars /\ WF_vars(Step)

-----------------------------------------------------------------------------
\* Every variable keeps its type: in particular no index or count wraps below
\* zero and z stays a power of two.
TypeOK ==
    /\ call \in Calls
    /\ pc \in {call.fn, "replace", "token", "done"}
    /\ rest \in Seq(DOMAIN Lower)
    /\ pc # "stringSplit" \/ \A k \in DOMAIN out : out[k] \in Seq(DOMAIN Lower)
    /\ i \in Nat /\ n \in Nat /\ room \in Nat /\ ret \in {-1, 0, 1}

Finished(fn) == pc = "done" /\ call.fn = fn

\* The parts with the splitter between them.
Joined(parts, by) ==
    parts[1] \o FlattenSeq([k \in 1 .. Len(parts) - 1 |-> by \o parts[k + 1]])

\* stringSplit loses nothing: its parts with the splitter between them are the
\* string, also when it ends with a splitter or two overlap, and no part holds
\* the splitter.
PartsRejoin ==
    Finished("stringSplit") =>
        /\ Joined(out, call.by) = call.text
        /\ \A k \in DOMAIN out : Occurrences(call.by, out[k]) = {}

\* RemoveDoubleSlashs drops the slashes that follow a slash and no other
\* character, removeCharFromString every copy of one character: erasing while
\* the loop runs neither skips a character nor loses one.
ErasesJustThose ==
    LET Keep(P(_)) == [k \in DOMAIN call.text |-> IF P(k) THEN <<call.text[k]>> ELSE <<>>] IN
    /\ Finished("RemoveDoubleSlashs") =>
         rest = FlattenSeq(Keep(LAMBDA k : k = 1 \/ call.text[k] # "/" \/ call.text[k - 1] # "/"))
    /\ Finished("removeCharFromString") =>
         rest = FlattenSeq(Keep(LAMBDA k : call.text[k] # call.toBeRemoved))

\* FullpathToFilename returns the tail of the path that follows its last slash,
\* apart from a slash that ends the path.
NameFollowsSlash ==
    Finished("FullpathToFilename") =>
        /\ n # 0 => rest[n] = "/"
        /\ \A k \in n + 1 .. Len(rest) - 1 : rest[k] # "/"

\* What str_replace copies, the NUL behind each piece included, stays in the
\* block it allocated, and in the end fills it: the two passes find the same
\* occurrences.
ReplaceFits ==
    call.fn = "str_replace" /\ room # 0 =>
        /\ Len(out) + 1 <= room
        /\ pc = "done" => Len(out) + 1 = room

\* One scan from left to right: skip counts the characters of an occurrence.
Replaced(text, by, with) ==
    FoldLeftDomain(LAMBDA scan, k :
            IF scan.skip > 0 THEN [scan EXCEPT !.skip = @ - 1]
            ELSE IF IsPrefix(by, From(text, k - 1))
            THEN [skip |-> Len(by) - 1, built |-> scan.built \o with]
            ELSE [scan EXCEPT !.built = Append(@, text[k])],
        [skip |-> 0, built |-> <<>>], text).built

\* str_replace replaces every occurrence, the leftmost first, and nothing else.
ReplacesAll ==
    Finished("str_replace") /\ ret = 0 =>
        out = Replaced(call.text, call.by, call.with)

\* A list that fits strtokcmp's copy is searched whole: the answer is whether
\* some maximal run without separators is the string, case apart.
FindsToken ==
    Finished("strtokcmp") /\ Len(call.text) < Room =>
        LET list == call.text
            Cut(k) == k \in {0, Len(list) + 1} \/ (k \in DOMAIN list /\ list[k] \in call.separator)
        IN ret = 0 <=>
            \E a, b \in 0 .. Len(list) + 1 :
                /\ a + 1 < b /\ Cut(a) /\ Cut(b)
                /\ \A k \in a + 1 .. b - 1 : ~Cut(k)
                /\ SameCaseless(call.string, SubSeq(list, a + 1, b - 1))

\* strextcmp accepts an extension exactly when the name ends with the separator
\* and the extension, and EndsWith is that question without the case.
ComparesEnds ==
    /\ Finished("strextcmp") =>
         (ret = 0 <=>
            /\ \A k \in DOMAIN call.extension : call.extension[k] # call.separator
            /\ \E s \in Suffixes(call.text) : SameCaseless(s, <<call.separator>> \o call.extension))
    /\ Finished("EndsWith") => (ret = 1 <=> IsSuffix(call.b, call.text))

\* byte_to_binary writes eight digits, the low byte of any int, negative ones too.
DigitsOfByte ==
    Finished("byte_to_binary") =>
        /\ Len(out) = 8
        /\ FoldLeft(LAMBDA v, d : 2 * v + d, 0, out) = call.x % 256
=============================================================================

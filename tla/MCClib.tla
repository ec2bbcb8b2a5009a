------------------------------- MODULE MCClib -------------------------------
(***************************************************************************)
(* The inputs that Clib is checked on, and what its routines are compared  *)
(* with.                                                                   *)
(***************************************************************************)
EXTENDS Clib

BoundedStrings(chars, n) == UNION {[1..k -> chars] : k \in 0..n}
Flags == {<<>>, <<48>>, <<45>>}
Widths == {[text |-> <<>>, width |-> 0], [text |-> <<51>>, width |-> 3],
           [text |-> <<49, 49>>, width |-> 11]}
Bar == 124
Signed == -(2^(Width - 1))..(2^(Width - 1) - 1)
Unsigned == 0..(2^Width - 1)
Args(conv) == IF conv = "d" THEN Signed ELSE Unsigned

(* "%<flag><width><conv>|%<last conversion>"                               *)
LastFields == {[conv |-> "d", arg |-> -10, text |-> <<45, 49, 48>>],
               [conv |-> "s", arg |-> <<104, 105>>, text |-> <<104, 105>>],
               [conv |-> "c", arg |-> 97, text |-> <<97>>]}
Printf(flag, w, conv, v, last) ==
    [op |-> "printf", flag |-> flag, width |-> w.width, conv |-> conv, last |-> last.text,
     fmt |-> <<<<Percent>>, flag \o w.text, conv, <<Bar>>, <<Percent>>, <<>>, last.conv>>,
     ap |-> <<v, last.arg>>]

MCPrints == UNION {{Printf(flag, w, conv, v, last) : v \in Args(conv)} :
    flag \in Flags, w \in Widths, conv \in {"d", "x", "u", "p"}, last \in LastFields}
MCSorts == {[op |-> "sort", a |-> a] : a \in BoundedStrings(1..3, 5) \union [1..6 -> 1..2]}
MCSplits == {[op |-> "tokens", s |-> s, delim |-> delim] :
    s \in BoundedStrings({44, 59, 97}, 5), delim \in {{44}, {44, 59}}}
MCChdirs == {                       \* "..", "/", "", ".", "a", "bc", "a/", "/a", "a/b",
    Dots, <<47>>, <<>>, <<46>>,     \* "./a", "../a", "a/.."
    <<97>>, <<98, 99>>, <<97, 47>>, <<47, 97>>, <<97, 47, 98>>,
    <<46, 47, 97>>, <<46, 46, 47, 97>>, <<97, 47, 46, 46>>}
MCBufSizes == 1..(CwdMax + 1)

-----------------------------------------------------------------------------
(* The digits of n, and the field C's printf gives them: the prefix is a   *)
(* minus sign or 0x, and zeros go between prefix and digits.               *)
Hex == <<48, 49, 50, 51, 52, 53, 54, 55, 56, 57, 65, 66, 67, 68, 69, 70>>
Digits(n, radix) ==
    LET count == CHOOSE d \in 1..(Width + 1) : n < radix^d /\ (d = 1 \/ n >= radix^(d - 1))
    IN [i \in 1..count |-> Hex[((n \div radix^(count - i)) % radix) + 1]]
Field(flag, width, prefix, text) ==
    LET pad(c) == [i \in 1..(width - Len(prefix) - Len(text)) |-> c]
    IN CASE flag = <<45>> -> prefix \o text \o pad(32)
         [] flag = <<48>> -> prefix \o pad(48) \o text
         [] OTHER -> pad(32) \o prefix \o text
Prefix(r) ==
    IF r.conv = "p" THEN <<48, 120>> ELSE IF r.ap[1] < 0 THEN <<45>> ELSE <<>>
NumberField(r) ==
    LET v == IF r.ap[1] < 0 THEN -r.ap[1] ELSE r.ap[1]
    IN Field(r.flag, r.width, Prefix(r), Digits(v, IF r.conv \in {"d", "u"} THEN 10 ELSE 16))

(* The number that is shown, and what comes after the bar.                 *)
Shown == SubSeq(res, 1, SelectInSeq(res, LAMBDA c : c = Bar) - 1)
After == Drop(res, SelectInSeq(res, LAMBDA c : c = Bar))

(* printf: a d or x field shows its argument in radix 10 or 16 at its      *)
(* width, the smallest number too (_itoa notes an overflow there), and a p *)
(* field without a width the address; the next field is never disturbed;   *)
(* and atoi() reads a number that is not negative back.  Not u, and no     *)
(* negative number padded with zeros: see below.                           *)
NumbersShown ==
    req.op = "printf" =>
        /\ \/ req.conv = "d" /\ (req.ap[1] >= 0 \/ req.flag # <<48>>)
           \/ req.conv = "x"
           \/ req.conv = "p" /\ req.width = 0
           => Shown = NumberField(req)
        /\ After = req.last
        /\ req.conv = "d" /\ req.ap[1] >= 0 => atoi(Shown) = req.ap[1]

(* strtok() called until it returns NULL gives the runs of characters      *)
(* between delimiters, in order, none of them empty.                       *)
Fields(s, delim) ==
    LET inside(i) == i \in 1..Len(s) /\ s[i] \notin delim
        starts == {i \in 1..Len(s) : inside(i) /\ ~ inside(i - 1)}
        ends(i) == CHOOSE j \in i..Len(s) :
                       (\A k \in i..j : inside(k)) /\ ~ inside(j + 1)
    IN [n \in 1..Cardinality(starts) |->
           LET i == CHOOSE i \in starts : Cardinality(starts \cap (1..i)) = n
           IN SubSeq(s, i, ends(i))]
TokensAreFields ==
    req.op = "tokens" /\ res.found = 0 => req.tokens = Fields(req.s, req.delim)

(* qsort() sorts ("without fully test", says its comment) and keeps the    *)
(* elements.                                                               *)
QsortSorts ==
    req.op = "sort" =>
        /\ \A i \in 1..(Len(res) - 1) : res[i] <= res[i + 1]
        /\ Len(res) = Len(req.a)
        /\ \A v \in 1..3 : Cardinality({i \in DOMAIN res : res[i] = v})
                           = Cardinality({i \in DOMAIN req.a : req.a[i] = v})

(* The directory that a path leads to from the directory from: a sequence  *)
(* of names, on a disk without symbolic links.                             *)
Enter(d, name) ==
    IF name = <<46>> THEN d
    ELSE IF name = Dots THEN (IF d = <<>> THEN <<>> ELSE Front(d))
    ELSE Append(d, name)
LeadsTo(from, path) ==
    FoldLeft(Enter, IF At(path, 1) = Slash THEN <<>> ELSE from, Fields(path, {Slash}))

(* The last name of the text is a plain one, or there is none.             *)
Plain(path) ==
    \/ path = <<Slash>>
    \/ path[Len(path)] # Slash /\ Last(Fields(path, {Slash})) \notin {<<46>>, Dots}

(* Whatever chdir() calls came before, chdir(path) leaves the path of the  *)
(* directory that path leads to from the one before, an absolute one and   *)
(* never the empty string, unless path is ".." and the text being cut ends *)
(* in a slash, "." or "..".  get_path() names what a relative path means,  *)
(* and getcwd() returns the path if the buffer has room for the NUL.       *)
CwdNamesDirectory ==
    /\ At(cwd, 1) = Slash
    /\ req.op = "chdir" /\ (req.path = Dots => Plain(req.from)) =>
          LeadsTo(<<>>, cwd) = LeadsTo(LeadsTo(<<>>, req.from), req.path)
    /\ \A path \in Chdirs :
          LeadsTo(<<>>, get_path(path)) = LeadsTo(LeadsTo(<<>>, cwd), path)
    /\ req.op = "getcwd" /\ req.size > Len(cwd) =>
          res = cwd \o [i \in 1..(req.size - Len(cwd)) |-> 0]

-----------------------------------------------------------------------------
(* What the code means to do and does not.                                 *)

(* The u conversion is decimal: (c=='u') ? 10 : 16.  It is hexadecimal,    *)
(* because c is the percent sign.                                          *)
UnsignedIsDecimal == req.op = "printf" /\ req.conv = "u" => Shown = NumberField(req)

(* Every d or p field is C's.  Zeros are put before the minus sign, and    *)
(* the padding of an address between 0x and its digits.                    *)
SignsPadded == req.op = "printf" /\ req.conv \in {"d", "p"} => Shown = NumberField(req)

(* chdir("..") goes up by one directory, whatever came before.  After      *)
(* chdir("a/") or chdir(".") it only cuts the end of the text.             *)
DotsGoUp ==
    req.op = "chdir" => LeadsTo(<<>>, cwd) = LeadsTo(LeadsTo(<<>>, req.from), req.path)

=============================================================================

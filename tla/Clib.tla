-------------------------------- MODULE Clib --------------------------------
(***************************************************************************)
(* The text routines of the kernel: printf (lolibc/stdio.c), strings and   *)
(* qsort (lolibc/string.c), atoi (lolibc/stdlib.c), and the working        *)
(* directory of core/syscall.c that is built from them.  A string is a     *)
(* sequence of character codes without its NUL.  Loops are recursive       *)
(* operators.                                                              *)
(***************************************************************************)
EXTENDS Integers, Sequences, SequencesExt

CONSTANTS
    Width,      \* bits of uint_t
    Prints, Sorts, Splits,     \* the calls to make: see Next
    Chdirs, BufSizes,
    CwdMax      \* bound: characters of a working directory

ASSUME ClibAssumption == Width \in Nat \ {0} /\ CwdMax \in Nat

VARIABLES cwd,      \* p->cwd
          req, res  \* the call made and its result

vars == <<cwd, req, res>>

Max2(a, b) == IF a > b THEN a ELSE b
At(s, i) == IF i \in 1..Len(s) THEN s[i] ELSE 0      \* the NUL behind s
Drop(s, n) == SubSeq(s, n + 1, Len(s))

-----------------------------------------------------------------------------
(* Numbers.  The table holds 0..9 and A..F.                                *)
_itoa_table == [i \in 0..15 |-> IF i < 10 THEN 48 + i ELSE 55 + i]
to_upper(c) == IF c \in 97..122 THEN c - 32 ELSE c
get_itoa_table_index(ch, len) ==
    LET found == {i \in 0..((IF len < 16 THEN len ELSE 16) - 1) : _itoa_table[i] = ch}
    IN IF found = {} THEN -1 ELSE CHOOSE i \in found : TRUE

(* The digits come out last first, and are then reversed in place.         *)
RECURSIVE digits(_, _)
digits(value, radix) ==
    IF value = 0 THEN <<>>
    ELSE <<_itoa_table[value % radix]>> \o digits(value \div radix, radix)
_uitoa(value, radix) == IF value = 0 THEN <<48>> ELSE Reverse(digits(value, radix))

(* -value wraps for the smallest number, and is right as an unsigned one.  *)
NotNegated(value) == value % 2^Width                    \* variant: no value = -value
Magnitude(value) == (-value) % 2^Width
_itoa(value) ==
    IF value < 0 THEN <<45>> \o _uitoa(Magnitude(value), 10) ELSE _uitoa(value, 10)

RECURSIVE _uatoi_from(_, _, _, _)
_uatoi_from(s, i, radix, value) ==
    LET bit_value == get_itoa_table_index(to_upper(At(s, i)), radix)
    IN IF bit_value < 0 THEN [n |-> i - 1, value |-> value]
       ELSE _uatoi_from(s, i + 1, radix, (value * radix + bit_value) % 2^Width)
_uatoi(s, radix) == _uatoi_from(s, 1, radix, 0)

RECURSIVE atoi_from(_, _)
atoi_from(s, x) ==
    IF At(s, 1) \notin 48..57 THEN x ELSE atoi_from(Tail(s), x * 10 + Head(s) - 48)
RECURSIVE atoi(_)
atoi(s) == IF At(s, 1) = 32 THEN atoi(Tail(s)) ELSE atoi_from(s, 0)

-----------------------------------------------------------------------------
(* printf.                                                                 *)
FLAG_NOP == 0
FLAG_ZERO == 1
FLAG_LEFT == 2
get_fmt_flag(c) ==
    IF c = 48 THEN [n |-> 1, flag |-> FLAG_ZERO]
    ELSE IF c = 45 THEN [n |-> 1, flag |-> FLAG_LEFT]
    ELSE [n |-> 0, flag |-> FLAG_NOP]

copy_fmt_str(buf, flag, num) ==
    LET remain == Max2(Len(buf), num) - Len(buf)
        fill(c) == [i \in 1..remain |-> c]
    IN IF flag = FLAG_LEFT THEN buf \o fill(32)
       ELSE fill(IF flag = FLAG_ZERO THEN 48 ELSE 32) \o buf

(* One conversion: the prefix that goes to dst at once, and buf.  c is the *)
(* percent sign where the radix is chosen, so u is printed like x.         *)
Percent == 37
Conversion(conv, arg) ==
    CASE conv = "c" -> [pre |-> <<>>, buf |-> <<arg>>]
      [] conv = "s" -> [pre |-> <<>>, buf |-> arg]
      [] conv = "d" -> [pre |-> <<>>, buf |-> _itoa(arg)]
      [] conv = "p" -> [pre |-> <<48, 120>>, buf |-> _uitoa(arg, 16)]
      [] conv \in {"u", "x"} -> [pre |-> <<>>, buf |-> _uitoa(arg, 16)]
Letters == {"c", "s", "d", "p", "u", "x"}

(* A format is a sequence of characters and conversion letters.            *)
RECURSIVE vsprintf(_, _)
vsprintf(fmt, ap) ==
    IF fmt = <<>> THEN <<>>
    ELSE IF Head(fmt) # <<Percent>> THEN Head(fmt) \o vsprintf(Tail(fmt), ap)
    ELSE LET f == get_fmt_flag(At(fmt[2], 1))
             w == _uatoi(Drop(fmt[2], f.n), 10)
             field == Conversion(fmt[3], Head(ap))
         IN field.pre \o copy_fmt_str(field.buf, f.flag, w.value)
                \o vsprintf(Drop(fmt, 3), Tail(ap))

-----------------------------------------------------------------------------
(* Strings.                                                                *)
RECURSIVE strncmp(_, _, _)
strncmp(s1, s2, n) ==
    IF At(s1, 1) # 0 /\ At(s1, 1) = At(s2, 1) /\ n > 1
    THEN strncmp(Tail(s1), Tail(s2), n - 1)
    ELSE At(s1, 1) - At(s2, 1)
strcmp(s1, s2) == strncmp(s1, s2, 1024)

(* strncpy() fills up with NUL, and leaves a full buffer without one.      *)
strncpy(src, n) == [i \in 1..n |-> At(src, i)]

RECURSIVE strspn(_, _)
strspn(s, accept) ==
    IF s = <<>> \/ Head(s) \notin accept THEN 0 ELSE 1 + strspn(Tail(s), accept)
RECURSIVE strcspn(_, _)
strcspn(s, reject) ==
    IF s = <<>> \/ Head(s) \in reject THEN 0 ELSE 1 + strcspn(Tail(s), reject)

(* strtok(): sbegin is what is left of the string, lasts the rest after    *)
(* the token; found is 0 for NULL.                                         *)
NotSkipped(s, delim) == s               \* variant: no strspn()
Skipped(s, delim) == Drop(s, strspn(s, delim))
strtok(sbegin, delim) ==
    LET s == Skipped(sbegin, delim)
        n == strcspn(s, delim)
    IN IF s = <<>> THEN [found |-> 0, token |-> <<>>, lasts |-> <<>>]
       ELSE [found |-> 1, token |-> SubSeq(s, 1, n), lasts |-> Drop(s, n + 1)]

-----------------------------------------------------------------------------
(* qsort() of the num elements of a from index base on.                    *)
Swap(a, i, j) == [a EXCEPT ![i] = a[j], ![j] = a[i]]
RECURSIVE scan_left(_, _, _, _)
scan_left(a, pivot, left, right) ==
    IF left <= right /\ a[left] - a[pivot] <= 0
    THEN scan_left(a, pivot, left + 1, right) ELSE left
RECURSIVE scan_right(_, _, _, _)
scan_right(a, pivot, left, right) ==
    IF left <= right /\ a[right] - a[pivot] > 0
    THEN scan_right(a, pivot, left, right - 1) ELSE right
RECURSIVE partition(_, _, _, _)
partition(a, pivot, left, right) ==
    IF left > right THEN [a |-> a, right |-> right]
    ELSE LET l == scan_left(a, pivot, left, right)
             r == scan_right(a, pivot, l, right)
         IN IF l < r THEN partition(Swap(a, l, r), pivot, l + 1, r - 1)
            ELSE partition(a, pivot, l, r)
PivotStays(a, base, right) == a         \* variant: the pivot is not moved
PivotMoved(a, base, right) == Swap(a, base, right)
RECURSIVE qsort(_, _, _)
qsort(a, base, num) ==
    IF num <= 1 THEN a
    ELSE LET part == partition(a, base, base + 1, base + num - 1)
             placed == PivotMoved(part.a, base, part.right)
             left_size == part.right - base
         IN qsort(qsort(placed, base, left_size), part.right + 1, num - left_size - 1)

-----------------------------------------------------------------------------
(* The working directory.                                                  *)
Slash == 47
Dots == <<46, 46>>
get_path(ref_path) ==
    IF At(ref_path, 1) = Slash THEN ref_path
    ELSE (IF strcmp(cwd, <<Slash>>) # 0 THEN cwd \o <<Slash>> ELSE cwd) \o ref_path

(* sys_chdir("..") cuts at the last slash, unless it is the first one.     *)
CutAtFirst(path) ==                 \* variant: the root's slash is cut, too
    SubSeq(path, 1, SelectLastInSeq(path, LAMBDA c : c = Slash) - 1)
Parent(path) ==
    LET i == SelectLastInSeq(path, LAMBDA c : c = Slash)
    IN IF i <= 1 THEN <<Slash>> ELSE SubSeq(path, 1, i - 1)
newpath(path) == IF strcmp(path, Dots) = 0 THEN Parent(cwd) ELSE get_path(path)

-----------------------------------------------------------------------------
Bin == <<47, 98, 105, 110>>         \* "/bin", where user_init() puts the shell
NoRequest == [op |-> "none"]
Init == cwd = Bin /\ req = NoRequest /\ res = <<>>

MayAsk == req = NoRequest /\ cwd = Bin
Ask(r, answer) == req' = r /\ res' = answer /\ UNCHANGED cwd
Sprintf == MayAsk /\ \E r \in Prints : Ask(r, vsprintf(r.fmt, r.ap))
Sort == MayAsk /\ \E r \in Sorts : Ask(r, qsort(r.a, 1, Len(r.a)))

(* strtok() with the string, then with NULL until it returns NULL.         *)
Token == MayAsk /\ \E r \in Splits :
    Ask(r @@ [tokens |-> <<>>], strtok(r.s, r.delim))
NextToken ==
    /\ req.op = "tokens" /\ res.found = 1
    /\ req' = [req EXCEPT !.tokens = Append(@, res.token)]
    /\ res' = strtok(res.lasts, req.delim)
    /\ UNCHANGED cwd

(* sys_chdir() accepts every path; getcwd() copies into size bytes.        *)
sys_chdir ==
    /\ req = NoRequest
    /\ \E path \in Chdirs :
        /\ Len(newpath(path)) <= CwdMax
        /\ cwd' = newpath(path)
        /\ req' = [op |-> "chdir", path |-> path, from |-> cwd]
    /\ res' = 0
sys_getcwd ==
    /\ req = NoRequest
    /\ \E n \in BufSizes : req' = [op |-> "getcwd", size |-> n] /\ res' = strncpy(cwd, n)
    /\ UNCHANGED cwd

(* The caller has used the result.                                         *)
Done ==
    /\ req # NoRequest /\ (req.op = "tokens" => res.found = 0)
    /\ req' = NoRequest /\ res' = <<>>
    /\ UNCHANGED cwd

Next ==
    \/ Sprintf \/ Sort \/ Token \/ NextToken
    \/ sys_chdir \/ sys_getcwd \/ Done

Spec == Init /\ [][Next]_vars

=============================================================================

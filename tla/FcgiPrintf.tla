----------------------------- MODULE FcgiPrintf -----------------------------
(***************************************************************************)
(* FCGX_VFPrintF (fcgiapp.c): formatted output to a stream.  Each          *)
(* conversion specifier is first taken for a simple one (the fast path)    *)
(* and, if it is not, scanned again in full (the slow path); the two take  *)
(* their arguments from the same list, and sprintf writes into buffers     *)
(* whose size is estimated before.                                         *)
(*                                                                         *)
(* A format is a sequence of directives: text, or a conversion whose       *)
(* record also says what its argument is like.  Characters are counted and *)
(* not represented.                                                        *)
(***************************************************************************)
EXTENDS Integers, Sequences, FiniteSets

CONSTANT Formats   \* the formats an application uses

PRINTF_BUFFLEN == 100
FMT_BUFFLEN == 25
MaxNumber == 999999        \* numbers in a specifier have up to six digits
LongestInteger == 46       \* what an unmodified %d, %u, %c or %p makes at most
DBL_MAX_EXP == 1024        \* the largest binary exponent of a double

Ops == {"d", "u", "c", "s", "p", "n", "f", "e", "%", "bad", "end"}
Sizes == {"none", "l", "h", "L"}   \* sizeModifier: none is a blank in the code
\* A width or a precision: absent, written in the format or an argument.
Numbers == [by : {"none"}, v : {0}] \cup [by : {"digits"}, v : Nat] \cup [by : {"star"}, v : Int]

\* Text has op "text" and len characters.  For a conversion, flags is the number of
\* flag characters and len the length of what an unmodified sprintf makes of the
\* argument: that of the string for %s, 0 for %c of a NUL.  For %f it is the binary
\* exponent, of the value rounded to the precision of a double.
Directives == [op : Ops \cup {"text"}, size : Sizes, flags : Nat, width : Numbers,
               prec : Numbers, len : Nat]

ASSUME FormatsAssumption ==
    \A fmt \in Formats :
        /\ fmt \in Seq(Directives)
        /\ \A k \in 1..Len(fmt) :
               /\ fmt[k].op = "text" => fmt[k].len > 0
               /\ fmt[k].op \in {"d", "u", "c", "p"} => fmt[k].len <= LongestInteger
               /\ fmt[k].op = "f" /\ fmt[k].size # "L" => fmt[k].len <= DBL_MAX_EXP

VARIABLES
    format, f,         \* the format, and the directive that is next
    fastPath,
    arg,               \* arguments taken by va_arg
    minWidth, precision,
    fmtLen,            \* characters in fmtBuff
    buffLen, auxBuffLen,   \* auxBuffLen = 0: auxBuffPtr is NULL
    buffCount, streamCount,
    stored,            \* what %n has stored (Unset: nothing)
    at,
    sent               \* history: bytes FCGX_PutStr has taken

scan == <<minWidth, precision, fmtLen>>
printfVars == <<format, f, fastPath, arg, scan, buffLen, auxBuffLen, buffCount, streamCount, stored, at, sent>>

Unset == -1
Max2(a, b) == IF a >= b THEN a ELSE b
Min2(a, b) == IF a <= b THEN a ELSE b
ABS(n) == IF n < 0 THEN -n ELSE n

Cur == format[f]

PrintfInit ==
    /\ format \in Formats
    /\ f = 1 /\ fastPath = TRUE /\ arg = 0
    /\ minWidth = 0 /\ precision = -1 /\ fmtLen = 1
    /\ buffLen = PRINTF_BUFFLEN /\ auxBuffLen = 0 /\ buffCount = 0 /\ streamCount = 0
    /\ stored = Unset /\ at = "loop" /\ sent = 0

\* ErrorReturn, and the free of NormalReturn.
ErrorReturn ==
    /\ streamCount' = -1
    /\ auxBuffLen' = 0
    /\ at' = "return"

-----------------------------------------------------------------------------
(* Text.                                                                   *)

Text ==
    /\ at = "loop"
    /\ f <= Len(format) /\ Cur.op = "text"
    /\ f' = f + 1
    /\ streamCount' = streamCount + Cur.len
    /\ sent' = sent + Cur.len
    /\ UNCHANGED <<format, fastPath, arg, scan, buffLen, auxBuffLen, buffCount, stored, at>>

\* FCGX_PutStr fails, having taken none or some of the bytes.
Text_Fail ==
    /\ at = "loop"
    /\ f <= Len(format) /\ Cur.op = "text"
    /\ sent' \in {sent, sent + Cur.len - 1}
    /\ ErrorReturn
    /\ UNCHANGED <<format, f, fastPath, arg, scan, buffLen, buffCount, stored>>

\* A specifier: the fast path uses neither width nor precision.
Percent ==
    /\ at = "loop"
    /\ f <= Len(format) /\ Cur.op # "text"
    /\ fastPath' = TRUE
    /\ minWidth' = 0 /\ precision' = -1
    /\ fmtLen' = IF Cur.size = "none" THEN 2 ELSE 3
    /\ buffLen' = PRINTF_BUFFLEN
    /\ at' = "convert"
    /\ UNCHANGED <<format, f, arg, auxBuffLen, buffCount, streamCount, stored, sent>>

NormalReturn ==
    /\ at = "loop"
    /\ f > Len(format)
    /\ auxBuffLen' = 0
    /\ at' = "return"
    /\ UNCHANGED <<format, f, fastPath, arg, scan, buffLen, buffCount, streamCount, stored, sent>>

-----------------------------------------------------------------------------
(* The slow path.                                                          *)

PowersOfTen == <<10, 100, 1000, 10000, 100000, 1000000, 10000000, 100000000, 1000000000>>

\* The characters of an int in decimal.
Digits(n) == (IF n < 0 THEN 1 ELSE 0) + 1 + Cardinality({k \in 1..9 : ABS(n) >= PowersOfTen[k]})

TooLarge(x) == x.by # "none" /\ (IF x.by = "star" THEN ABS(x.v) ELSE x.v) > MaxNumber

\* A precision that is given and negative counts as 0.
GivenPrecision == IF Cur.prec.by = "none" THEN -1 ELSE Max2(Cur.prec.v, 0)

\* More than five flags, or a number that is too large.
Slow_Refuse ==
    /\ at = "slow"
    /\ Cur.flags > 5 \/ TooLarge(Cur.width) \/ (Cur.prec.v > 0 /\ TooLarge(Cur.prec))
    /\ ErrorReturn
    /\ UNCHANGED <<format, f, fastPath, arg, scan, buffLen, buffCount, stored, sent>>

\* fmtBuff gets the specifier with the arguments for * in place.
Slow_Scan ==
    /\ at = "slow"
    /\ Cur.flags <= 5 /\ ~TooLarge(Cur.width) /\ ~(Cur.prec.v > 0 /\ TooLarge(Cur.prec))
    /\ arg' = arg + (IF Cur.width.by = "star" THEN 1 ELSE 0) + (IF Cur.prec.by = "star" THEN 1 ELSE 0)
    /\ minWidth' = IF Cur.width.by = "none" THEN 0 ELSE Cur.width.v
    /\ precision' = GivenPrecision
    /\ fmtLen' = 1 + Cur.flags + (IF Cur.width.by = "none" THEN 0 ELSE Digits(Cur.width.v))
                   + (IF Cur.prec.by = "none" THEN 0 ELSE 1 + Digits(GivenPrecision))
                   + (IF Cur.size = "none" THEN 0 ELSE 1) + 1
    /\ at' = "bound"
    /\ UNCHANGED <<format, f, fastPath, buffLen, auxBuffLen, buffCount, streamCount, stored, sent>>

\* %n, %% and unknown operations, and %f of a size that is no floating type.
Bound_Refuse ==
    /\ at = "bound"
    /\ Cur.op \in {"n", "%", "bad", "end"} \/ (Cur.op = "f" /\ Cur.size \notin {"none", "L"})
    /\ ErrorReturn
    /\ UNCHANGED <<format, f, fastPath, arg, scan, buffLen, buffCount, stored, sent>>

\* A long double that becomes an infinite double; frexp then gives no exponent above 0.
BeyondDouble == Cur.op = "f" /\ Cur.size = "L" /\ Cur.len > DBL_MAX_EXP
DoubleExponent == IF BeyondDouble THEN 0 ELSE Cur.len

\* Mutant: the exponent of %f is not looked at.
ConversionBound_noExponent(p) ==
    CASE Cur.op \in {"d", "u", "c", "p"} -> Max2(p, LongestInteger)
      [] Cur.op = "s" -> IF p = -1 THEN Cur.len ELSE Min2(p, Cur.len)
      [] Cur.op = "f" -> p + 3
      [] Cur.op = "e" -> p + 8

\* What sprintf needs at most, but for the width.
ConversionBound(p) ==
    CASE Cur.op \in {"d", "u", "c", "p"} -> Max2(p, LongestInteger)
      [] Cur.op = "s" -> IF p = -1 THEN Cur.len ELSE Min2(p, Cur.len)
      [] Cur.op = "f" -> p + 3 + DoubleExponent \div 3
      [] Cur.op = "e" -> p + 8

DefaultPrecision == IF Cur.op \in {"f", "e"} /\ precision = -1 THEN 6 ELSE precision

buffReqd == Max2(ConversionBound(DefaultPrecision) + 10, minWidth)

\* The argument of %s and %f is taken for the bound.
Bounded ==
    /\ at = "bound"
    /\ Cur.op \notin {"n", "%", "bad", "end"} /\ ~(Cur.op = "f" /\ Cur.size \notin {"none", "L"})
    /\ arg' = IF Cur.op \in {"s", "f"} THEN arg + 1 ELSE arg
    /\ precision' = DefaultPrecision

\* A buffer is allocated when neither the one on the stack nor the one allocated
\* before is large enough.
Bound ==
    /\ Bounded
    /\ auxBuffLen' = IF buffReqd <= PRINTF_BUFFLEN THEN auxBuffLen ELSE Max2(auxBuffLen, buffReqd)
    /\ buffLen' = IF buffReqd <= PRINTF_BUFFLEN THEN PRINTF_BUFFLEN ELSE auxBuffLen'
    /\ at' = "convert"
    /\ UNCHANGED <<format, f, fastPath, minWidth, fmtLen, buffCount, streamCount, stored, sent>>

\* There is no memory: the ASSERT of Malloc aborts the process or, in a build
\* without assertions, the function returns.
Bound_NoMemory ==
    /\ Bounded
    /\ buffReqd > PRINTF_BUFFLEN /\ buffReqd > auxBuffLen
    /\ \/ ErrorReturn
       \/ at' = "abort" /\ auxBuffLen' = 0 /\ UNCHANGED streamCount
    /\ UNCHANGED <<format, f, fastPath, minWidth, fmtLen, buffLen, buffCount, stored, sent>>

-----------------------------------------------------------------------------
(* The switch.                                                             *)

\* The sizes each operation is implemented for.
SizesOf(op) == CASE op \in {"d", "u", "n"} -> {"none", "l", "h"}
                 [] op \in {"c", "s", "p", "%"} -> {"none"}
                 [] op \in {"f", "e"} -> {"none", "L"}
                 [] OTHER -> {}

\* On the fast path a specifier with flags, width or precision shows a character
\* that is no operation.
Simple == Cur.flags = 0 /\ Cur.width.by = "none" /\ Cur.prec.by = "none"

\* Mutant: the fast path takes the argument of %f before it gives up.
Convert_Again_takes ==
    /\ at = "convert"
    /\ fastPath /\ (~Simple \/ Cur.op \in {"f", "bad"})
    /\ arg' = IF Cur.op = "f" THEN arg + 1 ELSE arg
    /\ fastPath' = FALSE
    /\ at' = "slow"
    /\ UNCHANGED <<format, f, scan, buffLen, auxBuffLen, buffCount, streamCount, stored, sent>>

\* The fast path does not do: once more, on the slow path.
Convert_Again ==
    /\ at = "convert"
    /\ fastPath /\ (~Simple \/ Cur.op \in {"f", "bad"})
    /\ fastPath' = FALSE
    /\ at' = "slow"
    /\ UNCHANGED <<format, f, arg, scan, buffLen, auxBuffLen, buffCount, streamCount, stored, sent>>

Performs == ~fastPath \/ (Simple /\ Cur.op \notin {"f", "bad"})

Convert_Refuse ==
    /\ at = "convert"
    /\ Performs
    /\ Cur.size \notin SizesOf(Cur.op)
    /\ ErrorReturn
    /\ UNCHANGED <<format, f, fastPath, arg, scan, buffLen, buffCount, stored, sent>>

\* The digits of the integral part of a number with binary exponent e.
IntegralDigits(e) == (e * 30103) \div 100000 + 1

\* What sprintf writes at most, but for the width: a sign, a prefix and a point are
\* always counted.
Natural(p) ==
    CASE Cur.op \in {"d", "u"} -> Max2(Cur.len, p + 2)
      [] Cur.op = "c" -> 1
      [] Cur.op = "p" -> Cur.len
      [] Cur.op = "s" -> IF p = -1 THEN Cur.len ELSE Min2(p, Cur.len)
      [] Cur.op = "f" -> 1 + IntegralDigits(Cur.len) + 1 + p
      [] Cur.op = "e" -> (IF p = -1 THEN 6 ELSE p) + 8

\* What sprintf has written, without the NUL at the end.
Wrote == CASE Cur.op = "n" -> 0
           [] Cur.op = "%" -> 1
           [] OTHER -> Max2(ABS(minWidth), Natural(precision))

\* What strlen makes of it: a NUL that %c has written comes before the blanks of the
\* width when a flag or its sign says so, and else after them.
Strlen(n) ==
    IF Cur.op = "c" /\ Cur.len = 0
    THEN IF minWidth < 0 THEN {0} ELSE IF Cur.flags = 0 THEN {n - 1} ELSE {0, n - 1}
    ELSE {n}

\* %n.
Convert_Count ==
    /\ at = "convert"
    /\ Performs /\ Cur.op = "n" /\ Cur.size \in SizesOf("n")
    /\ arg' = arg + 1
    /\ stored' = streamCount
    /\ buffCount' = 0
    /\ at' = "put"
    /\ UNCHANGED <<format, f, fastPath, scan, buffLen, auxBuffLen, streamCount, sent>>

\* All others; %s and %f on the slow path have their argument already, and %s on the
\* fast path is not copied to a buffer.
Convert ==
    /\ at = "convert"
    /\ Performs /\ Cur.op # "n" /\ Cur.size \in SizesOf(Cur.op)
    /\ arg' = IF Cur.op = "%" \/ (Cur.op \in {"s", "f"} /\ ~fastPath) THEN arg ELSE arg + 1
    /\ buffCount' \in Strlen(Wrote)
    /\ buffLen' = IF Cur.op = "s" /\ fastPath THEN Cur.len + 1 ELSE buffLen
    /\ at' = "put"
    /\ UNCHANGED <<format, f, fastPath, scan, auxBuffLen, streamCount, stored, sent>>

\* ASSERT(buffCount < buffLen) fails.
Put_Assert ==
    /\ at = "put"
    /\ buffCount >= buffLen
    /\ at' = "abort"
    /\ UNCHANGED <<format, f, fastPath, arg, scan, buffLen, auxBuffLen, buffCount, streamCount, stored, sent>>

\* The characters go to the stream, and the scan goes on behind the specifier; so
\* it does, without assertions, when sprintf has written past its buffer.
Put ==
    /\ at = "put"
    /\ sent' = sent + buffCount
    /\ streamCount' = streamCount + buffCount
    /\ f' = f + 1
    /\ at' = "loop"
    /\ UNCHANGED <<format, fastPath, arg, scan, buffLen, auxBuffLen, buffCount, stored>>

\* Mutant: the result of FCGX_PutStr is not looked at.
Put_Fail_ignored ==
    /\ at = "put"
    /\ buffCount > 0
    /\ sent' \in {sent, sent + buffCount - 1}
    /\ streamCount' = streamCount + buffCount
    /\ f' = f + 1
    /\ at' = "loop"
    /\ UNCHANGED <<format, fastPath, arg, scan, buffLen, auxBuffLen, buffCount, stored>>

Put_Fail ==
    /\ at = "put"
    /\ buffCount > 0
    /\ sent' \in {sent, sent + buffCount - 1}
    /\ ErrorReturn
    /\ UNCHANGED <<format, f, fastPath, arg, scan, buffLen, buffCount, stored>>

PrintfNext == \/ Text \/ Text_Fail \/ Percent \/ NormalReturn
        \/ Slow_Refuse \/ Slow_Scan \/ Bound_Refuse \/ Bound \/ Bound_NoMemory
        \/ Convert_Again \/ Convert_Refuse \/ Convert_Count \/ Convert
        \/ Put_Assert \/ Put \/ Put_Fail

PrintfSpec == PrintfInit /\ [][PrintfNext]_printfVars

-----------------------------------------------------------------------------
\* The types of the module's variables.
PrintfTypeOK ==
    /\ format \in Formats /\ f \in Nat /\ fastPath \in BOOLEAN /\ arg \in Nat
    /\ minWidth \in Int /\ precision \in Int /\ fmtLen \in Nat
    /\ buffLen \in Nat /\ auxBuffLen \in Nat /\ buffCount \in Nat
    /\ streamCount \in Int /\ stored \in Int /\ sent \in Nat
    /\ at \in {"loop", "slow", "bound", "convert", "put", "return", "abort"}

\* The arguments a directive has in C.
ArgsOf(d) == IF d.op = "text" THEN 0
             ELSE (IF d.width.by = "star" THEN 1 ELSE 0) + (IF d.prec.by = "star" THEN 1 ELSE 0)
                      + (IF d.op \in {"%", "bad", "end"} THEN 0 ELSE 1)

\* The sum of the numbers before the k-th.
SumBefore(s, k) ==
    LET sum[j \in 0..Len(s)] == IF j = 0 THEN 0 ELSE sum[j - 1] + s[j] IN sum[k - 1]

ArgsBefore(k) == SumBefore([j \in 1..Len(format) |-> ArgsOf(format[j])], k)

\* "TRUE iff the op/sizeModifier were executed and argument consumed": whichever
\* path formats a conversion, and whether its argument is read to bound the
\* buffer or to convert it, the next directive finds its own argument.
ArgumentsInStep == at = "loop" => arg = ArgsBefore(f)

\* What a directive makes in C, where a negative precision counts as none and the
\* NUL of %c is a character like any other.
LengthOf(d) ==
    IF d.op = "text" THEN d.len
    ELSE IF d.op = "n" THEN 0
    ELSE IF d.op = "%" THEN 1
    ELSE LET p == IF d.prec.by = "none" \/ d.prec.v < 0 THEN -1 ELSE d.prec.v
             natural == CASE d.op \in {"d", "u"} -> Max2(d.len, p + 2)
                          [] d.op = "c" -> 1
                          [] d.op = "p" -> d.len
                          [] d.op = "s" -> IF p = -1 THEN d.len ELSE Min2(p, d.len)
                          [] d.op = "f" -> 2 + IntegralDigits(d.len) + (IF p = -1 THEN 6 ELSE p)
                          [] d.op = "e" -> 8 + (IF p = -1 THEN 6 ELSE p)
                          [] OTHER -> 0
         IN  Max2(ABS(IF d.width.by = "none" THEN 0 ELSE d.width.v), natural)

LengthBefore(k) == SumBefore([j \in 1..Len(format) |-> LengthOf(format[j])], k)

\* The directives that FCGX_VFPrintF does not print as C does: %c of a NUL, where
\* strlen stops, and a negative argument for the precision, which counts as 0.
AsInC(d) == ~(d.op = "c" /\ d.len = 0) /\ ~(d.prec.by = "star" /\ d.prec.v < 0)
AllAsInC == \A k \in 1..Len(format) : AsInC(format[k])

\* "Number of bytes written for normal return, EOF (-1) if an error occurred": a
\* result that is not EOF is what the stream has taken, wherever strlen has stopped;
\* for directives that are printed as in C it is what C prints for the whole format,
\* and %n stores the count up to its place; and the buffer is freed.
CountHonest ==
    /\ at = "return" =>
           /\ auxBuffLen = 0
           /\ streamCount # -1 =>
                  streamCount = sent /\ (AllAsInC => streamCount = LengthBefore(Len(format) + 1))
    /\ stored # Unset /\ AllAsInC =>
           \E k \in 1..Len(format) : format[k].op = "n" /\ stored = LengthBefore(k)

\* "ASSERT(fmtBuffPtr - fmtBuff < FMT_BUFFLEN)" holds, and what sprintf writes stays
\* within the buffer chosen for it up to these limits, long doubles beyond the range
\* of a double apart: with a width below PRINTF_BUFFLEN, of either sign, it fits
\* with its NUL; with a width from there on, which is not negative, no more than the
\* NUL comes after the end; and it is the width alone that can be too large, whatever
\* the argument and the precision.
FormatFits ==
    /\ fmtLen < FMT_BUFFLEN
    /\ at = "put" /\ ~BeyondDouble =>
           /\ ABS(minWidth) < PRINTF_BUFFLEN => Wrote < buffLen
           /\ minWidth >= 0 => Wrote <= buffLen
           /\ Wrote >= buffLen => Wrote = ABS(minWidth)

=============================================================================

-------------------------------- MODULE Strings --------------------------------
(***************************************************************************)
(* The strings of the engine (src/js/jsstr.c): flat ones that own a        *)
(* buffer, dependent ones that show a part of another string, and a        *)
(* concatenation that takes over the buffer of its left operand.  Empty    *)
(* strings, which all operations return early for, are left out.           *)
(***************************************************************************)
EXTENDS Naturals, SequencesExt, FiniteSets

CONSTANTS Strings, Buffers,   \* GC-things and malloc's blocks
          Literals,           \* the characters a new string may have
          MaxStart, MaxSlice, \* JSSTRDEP_START_MASK, JSSTRDEP_LENGTH_MASK
          RecursionLimit,     \* JSSTRDEP_RECURSION_LIMIT
          MaxLength, MaxOps,  \* bounds of the states: of a string and of a history
          Absent

Texts == Seq(UNION {ToSet(chars) : chars \in Literals})

ASSUME StringsAssumption ==
  /\ Literals \subseteq Texts /\ MaxLength \in Nat
  /\ Absent \notin Strings \cup Buffers /\ Absent \notin Texts

VARIABLES str,    \* the strings: their length, flags, and buffer or base
          mem,    \* what is in a buffer, Absent if it is free
          text,   \* history: the characters each string stands for
          given,  \* history: the pointer js_GetStringChars has returned
          ops     \* the calls so far

stringsVars == <<str, mem, text, given, ops>>

NoString == [tag |-> "free", mutable |-> FALSE, buf |-> Absent, base |-> Absent, start |-> 0, len |-> 0]
Flat(b, n, mutable) ==
  [NoString EXCEPT !.tag = "flat", !.mutable = mutable, !.buf = b, !.len = n]
Dependent(base, start, n) ==
  [NoString EXCEPT !.tag = "dependent", !.mutable = TRUE, !.base = base, !.start = start, !.len = n]

StringsInit ==
  /\ str = [s \in Strings |-> NoString]
  /\ mem = [b \in Buffers |-> Absent]
  /\ text = [s \in Strings |-> <<>>]
  /\ given = [s \in Strings |-> Absent]
  /\ ops = 0

Alive == {s \in Strings : str[s].tag # "free"}
FreeString == CHOOSE s \in Strings : s \notin Alive
FreeBuffers == {b \in Buffers : mem[b] = Absent}
FreeBuffer == CHOOSE b \in Buffers : b \in FreeBuffers
HasRoom == Alive # Strings /\ FreeBuffers # {}
-------------------------------------------------------------------------------
IsDependent(s) == str[s].tag = "dependent"

(* The strings a walk from s to its last base meets, that base, which is  *)
(* flat, and where s starts in it: what the dependent ones skip, counted.  *)
Leads(met) == \A t \in met : IsDependent(t) => str[t].base \in met
Bases(s) == {t \in Strings : \A met \in SUBSET Strings : s \in met /\ Leads(met) => t \in met}
FlatBase(s) == CHOOSE t \in Bases(s) : ~IsDependent(t)
Dependents(s) == {t \in Bases(s) : IsDependent(t)}
Start(s) == Cardinality(UNION {{t} \X (1..str[t].start) : t \in Dependents(s)})

(* How deep js_MinimizeDependentStrings is in its recursion at t.          *)
Level(s, t) == Cardinality(Bases(s) \ Bases(t))

(* JSSTRING_CHARS and JSSTRING_LENGTH.                                     *)
Chars(m, s) == SubSeq(m[str[FlatBase(s)].buf], Start(s) + 1, Start(s) + str[s].len)

(* js_MinimizeDependentStrings: what is behind the recursion limit and     *)
(* what would start too far in stays as it is.                             *)
Minimized(s) ==
  [t \in Strings |->
     IF /\ t \in Dependents(s) /\ Level(s, t) <= RecursionLimit
        /\ IsDependent(str[t].base) /\ Start(t) <= MaxStart
     THEN [str[t] EXCEPT !.base = FlatBase(t), !.start = Start(t)]
     ELSE str[t]]

Read(s) ==
  /\ s \in Alive /\ IsDependent(s) /\ IsDependent(str[s].base)
  /\ str' = Minimized(s)
  /\ UNCHANGED <<mem, text, given>>
-------------------------------------------------------------------------------
(* js_NewString and js_NewStringCopyN; JS_NewGrowableString's are mutable. *)
NewString(chars, mutable) ==
  /\ HasRoom
  /\ str' = [str EXCEPT ![FreeString] = Flat(FreeBuffer, Len(chars), mutable)]
  /\ mem' = [mem EXCEPT ![FreeBuffer] = chars]
  /\ text' = [text EXCEPT ![FreeString] = chars]
  /\ UNCHANGED given

(* js_NewDependentString, of less than the whole base.                     *)
NewDependentString(base, start, length) ==
  /\ base \in Alive /\ Alive # Strings
  /\ start + length <= str[base].len /\ length < str[base].len
  /\ LET chars == SubSeq(Chars(mem, base), start + 1, start + length) IN
     IF start > MaxStart \/ (start # 0 /\ length > MaxSlice)
     THEN NewString(chars, FALSE)
     ELSE /\ str' = [str EXCEPT ![FreeString] = Dependent(base, start, length)]
          /\ text' = [text EXCEPT ![FreeString] = chars]
          /\ UNCHANGED <<mem, given>>

(* js_ConcatStrings: the result gets a copy of left ...                    *)
OwnsBuffer(s) == ~IsDependent(s) /\ str[s].mutable

ConcatCopy(left, right) ==
  /\ {left, right} \subseteq Alive /\ ~OwnsBuffer(left)
  /\ str[left].len + str[right].len <= MaxLength
  /\ NewString(Chars(mem, left) \o Chars(mem, right), TRUE)

(* ... or its buffer, which may move, and left depends on the result.      *)
Realloc(s, b) == [mem EXCEPT ![str[s].buf] = Absent, ![b] = SubSeq(mem[str[s].buf], 1, str[s].len)]
RightBuffer(left, right, b) ==
  IF str[FlatBase(right)].buf = str[left].buf THEN b ELSE str[FlatBase(right)].buf
RightChars(left, right, b) ==
  SubSeq(Realloc(left, b)[RightBuffer(left, right, b)], Start(right) + 1, Start(right) + str[right].len)

ConcatOnto(left, right) ==
  /\ {left, right} \subseteq Alive /\ OwnsBuffer(left) /\ HasRoom
  /\ str[left].len + str[right].len <= MaxLength
  /\ \E b \in {str[left].buf, FreeBuffer} :
       LET chars == Realloc(left, b)[b] \o RightChars(left, right, b) IN
       /\ mem' = [Realloc(left, b) EXCEPT ![b] = chars]
       /\ str' = [str EXCEPT ![FreeString] = Flat(b, Len(chars), TRUE),
                             ![left] = Dependent(FreeString, 0, str[left].len)]
       /\ text' = [text EXCEPT ![FreeString] = text[left] \o text[right]]
  /\ UNCHANGED given

(* There is no memory for the result: left keeps the buffer, moved or not. *)
ConcatFails(left) ==
  /\ left \in Alive /\ OwnsBuffer(left) /\ FreeBuffers # {}
  /\ mem' = Realloc(left, FreeBuffer)
  /\ str' = [str EXCEPT ![left].buf = FreeBuffer]
  /\ UNCHANGED <<text, given>>

GetStringCharsMutable(s) ==
  /\ s \in Alive /\ (IsDependent(s) => FreeBuffers # {})
  /\ IF IsDependent(s)
     THEN /\ mem' = [mem EXCEPT ![FreeBuffer] = Chars(mem, s)]
          /\ str' = [Minimized(s) EXCEPT ![s] = Flat(FreeBuffer, str[s].len, FALSE)]
     ELSE UNCHANGED <<str, mem>>
  /\ given' = [given EXCEPT ![s] = str'[s].buf]
  /\ UNCHANGED text

(* js_GetStringChars, with js_UndependString: the pointer it returns is    *)
(* valid as long as the string, which is not changed from then on.         *)
GetStringChars(s) ==
  /\ s \in Alive /\ (IsDependent(s) => FreeBuffers # {})
  /\ IF IsDependent(s)
     THEN /\ mem' = [mem EXCEPT ![FreeBuffer] = Chars(mem, s)]
          /\ str' = [Minimized(s) EXCEPT ![s] = Flat(FreeBuffer, str[s].len, FALSE)]
     ELSE str' = [str EXCEPT ![s].mutable = FALSE] /\ UNCHANGED mem
  /\ given' = [given EXCEPT ![s] = str'[s].buf]
  /\ UNCHANGED text

(* A collection marks the bases of what is kept, and js_FinalizeStringRT   *)
(* frees the buffers of the others.                                        *)
CollectStrings(kept) ==
  LET marked == UNION {Bases(s) : s \in kept}
      freed == {str[s].buf : s \in Alive \ marked} IN
  /\ marked # Alive
  /\ str' = [s \in Strings |-> IF s \in marked THEN str[s] ELSE NoString]
  /\ mem' = [b \in Buffers |-> IF b \in freed THEN Absent ELSE mem[b]]
  /\ text' = [s \in Strings |-> IF s \in marked THEN text[s] ELSE <<>>]
  /\ given' = [s \in Strings |-> IF s \in marked THEN given[s] ELSE Absent]

StringsStep ==
  \/ \E chars \in Literals : NewString(chars, TRUE)
  \/ \E s \in Strings : Read(s) \/ GetStringChars(s) \/ ConcatFails(s)
  \/ \E s \in Strings, start \in 0..MaxLength, length \in 1..MaxLength :
       NewDependentString(s, start, length)
  \/ \E left, right \in Strings : ConcatCopy(left, right) \/ ConcatOnto(left, right)
  \/ \E kept \in SUBSET Alive : CollectStrings(kept)

StringsNext == ops < MaxOps /\ ops' = ops + 1 /\ StringsStep

StringsSpec == StringsInit /\ [][StringsNext]_stringsVars
-------------------------------------------------------------------------------
(* Whatever strings are made of it, moved, shared or collected: a string   *)
(* that is alive has its characters, in a buffer that one string owns, and *)
(* a pointer that was given out still points at them.                      *)
StringsKeep ==
  /\ \A s \in Alive : /\ str[FlatBase(s)].tag = "flat" /\ mem[str[FlatBase(s)].buf] # Absent
                      /\ Chars(mem, s) = text[s]
                      /\ given[s] # Absent => given[s] = str[s].buf
  /\ \A b \in Buffers \ FreeBuffers : Cardinality({s \in Alive : str[s].buf = b}) = 1
===============================================================================

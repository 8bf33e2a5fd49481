--------------------------- MODULE CliChecksProofs ---------------------------
(***************************************************************************)
(* Proofs about check_overwrite_metadata (module CliChecks) for every     *)
(* reply line, not only the ones a TLC run enumerates: yes_no_prompt's     *)
(* trim_end and to_lowercase accept exactly "y" and "yes" in any case      *)
(* followed by blanks, so readable metadata is overwritten exactly then.   *)
(***************************************************************************)
EXTENDS CliChecks, SequenceTheorems, WellFoundedInduction, TLAPS

(* A non-empty set of naturals has a least element, which FiniteSetsExt's *)
(* Min picks.                                                              *)
LEMMA NatMin ==
  ASSUME NEW T \in SUBSET Nat, T # {}
  PROVE  Min(T) \in T /\ \A y \in T : Min(T) <= y
<1>1. \E x \in T : \A y \in T : ~(<<y, x>> \in OpToRel(<, Nat))
  BY NatLessThanWellFounded, WFMin
<1>2. \A x, y \in Nat : <<y, x>> \in OpToRel(<, Nat) <=> y < x
  BY DEF OpToRel
<1>3. \E x \in T : \A y \in T : ~(y < x)
  BY <1>1, <1>2, Zenon
<1>4. \E x \in T : \A y \in T : x <= y
  BY <1>3
<1> QED
  BY <1>4 DEF Min

(* The lemmas about trim_end are stated for any blank character b and    *)
(* used with b = " "; this keeps the literal out of the SMT obligations.   *)

(* The letters of the yes words. *)
Letters == {"y", "Y", "e", "E", "s", "S"}

(* The positions after which a line holds only the blank b. *)
Tails(s, b) == {n \in 0..Len(s) : \A i \in n + 1..Len(s) : s[i] = b}

(* trim_end keeps the line up to its last non-blank character. *)
LEMMA TrimEndParts ==
  ASSUME NEW S, NEW l \in Seq(S), NEW b
  PROVE  LET m == Min(Tails(l, b))
         IN  /\ m \in 0..Len(l)
             /\ \A i \in m + 1..Len(l) : l[i] = b
             /\ m > 0 => l[m] # b
<1> DEFINE m == Min(Tails(l, b))
<1>0. Len(l) \in Nat
  BY LenProperties
<1>1. Len(l) \in Tails(l, b) /\ Tails(l, b) \in SUBSET Nat
  BY <1>0 DEF Tails
<1>2. m \in Tails(l, b) /\ \A y \in Tails(l, b) : m <= y
  BY <1>1, NatMin
<1>3. m \in 0..Len(l) /\ \A i \in m + 1..Len(l) : l[i] = b
  BY <1>2 DEF Tails
<1>4. m > 0 => l[m] # b
  <2> SUFFICES ASSUME m > 0, l[m] = b PROVE FALSE
    OBVIOUS
  <2>1. m \in Nat /\ m - 1 \in 0..Len(l)
    BY <1>0, <1>3
  <2>2. \A i \in (m - 1) + 1..Len(l) : l[i] = b
    <3> TAKE i \in (m - 1) + 1..Len(l)
    <3>1. i = m \/ i \in m + 1..Len(l)
      BY <2>1
    <3> QED
      BY <3>1, <1>3
  <2>3. m - 1 \in Tails(l, b)
    BY <2>1, <2>2, Zenon DEF Tails
  <2> QED
    BY <1>2, <2>1, <2>3
<1> QED
  BY <1>0, <1>3, <1>4

(* TrimEnd is the prefix up to the least such position, with b = " ". *)
LEMMA TrimEndDef ==
  ASSUME NEW l
  PROVE  TrimEnd(l) = SubSeq(l, 1, Min(Tails(l, " ")))
  BY Zenon DEF TrimEnd, Tails

(* to_lowercase maps a character to y, e or s exactly when it is that     *)
(* letter in either case.                                                  *)
LEMMA LowerFacts ==
  ASSUME NEW c
  PROVE  /\ Lower(c) = "y" <=> c \in {"y", "Y"}
         /\ Lower(c) = "e" <=> c \in {"e", "E"}
         /\ Lower(c) = "s" <=> c \in {"s", "S"}
  BY DEF Lower, LowerOf

(* A yes word followed by k blanks, as MeansYes writes it. *)
Pad(w, k, b) == w \o [i \in 1..k |-> b]

(* to_lowercase applied to every character of a line. *)
LowerSeq(t) == [i \in DOMAIN t |-> Lower(t[i])]

(* The yes words: one or three characters, ending in y or s of either case. *)
LEMMA YesWordFacts ==
  ASSUME NEW S, Letters \subseteq S, NEW w \in YesWords
  PROVE  /\ w \in Seq(S)
         /\ Len(w) \in {1, 3}
         /\ w[Len(w)] \in {"y", "Y", "s", "S"}
         /\ LowerSeq(w) \in {<<"y">>, <<"y", "e", "s">>}
<1>1. CASE \E y \in {"y", "Y"} : w = <<y>>
  <2>1. PICK y \in {"y", "Y"} : w = <<y>>
    BY <1>1
  <2>2. Lower(y) = "y"
    BY LowerFacts
  <2> QED
    BY <2>1, <2>2 DEF LowerSeq, Letters
<1>2. CASE \E y \in {"y", "Y"}, e \in {"e", "E"}, z \in {"s", "S"} : w = <<y, e, z>>
  <2>1. PICK y \in {"y", "Y"}, e \in {"e", "E"}, z \in {"s", "S"} : w = <<y, e, z>>
    BY <1>2
  <2>2. Lower(y) = "y" /\ Lower(e) = "e" /\ Lower(z) = "s"
    BY LowerFacts
  <2> QED
    BY <2>1, <2>2 DEF LowerSeq, Letters
<1> QED
  BY <1>1, <1>2 DEF YesWords

(* Two intervals 1..m and 1..n of naturals are equal only if m = n. *)
LEMMA IntervalEq ==
  ASSUME NEW m \in Nat, NEW n \in Nat, 1..m = 1..n
  PROVE  m = n
<1>1. ~(m < n)
  <2> SUFFICES ASSUME m < n PROVE FALSE
    OBVIOUS
  <2>1. n \in 1..n /\ ~(n \in 1..m)
    OBVIOUS
  <2> QED
    BY <2>1, Zenon
<1>2. ~(n < m)
  <2> SUFFICES ASSUME n < m PROVE FALSE
    OBVIOUS
  <2>1. m \in 1..m /\ ~(m \in 1..n)
    OBVIOUS
  <2> QED
    BY <2>1, Zenon
<1> QED
  BY <1>1, <1>2

(* The two accepted answers, as sequences. *)
LEMMA AnswerShapes ==
  /\ DOMAIN <<"y">> = 1..1 /\ <<"y">>[1] = "y"
  /\ DOMAIN <<"y", "e", "s">> = 1..3
  /\ <<"y", "e", "s">>[1] = "y" /\ <<"y", "e", "s">>[2] = "e" /\ <<"y", "e", "s">>[3] = "s"
  /\ 1 \in Nat /\ 3 \in Nat
  OBVIOUS

(* A sequence over a set is a sequence over any larger set. *)
LEMMA SeqWiden ==
  ASSUME NEW X, NEW Y, X \subseteq Y, NEW s \in Seq(X)
  PROVE  s \in Seq(Y)
  OBVIOUS

(* A sequence of length 1 or 3 is the tuple of its elements. *)
LEMMA TupleShapes ==
  ASSUME NEW S, NEW t \in Seq(S)
  PROVE  /\ Len(t) = 1 => t = <<t[1]>>
         /\ Len(t) = 3 => t = <<t[1], t[2], t[3]>>
<1>1. Len(t) = 1 => t = <<t[1]>>
  BY SeqEqual
<1>2. ASSUME Len(t) = 3 PROVE t = <<t[1], t[2], t[3]>>
  <2>0. t[1] \in S /\ t[2] \in S /\ t[3] \in S
    <3>1. {1, 2, 3} \subseteq 1..Len(t)
      BY <1>2
    <3> QED
      BY <3>1, ElementOfSeq, Zenon
  <2>1. <<t[1], t[2], t[3]>> \in Seq(S) /\ Len(<<t[1], t[2], t[3]>>) = 3
    BY <2>0
  <2>2. \A i \in 1..3 : t[i] = <<t[1], t[2], t[3]>>[i]
    <3> TAKE i \in 1..3
    <3>1. i = 1 \/ i = 2 \/ i = 3
      OBVIOUS
    <3> QED
      BY <3>1
  <2> QED
    BY <1>2, <2>1, <2>2, SeqEqual
<1> QED
  BY <1>1, <1>2

(* A line whose lowercase form is y or yes is a yes word. *)
LEMMA PrefixWord ==
  ASSUME NEW S, NEW t \in Seq(S), LowerSeq(t) \in {<<"y">>, <<"y", "e", "s">>}
  PROVE  t \in YesWords
<1>1. /\ Len(t) \in Nat /\ DOMAIN LowerSeq(t) = 1..Len(t)
      /\ \A i \in 1..Len(t) : LowerSeq(t)[i] = Lower(t[i])
  BY LenProperties DEF LowerSeq
<1>2. CASE LowerSeq(t) = <<"y">>
  <2>1. 1..Len(t) = 1..1
    BY <1>1, <1>2, AnswerShapes, Zenon
  <2>2. Len(t) = 1
    BY <1>1, <2>1, AnswerShapes, IntervalEq, Zenon
  <2>3. Lower(t[1]) = "y"
    BY <1>1, <1>2, <2>2, AnswerShapes
  <2>4. t[1] \in {"y", "Y"}
    BY <2>3, LowerFacts
  <2>5. t = <<t[1]>>
    BY <2>2, TupleShapes
  <2>6. \E y \in {"y", "Y"} : t = <<y>>
    BY <2>4, <2>5, Zenon
  <2> QED
    BY <2>6 DEF YesWords
<1>3. CASE LowerSeq(t) = <<"y", "e", "s">>
  <2>1. 1..Len(t) = 1..3
    BY <1>1, <1>3, AnswerShapes, Zenon
  <2>2. Len(t) = 3
    BY <1>1, <2>1, AnswerShapes, IntervalEq, Zenon
  <2>3. Lower(t[1]) = "y" /\ Lower(t[2]) = "e" /\ Lower(t[3]) = "s"
    BY <1>1, <1>3, <2>2, AnswerShapes
  <2>4. t[1] \in {"y", "Y"} /\ t[2] \in {"e", "E"} /\ t[3] \in {"s", "S"}
    BY <2>3, LowerFacts
  <2>5. t = <<t[1], t[2], t[3]>>
    BY <2>2, TupleShapes
  <2>6. \E y \in {"y", "Y"}, e \in {"e", "E"}, z \in {"s", "S"} : t = <<y, e, z>>
    BY <2>4, <2>5, Zenon
  <2> QED
    BY <2>6 DEF YesWords
<1> QED
  BY <1>2, <1>3

(* A line whose positions after m all hold the blank b is its first m    *)
(* characters followed by the blanks.                                      *)
LEMMA PadSplit ==
  ASSUME NEW S, NEW l \in Seq(S), NEW b \in S, NEW m \in 0..Len(l),
         \A i \in m + 1..Len(l) : l[i] = b
  PROVE  l = Pad(SubSeq(l, 1, m), Len(l) - m, b)
<1> DEFINE w == SubSeq(l, 1, m)
           k == Len(l) - m
           p == Pad(w, k, b)
<1>1. /\ Len(l) \in Nat /\ k \in Nat
      /\ w \in Seq(S) /\ Len(w) = m /\ \A i \in 1..m : w[i] = l[i]
  BY LenProperties, SubSeqProperties
<1>2. /\ p \in Seq(S) /\ Len(p) = Len(w) + k
      /\ \A i \in 1..Len(w) : p[i] = w[i]
      /\ \A i \in Len(w) + 1..Len(w) + k : p[i] = b
  <2>1. [i \in 1..k |-> b] \in Seq(S) /\ Len([i \in 1..k |-> b]) = k
    BY <1>1
  <2> QED
    BY <1>1, <2>1, ConcatProperties DEF Pad
<1>3. Len(p) = Len(l) /\ \A i \in 1..Len(l) : p[i] = l[i]
  <2>1. Len(p) = Len(l)
    BY <1>1, <1>2
  <2>2. ASSUME NEW i \in 1..Len(l) PROVE p[i] = l[i]
    <3>1. CASE i <= m
      BY <1>1, <1>2, <3>1
    <3>2. CASE i > m
      BY <1>1, <1>2, <3>2
    <3> QED
      BY <3>1, <3>2, <1>1
  <2> QED
    BY <2>1, <2>2
<1> QED
  BY <1>2, <1>3, SeqEqual

(* A word that does not end in the blank b, padded with blanks, trims     *)
(* back to the word.                                                       *)
LEMMA PadTrim ==
  ASSUME NEW S, NEW w \in Seq(S), Len(w) > 0, NEW b \in S, w[Len(w)] # b,
         NEW k \in Nat
  PROVE  /\ Min(Tails(Pad(w, k, b), b)) = Len(w)
         /\ SubSeq(Pad(w, k, b), 1, Len(w)) = w
<1> DEFINE p == Pad(w, k, b)
           n == Len(w)
<1>1. /\ p \in Seq(S) /\ Len(p) = n + k
      /\ \A i \in 1..n : p[i] = w[i]
      /\ \A i \in n + 1..n + k : p[i] = b
  <2>1. [i \in 1..k |-> b] \in Seq(S) /\ Len([i \in 1..k |-> b]) = k
    OBVIOUS
  <2> QED
    BY <2>1, ConcatProperties DEF Pad
<1>2. n \in Nat
  BY LenProperties
<1>3. n \in Tails(p, b) /\ Tails(p, b) \in SUBSET Nat
  BY <1>1, <1>2 DEF Tails
<1>4. \A j \in Tails(p, b) : n <= j
  <2> TAKE j \in Tails(p, b)
  <2>1. j \in 0..Len(p) /\ \A i \in j + 1..Len(p) : p[i] = b
    BY DEF Tails
  <2> SUFFICES ASSUME j < n PROVE FALSE
    BY <2>1, <1>2
  <2>2. n \in j + 1..Len(p) /\ n \in 1..n
    BY <2>1, <1>1, <1>2
  <2> QED
    BY <1>1, <2>1, <2>2
<1>5. Min(Tails(p, b)) = n
  BY <1>2, <1>3, <1>4, NatMin
<1>6. SubSeq(p, 1, n) = w
  <2>1. SubSeq(p, 1, n) \in Seq(S) /\ Len(SubSeq(p, 1, n)) = n
        /\ \A i \in 1..n : SubSeq(p, 1, n)[i] = p[i]
    BY <1>1, <1>2, SubSeqProperties
  <2> QED
    BY <1>1, <2>1, SeqEqual
<1> QED
  BY <1>5, <1>6

(* The two sides of yes_no_prompt's test, for a line l and a blank b.     *)
TrimmedYes(l, b) == LowerSeq(SubSeq(l, 1, Min(Tails(l, b)))) \in {<<"y">>, <<"y", "e", "s">>}
PaddedYes(l, b) == \E w \in YesWords, k \in 0..Len(l) : l = Pad(w, k, b)

(* yes_no_prompt's test: the lowercased line, trimmed of trailing blanks, *)
(* is "y" or "yes" exactly when the line is a yes word followed by blanks, *)
(* for every line and any blank that is not a letter of those words.      *)
LEMMA YesCore ==
  ASSUME NEW S, Letters \subseteq S, NEW l \in Seq(S), NEW b \in S,
         b \notin {"y", "Y", "s", "S"}
  PROVE  TrimmedYes(l, b) <=> PaddedYes(l, b)
<1> SUFFICES LowerSeq(SubSeq(l, 1, Min(Tails(l, b)))) \in {<<"y">>, <<"y", "e", "s">>}
             <=> \E w \in YesWords, k \in 0..Len(l) : l = Pad(w, k, b)
  BY Zenon DEF TrimmedYes, PaddedYes
<1>0. PICK m : m = Min(Tails(l, b))
  OBVIOUS
<1>1. /\ Len(l) \in Nat /\ m \in 0..Len(l)
      /\ \A i \in m + 1..Len(l) : l[i] = b
  BY <1>0, TrimEndParts, LenProperties
<1>2. ASSUME LowerSeq(SubSeq(l, 1, m)) \in {<<"y">>, <<"y", "e", "s">>}
      PROVE  \E w \in YesWords, k \in 0..Len(l) : l = Pad(w, k, b)
  <2>1. SubSeq(l, 1, m) \in Seq(S)
    BY <1>1, SubSeqProperties
  <2>2. SubSeq(l, 1, m) \in YesWords
    BY <1>2, <2>1, PrefixWord
  <2>3. l = Pad(SubSeq(l, 1, m), Len(l) - m, b)
    BY <1>1, PadSplit, Zenon
  <2>4. Len(l) - m \in 0..Len(l)
    BY <1>1
  <2> QED
    BY <2>2, <2>3, <2>4
<1>3. ASSUME NEW w \in YesWords, NEW k \in 0..Len(l), l = Pad(w, k, b)
      PROVE  LowerSeq(SubSeq(l, 1, m)) \in {<<"y">>, <<"y", "e", "s">>}
  <2>1. /\ w \in Seq(S) /\ Len(w) \in {1, 3}
        /\ w[Len(w)] \in {"y", "Y", "s", "S"}
        /\ LowerSeq(w) \in {<<"y">>, <<"y", "e", "s">>}
    BY YesWordFacts
  <2>2. w[Len(w)] # b
    BY <2>1, Zenon
  <2>3. Len(w) > 0 /\ k \in Nat
    BY <1>1, <2>1
  <2>4. /\ Min(Tails(Pad(w, k, b), b)) = Len(w)
        /\ SubSeq(Pad(w, k, b), 1, Len(w)) = w
    BY <2>1, <2>2, <2>3, PadTrim, Zenon
  <2>5. m = Len(w) /\ SubSeq(l, 1, m) = w
    BY <1>0, <1>3, <2>4, Zenon
  <2> QED
    BY <2>1, <2>5
<1> QED
  BY <1>0, <1>2, <1>3

(* The prompt's answer: a line read (or none, when the read fails) counts *)
(* as yes exactly when it is y or yes in any case followed by blanks.     *)
LEMMA YesIff ==
  ASSUME NEW r \in {{l} : l \in Replies} \cup {{}}
  PROVE  IsYes(r) <=> MeansYes(r)
<1>1. CASE r = {}
  BY <1>1 DEF IsYes, MeansYes
<1>2. CASE r # {}
  <2>1. PICK l \in Replies : r = {l}
    BY <1>2
  <2> DEFINE A == STRING \cup Letters \cup {" "}
  <2>2. l \in Seq(A)
    <3>1. l \in Seq(STRING) /\ STRING \subseteq A
      BY <2>1, CliChecksAssumption
    <3> QED
      BY <3>1, SeqWiden, Zenon
  <2>3. IsYes(r) <=> LowerSeq(SubSeq(l, 1, Min(Tails(l, " ")))) \in {<<"y">>, <<"y", "e", "s">>}
    <3>1. TrimEnd(l) = SubSeq(l, 1, Min(Tails(l, " ")))
      BY TrimEndDef
    <3> QED
      BY <2>1, <3>1, Zenon DEF IsYes, LowerSeq
  <2>4. MeansYes(r) <=> \E w \in YesWords, k \in 0..Len(l) : l = Pad(w, k, " ")
    BY <2>1, Zenon DEF MeansYes, Pad
  <2>5. Letters \subseteq A /\ " " \in A /\ " " \notin {"y", "Y", "s", "S"}
    BY Zenon
  <2>6. LowerSeq(SubSeq(l, 1, Min(Tails(l, " ")))) \in {<<"y">>, <<"y", "e", "s">>}
        <=> \E w \in YesWords, k \in 0..Len(l) : l = Pad(w, k, " ")
    <3>1. TrimmedYes(l, " ") <=> PaddedYes(l, " ")
      BY <2>2, <2>5, YesCore, Zenon
    <3> QED
      BY <3>1, Zenon DEF TrimmedYes, PaddedYes
  <2> QED
    BY <2>3, <2>4, <2>6, Zenon
<1> QED
  BY <1>1, <1>2

-----------------------------------------------------------------------------
(* Each function's step is taken only for a call of that function, and  *)
(* returns without changing the call.                                      *)
LEMMA ActionFacts ==
  /\ FromStr => call.fn = "range" /\ call' = call
  /\ ToExitCode => call.fn = "exit" /\ call' = call
  /\ CheckFileNotTiny => call.fn = "not_tiny" /\ call' = call
  /\ CheckOutputFile => call.fn = "output" /\ call' = call
  /\ CheckNotXml => call.fn = "not_xml" /\ call' = call
  /\ CheckOverwriteMetadata => call.fn = "overwrite" /\ call' = call
<1>1. \A x : Return(x) => call' = call
  BY DEF Return
<1>2. FromStr => call.fn = "range" /\ call' = call
  BY <1>1 DEF FromStr
<1>3. ToExitCode => call.fn = "exit" /\ call' = call
  BY <1>1 DEF ToExitCode
<1>4. CheckFileNotTiny => call.fn = "not_tiny" /\ call' = call
  BY <1>1 DEF CheckFileNotTiny
<1>5. CheckOutputFile => call.fn = "output" /\ call' = call
  BY <1>1 DEF CheckOutputFile
<1>6. CheckNotXml => call.fn = "not_xml" /\ call' = call
  BY <1>1 DEF CheckNotXml
<1>7. CheckOverwriteMetadata => call.fn = "overwrite" /\ call' = call
  BY <1>1 DEF CheckOverwriteMetadata
<1> QED
  BY <1>2, <1>3, <1>4, <1>5, <1>6, <1>7

(* Every step keeps the call: each function's step is its guard and a    *)
(* Return, which leaves the call alone.                                    *)
LEMMA StepKeepsCall ==
  ASSUME [Next]_vars
  PROVE  call' = call
<1>2. CASE Next
  BY <1>2, ActionFacts DEF Next
<1>3. CASE UNCHANGED vars
  BY <1>3 DEF vars
<1> QED
  BY <1>2, <1>3

(* The call never changes: each run of the model is one call and its      *)
(* return.                                                                 *)
LEMMA CallType == Spec => [](call \in Calls)
<1>1. Init => call \in Calls
  BY DEF Init
<1>2. call \in Calls /\ [Next]_vars => (call \in Calls)'
  BY StepKeepsCall
<1> QED
  BY <1>1, <1>2, PTL DEF Spec

(* Every step preserves OverwriteConfirmed: only the overwrite check    *)
(* changes a result it constrains.                                         *)
LEMMA OverwriteStep ==
  ASSUME call \in Calls, OverwriteConfirmed, [Next]_vars
  PROVE  OverwriteConfirmed'
<1>1. CASE CheckOverwriteMetadata
  <2>1. call.reply \in {{l} : l \in Replies} \cup {{}}
    BY <1>1 DEF CheckOverwriteMetadata, Calls
  <2>2. IsYes(call.reply) <=> MeansYes(call.reply)
    BY <2>1, YesIff
  <2> QED
    BY <1>1, <2>2 DEF CheckOverwriteMetadata, Return, OverwriteConfirmed
<1>2. CASE FromStr \/ ToExitCode \/ CheckFileNotTiny \/ CheckOutputFile \/ CheckNotXml
  <2>1. call.fn \in {"range", "exit", "not_tiny", "output", "not_xml"}
    BY <1>2, ActionFacts
  <2>2. call' = call
    BY StepKeepsCall
  <2> QED
    BY <2>1, <2>2 DEF OverwriteConfirmed
<1>3. CASE UNCHANGED vars
  BY <1>3 DEF vars, OverwriteConfirmed
<1> QED
  BY <1>1, <1>2, <1>3 DEF Next

(* check_overwrite_metadata overwrites readable metadata exactly when the *)
(* reply is y or yes in any case followed by blanks, for every line a     *)
(* user can type; a failed read refuses.                                   *)
THEOREM OverwriteOnlyOnYes == Spec => []OverwriteConfirmed
<1>1. Init => OverwriteConfirmed
  BY DEF Init, OverwriteConfirmed
<1> QED
  BY <1>1, CallType, OverwriteStep, PTL DEF Spec


=============================================================================

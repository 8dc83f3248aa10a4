--------------------------- MODULE CommandsProofs ---------------------------
(***************************************************************************)
(* Proofs about Commands, for any messages, imports, folders and bounds:   *)
(* how an export comes back from an import, ImportFaithful and             *)
(* BackupRestorable.  The same facts about folds serve the last part, the  *)
(* proofs about Restore, for any emails, requests, sizes, budget and       *)
(* bounds: TypeOK, BudgetKept and CopiesAccounted.                         *)
(***************************************************************************)
EXTENDS Commands, Restore, FiniteSetTheorems, WellFoundedInduction, SequenceTheorems, TLAPS

------------------------------------------------------------------------------
(* Folds.  FoldLeft is a recursive function on the subsets of the domain.  *)
(* That there is one is shown by induction, for a step that is a function; *)
(* every fold of Commands is an instance of it.                            *)
LEMMA Induction ==
  ASSUME NEW T, 0 \in T, \A k \in Nat : k \in T => k + 1 \in T
  PROVE  Nat \subseteq T
<1>1. SUFFICES ASSUME Nat \ T # {} PROVE FALSE
  OBVIOUS
<1>2. PICK m \in Nat \ T : \A k \in Nat \ T : <<k, m>> \notin OpToRel(<, Nat)
  BY <1>1, NatLessThanWellFounded, WFMin
<1>3. m # 0 /\ m - 1 \in Nat /\ m - 1 < m /\ (m - 1) + 1 = m
  OBVIOUS
<1>4. m - 1 \in T
  BY <1>2, <1>3 DEF OpToRel
<1> QED BY <1>3, <1>4

LEMMA MaxIs ==
  ASSUME NEW m \in Nat, NEW s \in SUBSET (1 .. m + 1), m + 1 \in s
  PROVE  Max(s) = m + 1
<1>1. \A y \in s : m + 1 >= y /\ y \in Nat
  OBVIOUS
<1>2. \A x \in s : (\A y \in s : x >= y) => x = m + 1
  OBVIOUS
<1> QED BY <1>1, <1>2 DEF Max

IsFold(g, n, base, F) ==
    \A s \in SUBSET (1 .. n) :
        g[s] = IF s = {} THEN base ELSE F[<<Max(s), g[s \ {Max(s)}]>>]

HasFold(n, A, base, F) == \E g \in [SUBSET (1 .. n) -> A] : IsFold(g, n, base, F)

LEMMA FoldExists ==
  ASSUME NEW n \in Nat, NEW A, NEW base \in A, NEW F \in [(1 .. n) \X A -> A]
  PROVE  HasFold(n, A, base, F)
<1> DEFINE T == {m \in Nat : m <= n => HasFold(m, A, base, F)}
<1>1. 0 \in T
  <2>1. PICK g : g = [s \in SUBSET (1 .. 0) |-> base]
    OBVIOUS
  <2>2. \A s \in SUBSET (1 .. 0) : s = {}
    OBVIOUS
  <2>3. g \in [SUBSET (1 .. 0) -> A] /\ IsFold(g, 0, base, F)
    BY <2>1, <2>2 DEF IsFold
  <2> QED BY <2>3 DEF HasFold
<1>2. ASSUME NEW m \in Nat, m \in T PROVE m + 1 \in T
  <2>1. SUFFICES ASSUME m + 1 <= n PROVE HasFold(m + 1, A, base, F)
    OBVIOUS
  <2>2. m <= n /\ m + 1 \in 1 .. n
    BY <2>1
  <2>3. PICK g \in [SUBSET (1 .. m) -> A] : IsFold(g, m, base, F)
    BY <1>2, <2>2 DEF HasFold
  <2>4. \A s \in SUBSET (1 .. m + 1) : s \ {m + 1} \in SUBSET (1 .. m)
    OBVIOUS
  <2>5. PICK h : h = [s \in SUBSET (1 .. m + 1) |->
                        IF m + 1 \in s THEN F[<<m + 1, g[s \ {m + 1}]>>] ELSE g[s]]
    OBVIOUS
  <2>6. \A s \in SUBSET (1 .. m + 1) :
            /\ m + 1 \in s => h[s] = F[<<m + 1, g[s \ {m + 1}]>>]
            /\ m + 1 \notin s => h[s] = g[s] /\ s \in SUBSET (1 .. m)
    BY <2>4, <2>5
  <2>7. \A s \in SUBSET (1 .. m + 1) : h[s] \in A
    BY <2>2, <2>3, <2>4, <2>6
  <2>8. ASSUME NEW s \in SUBSET (1 .. m + 1)
        PROVE  h[s] = IF s = {} THEN base ELSE F[<<Max(s), h[s \ {Max(s)}]>>]
    <3>1. CASE m + 1 \in s
      <4>1. Max(s) = m + 1
        BY <3>1, MaxIs
      <4>2. h[s \ {m + 1}] = g[s \ {m + 1}]
        BY <2>4, <2>6
      <4> QED BY <2>6, <3>1, <4>1, <4>2
    <3>2. CASE m + 1 \notin s
      <4>1. h[s] = g[s] /\ s \in SUBSET (1 .. m) /\ s \ {Max(s)} \in SUBSET (1 .. m)
        BY <2>6, <3>2
      <4>2. h[s \ {Max(s)}] = g[s \ {Max(s)}]
        BY <2>6, <3>2, <4>1
      <4>3. g[s] = IF s = {} THEN base ELSE F[<<Max(s), g[s \ {Max(s)}]>>]
        BY <2>3, <4>1 DEF IsFold
      <4> QED BY <4>1, <4>2, <4>3
    <3> QED BY <3>1, <3>2
  <2>9. h \in [SUBSET (1 .. m + 1) -> A]
    BY <2>5, <2>7
  <2> QED BY <2>8, <2>9 DEF HasFold, IsFold
<1>3. n \in T
  <2> HIDE DEF T
  <2> QED BY <1>1, <1>2, Induction
<1> QED BY <1>3

LEMMA MaxIn ==
  ASSUME NEW n \in Nat, NEW s \in SUBSET (1 .. n), s # {}
  PROVE  Max(s) \in s
<1> DEFINE gaps == {d \in Nat : n - d \in s}
<1>1. gaps \subseteq Nat /\ gaps # {}
  <2>1. PICK x \in s : TRUE
    OBVIOUS
  <2>2. n - x \in Nat /\ n - (n - x) = x
    OBVIOUS
  <2> QED BY <2>1, <2>2
<1>2. PICK d \in gaps : \A c \in gaps : <<c, d>> \notin OpToRel(<, Nat)
  BY <1>1, NatLessThanWellFounded, WFMin
<1>3. ASSUME NEW y \in s PROVE n - d >= y
  <2>1. n - y \in gaps
    <3>1. n - y \in Nat /\ n - (n - y) = y
      OBVIOUS
    <3> QED BY <3>1
  <2>2. ~(n - y < d) /\ d \in Nat
    BY <1>1, <1>2, <2>1 DEF OpToRel
  <2> QED BY <2>2
<1>4. n - d \in s /\ \A y \in s : n - d >= y
  BY <1>2, <1>3
<1>5. PICK m \in s : m = n - d /\ \A y \in s : m >= y
  BY <1>4
<1> HIDE DEF gaps
<1> QED BY <1>5 DEF Max

LEMMA MaxRange ==
  ASSUME NEW k \in Nat, k # 0
  PROVE  Max(1 .. k) = k /\ (1 .. k) \ {k} = 1 .. k - 1 /\ 1 .. k # {}
<1>1. k - 1 \in Nat /\ (k - 1) + 1 = k /\ k \in 1 .. k /\ 1 .. k \in SUBSET (1 .. k)
  OBVIOUS
<1>2. Max(1 .. k) = k
  BY <1>1, MaxIs
<1>3. (1 .. k) \ {k} = 1 .. k - 1
  OBVIOUS
<1> QED BY <1>1, <1>2, <1>3

(* Messages and what becomes of their lines. *)
LEMMA LineIs ==
  ASSUME NEW a \in LineType, NEW b \in LineType, a.is = b.is, a.quotes = b.quotes, a.size = b.size,
         a.cr = b.cr, a.nl = b.nl
  PROVE  a = b
<1>1. /\ a = [is |-> a.is, quotes |-> a.quotes, size |-> a.size, cr |-> a.cr, nl |-> a.nl]
      /\ b = [is |-> b.is, quotes |-> b.quotes, size |-> b.size, cr |-> b.cr, nl |-> b.nl]
  BY DEF LineType
<1> QED BY <1>1

SameBut(a, b) == a.is = b.is /\ a.size = b.size /\ a.cr = b.cr /\ a.nl = b.nl
Scanned(line) == line \in LineType /\ line.cr = FALSE /\ line.nl = TRUE

LEMMA LineSteps ==
  ASSUME NEW line, line \in LineType
  PROVE  /\ Scanned(Scan(line)) /\ Scan(line).is = line.is /\ Scan(line).quotes = line.quotes
         /\ Scan(line).size = line.size
         /\ Quote(line) \in LineType /\ SameBut(Quote(line), line)
         /\ Quote(line).quotes = IF line.is = "from" THEN line.quotes + 1 ELSE line.quotes
         /\ Unquote(line) \in LineType /\ SameBut(Unquote(line), line)
         /\ Unquote(line).quotes = IF line.is = "from" /\ line.quotes > 0 THEN line.quotes - 1
                                   ELSE line.quotes
<1>1. line.quotes \in Nat /\ line.is \in Kinds /\ line.size \in Nat /\ line.cr \in BOOLEAN /\ line.nl \in BOOLEAN
  BY DEF LineType
<1>2. /\ Scanned(Scan(line)) /\ Scan(line).is = line.is /\ Scan(line).quotes = line.quotes
      /\ Scan(line).size = line.size
  BY DEF LineType, Scan, Scanned
<1>3. PICK m : m = line.quotes + 1
  OBVIOUS
<1>4. PICK n : n = line.quotes - 1
  OBVIOUS
<1>5. PICK more : more = [line EXCEPT !.quotes = m]
  OBVIOUS
<1>6. PICK less : less = [line EXCEPT !.quotes = n]
  OBVIOUS
<1>7. more \in LineType /\ SameBut(more, line) /\ more.quotes = m
  BY <1>1, <1>3, <1>5 DEF LineType, SameBut
<1>8. line.quotes > 0 => less \in LineType /\ SameBut(less, line) /\ less.quotes = n
  BY <1>1, <1>4, <1>6 DEF LineType, SameBut
<1>9. Quote(line) = IF line.is = "from" THEN more ELSE line
  BY <1>3, <1>5 DEF Quote
<1>10. Unquote(line) = IF line.is = "from" /\ line.quotes > 0 THEN less ELSE line
  BY <1>4, <1>6 DEF Unquote
<1>11. SameBut(line, line)
  BY DEF SameBut
<1>12. Quote(line) \in LineType /\ SameBut(Quote(line), line)
       /\ Quote(line).quotes = IF line.is = "from" THEN line.quotes + 1 ELSE line.quotes
  BY <1>3, <1>7, <1>9, <1>11
<1>13. Unquote(line) \in LineType /\ SameBut(Unquote(line), line)
       /\ Unquote(line).quotes = IF line.is = "from" /\ line.quotes > 0 THEN line.quotes - 1 ELSE line.quotes
  BY <1>4, <1>8, <1>10, <1>11
<1> QED BY <1>2, <1>12, <1>13, Zenon

(* A line as both scanners give it is quoted on the way out and unquoted   *)
(* on the way back, and is never taken for an envelope.                    *)
LEMMA QuoteUndone ==
  ASSUME NEW line, Scanned(line)
  PROVE  /\ Quote(line) \in LineType /\ Scan(Quote(line)) = Quote(line)
         /\ ~IsFrom(Quote(line)) /\ Unquote(Quote(line)) = line
<1>1. line \in LineType /\ line.cr = FALSE /\ line.nl = TRUE
  BY Zenon DEF Scanned
<1>2. PICK q : q = Quote(line)
  OBVIOUS
<1>3. q \in LineType /\ SameBut(q, line) /\ q.quotes = IF line.is = "from" THEN line.quotes + 1 ELSE line.quotes
  BY <1>1, <1>2, LineSteps, Zenon
<1>4. q.is = line.is /\ q.size = line.size /\ q.cr = FALSE /\ q.nl = TRUE
  BY <1>1, <1>3, Zenon DEF SameBut
<1>5. line.quotes \in Nat
  BY <1>1 DEF LineType
<1>6. Scan(q) = q
  <2>1. PICK t : t = Scan(q)
    OBVIOUS
  <2>2. t \in LineType /\ t.cr = FALSE /\ t.nl = TRUE /\ t.is = q.is /\ t.quotes = q.quotes /\ t.size = q.size
    BY <1>3, <2>1, LineSteps, Zenon DEF Scanned
  <2> QED BY <1>3, <1>4, <2>1, <2>2, LineIs, Zenon
<1>7. ~IsFrom(q)
  BY <1>3, <1>4, <1>5 DEF IsFrom
<1>8. Unquote(q) = line
  <2>1. PICK v : v = Unquote(q)
    OBVIOUS
  <2>2. /\ v \in LineType /\ SameBut(v, q)
        /\ v.quotes = IF q.is = "from" /\ q.quotes > 0 THEN q.quotes - 1 ELSE q.quotes
    BY <1>3, <2>1, LineSteps, Zenon
  <2>3. v.quotes = line.quotes
    BY <1>3, <1>4, <1>5, <2>2
  <2>4. v.is = line.is /\ v.size = line.size /\ v.cr = line.cr /\ v.nl = line.nl
    BY <1>1, <1>4, <2>2, Zenon DEF SameBut
  <2> QED BY <1>1, <2>1, <2>2, <2>3, <2>4, LineIs, Zenon
<1> QED BY <1>2, <1>3, <1>6, <1>7, <1>8

LEMMA EndLines ==
  /\ Scanned(Blank) /\ Quote(Blank) = Blank /\ Fits(Blank)
  /\ Envelope \in LineType /\ IsFrom(Envelope) /\ Fits(Envelope)
<1>1. "other" \in Kinds /\ "from" \in Kinds
  BY DEF Kinds
<1>2. Blank \in LineType /\ Envelope \in LineType
  BY <1>1 DEF LineType, Blank, Envelope
<1>3. Blank.cr = FALSE /\ Blank.nl = TRUE /\ Envelope.cr = FALSE
  BY Zenon DEF Blank, Envelope
<1>4. Blank.quotes = 0 /\ Blank.size = 0 /\ Blank.is = "other"
  BY DEF Blank
<1>5. Envelope.quotes = 0 /\ Envelope.size = 0 /\ Envelope.is = "from"
  BY DEF Envelope
<1>6. MaxLine \in Nat /\ 1 <= MaxLine
  BY CommandsAssumption
<1>7. Fits(Blank) /\ Fits(Envelope)
  BY <1>3, <1>4, <1>5, <1>6 DEF Fits
<1>8. Quote(Blank) = Blank
  BY <1>4 DEF Quote
<1>9. IsFrom(Envelope)
  BY <1>5 DEF IsFrom
<1>10. Scanned(Blank)
  BY <1>2, <1>3, Zenon DEF Scanned
<1> QED BY <1>2, <1>7, <1>8, <1>9, <1>10

LEMMA TextType ==
  ASSUME NEW text \in Texts
  PROVE  /\ text \in Seq(LineType) /\ Len(text) \in Nat /\ DOMAIN text = 1 .. Len(text)
         /\ \A k \in 1 .. Len(text) : text[k] \in LineType
         /\ MessageId(text) \in Ids
<1>1. text \in Seq(LineType)
  BY DEF Texts
<1>2. Len(text) \in Nat /\ DOMAIN text = 1 .. Len(text) /\ \A k \in 1 .. Len(text) : text[k] \in LineType
  BY <1>1
<1>3. MessageId(text) \in Ids
  BY CommandsAssumption DEF MessageId
<1> QED BY <1>1, <1>2, <1>3

LEMMA ReachIs ==
  ASSUME NEW n \in Nat, NEW s
  PROVE  /\ Reach(s, n) \in 0 .. n /\ 1 .. Reach(s, n) \subseteq s
         /\ Reach(s, n) < n => Reach(s, n) + 1 \notin s
<1> DEFINE P(k) == 1 .. k \subseteq s /\ (k < n => k + 1 \notin s)
<1>1. SUFFICES \E k \in 0 .. n : P(k)
  BY DEF Reach
<1>2. SUFFICES ASSUME \A k \in 0 .. n : ~P(k) PROVE FALSE
  OBVIOUS
<1> DEFINE T == {k \in Nat : k <= n => 1 .. k \subseteq s}
<1>3. 0 \in T
  OBVIOUS
<1>4. ASSUME NEW k \in Nat, k \in T PROVE k + 1 \in T
  <2>1. SUFFICES ASSUME k + 1 <= n PROVE 1 .. k + 1 \subseteq s
    OBVIOUS
  <2>2. k \in 0 .. n /\ 1 .. k \subseteq s
    BY <1>4, <2>1
  <2>3. k + 1 \in s
    BY <1>2, <2>2
  <2>4. \A m \in 1 .. k + 1 : m \in 1 .. k \/ m = k + 1
    OBVIOUS
  <2> QED BY <2>2, <2>3, <2>4
<1>5. Nat \subseteq T
  <2> HIDE DEF T
  <2> QED BY <1>3, <1>4, Induction
<1>6. P(n)
  BY <1>5
<1> QED BY <1>2, <1>6

LEMMA CutIs ==
  ASSUME NEW text \in Texts
  PROVE  /\ Cut(text) \in 0 .. Len(text)
         /\ \A k \in 1 .. Cut(text) : k \in 1 .. Len(text) /\ Fits(text[k])
         /\ Cut(text) < Len(text) => ~Fits(text[Cut(text) + 1])
<1>1. PICK n \in Nat : n = Len(text) /\ DOMAIN text = 1 .. n
  BY TextType
<1>2. PICK s : s = {k \in DOMAIN text : Fits(text[k])}
  OBVIOUS
<1>3. PICK c : c = Reach(s, n)
  OBVIOUS
<1>4. c \in 0 .. n /\ 1 .. c \subseteq s /\ (c < n => c + 1 \notin s)
  BY <1>3, ReachIs
<1>5. Cut(text) = c
  BY <1>1, <1>2, <1>3 DEF Cut
<1>6. c < n => c + 1 \in 1 .. n
  BY <1>4
<1>7. \A k \in 1 .. c : k \in 1 .. n /\ Fits(text[k])
  BY <1>1, <1>2, <1>4
<1> QED BY <1>1, <1>2, <1>4, <1>5, <1>6, <1>7

LEMMA LinesIs ==
  ASSUME NEW text \in Texts
  PROVE  /\ Lines(text) \in Seq(LineType) /\ Len(Lines(text)) = Cut(text)
         /\ \A k \in 1 .. Cut(text) : Lines(text)[k] = Scan(text[k]) /\ Scanned(Lines(text)[k])
<1>1. PICK c \in Nat : c = Cut(text) /\ \A k \in 1 .. c : text[k] \in LineType
  BY CutIs, TextType
<1>2. PICK s : s = [k \in 1 .. c |-> Scan(text[k])]
  OBVIOUS
<1>3. \A k \in 1 .. c : s[k] = Scan(text[k]) /\ Scanned(s[k])
  BY <1>1, <1>2, LineSteps
<1>4. s \in [1 .. c -> LineType]
  <2>1. \A k \in 1 .. c : s[k] \in LineType
    BY <1>3, Zenon DEF Scanned
  <2> QED BY <1>2, <2>1
<1>5. s \in Seq(LineType) /\ Len(s) = c
  BY <1>4, LenProperties
<1>6. Lines(text) = s
  BY <1>1, <1>2 DEF Lines
<1> QED BY <1>1, <1>3, <1>5, <1>6

(* Trim on what ends with a blank line, and on what does not. *)
LEMMA TrimIs ==
  ASSUME NEW lines \in Seq(LineType)
  PROVE  /\ Trim(lines) \in Seq(LineType) /\ Len(Trim(lines)) <= Len(lines)
         /\ \A k \in 1 .. Len(Trim(lines)) :
               \/ Trim(lines)[k] = lines[k]
               \/ /\ k = Len(Trim(lines)) /\ lines[k] # Blank
                  /\ Trim(lines)[k] = [lines[k] EXCEPT !.nl = FALSE]
<1>1. CASE lines = <<>>
  <2>1. PICK t : t = Trim(lines) /\ t = <<>>
    BY <1>1 DEF Trim
  <2>2. t \in Seq(LineType) /\ Len(t) = 0 /\ Len(lines) = 0
    BY <1>1, <2>1
  <2>3. 1 .. Len(t) = {}
    BY <2>2
  <2> QED BY <2>1, <2>2, <2>3
<1>2. CASE lines # <<>>
  <2>1. PICK n \in Nat : n = Len(lines) - 1 /\ Len(lines) = n + 1
    BY <1>2
  <2>2. PICK front : front = SubSeq(lines, 1, n)
    OBVIOUS
  <2>3. front \in Seq(LineType) /\ Len(front) = n /\ \A k \in 1 .. n : front[k] = lines[k]
    BY <2>1, <2>2
  <2>4. Front(lines) = front /\ Last(lines) = lines[n + 1] /\ lines[n + 1] \in LineType
    BY <1>2, <2>1, <2>2 DEF Front, Last
  <2>5. CASE lines[n + 1] = Blank
    <3>1. Trim(lines) = front
      BY <1>2, <2>4, <2>5 DEF Trim
    <3> QED BY <2>1, <2>3, <3>1
  <2>6. CASE lines[n + 1] # Blank
    <3>1. PICK e : e = [lines[n + 1] EXCEPT !.nl = FALSE]
      OBVIOUS
    <3>2. e \in LineType
      BY <2>4, <3>1 DEF LineType
    <3>3. PICK t : t = Append(front, e)
      OBVIOUS
    <3>4. Trim(lines) = t
      BY <1>2, <2>4, <2>6, <3>1, <3>3 DEF Trim
    <3>5. t \in Seq(LineType) /\ Len(t) = n + 1 /\ t[n + 1] = e /\ \A k \in 1 .. n : t[k] = front[k]
      BY <2>3, <3>2, <3>3
    <3>6. ASSUME NEW k \in 1 .. n + 1
          PROVE  \/ t[k] = lines[k]
                 \/ k = n + 1 /\ lines[k] # Blank /\ t[k] = [lines[k] EXCEPT !.nl = FALSE]
      <4>1. CASE k = n + 1
        BY <2>6, <3>1, <3>5, <4>1
      <4>2. CASE k \in 1 .. n
        BY <2>3, <3>5, <4>2
      <4> QED BY <4>1, <4>2
    <3> QED BY <2>1, <3>4, <3>5, <3>6
  <2> QED BY <2>5, <2>6
<1> QED BY <1>1, <1>2

LEMMA ReturnedType ==
  ASSUME NEW text \in Texts
  PROVE  Returned(text) \in Texts
<1>1. PICK lines : lines = Lines(text)
  OBVIOUS
<1>2. /\ lines \in Seq(LineType) /\ DOMAIN lines = 1 .. Len(lines) /\ Len(lines) \in Nat
      /\ \A k \in 1 .. Len(lines) : Scanned(lines[k])
  BY <1>1, LinesIs
<1>3. \A k \in 1 .. Len(lines) : lines[k] \in LineType /\ lines[k].nl
  BY <1>2, Zenon DEF Scanned
<1>4. CASE Whole(text)
  <2>1. Returned(text) = lines
    BY <1>1, <1>4 DEF Returned
  <2> QED BY <1>2, <1>3, <2>1 DEF Texts
<1>5. CASE ~Whole(text)
  <2>1. PICK t : t = Trim(lines)
    OBVIOUS
  <2>2. /\ t \in Seq(LineType) /\ Len(t) <= Len(lines)
        /\ \A k \in 1 .. Len(t) :
              \/ t[k] = lines[k]
              \/ k = Len(t) /\ lines[k] # Blank /\ t[k] = [lines[k] EXCEPT !.nl = FALSE]
    BY <1>2, <2>1, TrimIs
  <2>3. Len(t) \in Nat /\ DOMAIN t = 1 .. Len(t) /\ \A k \in 1 .. Len(t) : k \in 1 .. Len(lines)
    BY <1>2, <2>2
  <2>4. ASSUME NEW k \in DOMAIN t, ~t[k].nl
        PROVE  k = Len(t) /\ (t[k].is # "other" \/ t[k].quotes + t[k].size > 0 \/ t[k].cr)
    <3>1. PICK line : line = lines[k]
      OBVIOUS
    <3>2. line \in LineType /\ line.nl = TRUE /\ line.cr = FALSE
      BY <1>2, <2>3, <3>1, Zenon DEF Scanned
    <3>3. t[k] # line
      BY <2>4, <3>2, Zenon
    <3>4. k = Len(t) /\ line # Blank /\ t[k] = [line EXCEPT !.nl = FALSE]
      BY <2>2, <2>3, <3>1, <3>3
    <3>5. t[k].is = line.is /\ t[k].quotes = line.quotes /\ t[k].size = line.size
      BY <3>2, <3>4 DEF LineType
    <3>6. line.quotes \in Nat /\ line.size \in Nat
      BY <3>2 DEF LineType
    <3>7. ~(line.is = "other" /\ line.quotes = 0 /\ line.size = 0)
      <4>1. /\ Blank \in LineType /\ Blank.cr = FALSE /\ Blank.nl = TRUE
        BY EndLines, Zenon DEF Scanned
      <4>2. Blank.is = "other" /\ Blank.quotes = 0 /\ Blank.size = 0
        BY DEF Blank
      <4> QED BY <3>2, <3>4, <4>1, <4>2, LineIs, Zenon
    <3> QED BY <3>4, <3>5, <3>6, <3>7
  <2>5. Returned(text) = t
    BY <1>1, <1>5, <2>1 DEF Returned
  <2> QED BY <2>2, <2>4, <2>5 DEF Texts
<1> QED BY <1>4, <1>5

(* An entry of the file is the envelope and the quoted lines of a body,    *)
(* which has a blank line in the end if the message was read to its end.   *)
Body(text)    == IF Whole(text) THEN Append(Lines(text), Blank) ELSE Lines(text)
Clear(b, q)   == \A k \in 1 .. q : Fits(Quote(b[k]))
Legible(text) == \A k \in DOMAIN Lines(text) : Fits(Quote(Lines(text)[k]))

LEMMA BodyIs ==
  ASSUME NEW text \in Texts
  PROVE  /\ Body(text) \in Seq(LineType) /\ Len(Body(text)) \in Nat
         /\ \A q \in 1 .. Len(Body(text)) : Scanned(Body(text)[q])
         /\ Trim(Body(text)) = Returned(text)
         /\ Clear(Body(text), Len(Body(text))) <=> Legible(text)
<1>1. PICK lines, c : lines = Lines(text) /\ c = Cut(text)
  OBVIOUS
<1>2. /\ lines \in Seq(LineType) /\ DOMAIN lines = 1 .. c /\ Len(lines) = c /\ c \in Nat
      /\ \A k \in 1 .. c : Scanned(lines[k])
  BY <1>1, LinesIs
<1>3. CASE ~Whole(text)
  BY <1>1, <1>2, <1>3 DEF Body, Returned, Clear, Legible
<1>4. CASE Whole(text)
  <2>1. PICK b : b = Append(lines, Blank)
    OBVIOUS
  <2>2. Blank \in LineType /\ Scanned(Blank) /\ Quote(Blank) = Blank /\ Fits(Blank)
    BY EndLines, Zenon DEF Scanned
  <2>3. /\ b \in Seq(LineType) /\ Len(b) = c + 1 /\ b[c + 1] = Blank
        /\ \A k \in 1 .. c : b[k] = lines[k]
    BY <1>2, <2>1, <2>2
  <2>4. \A k \in 1 .. c + 1 : k \in 1 .. c \/ k = c + 1
    BY <1>2
  <2>5. Body(text) = b /\ Returned(text) = lines
    BY <1>1, <1>4, <2>1 DEF Body, Returned
  <2>6. Trim(b) = lines
    <3>1. b # <<>> /\ Last(b) = Blank
      BY <1>2, <2>3 DEF Last
    <3>2. Front(b) = SubSeq(b, 1, c)
      BY <1>2, <2>3 DEF Front
    <3>3. SubSeq(b, 1, c) \in Seq(LineType) /\ Len(SubSeq(b, 1, c)) = c
          /\ \A k \in 1 .. c : SubSeq(b, 1, c)[k] = b[k]
      BY <1>2, <2>3
    <3>4. SubSeq(b, 1, c) = lines
      BY <1>2, <2>3, <3>3, SeqEqual
    <3> QED BY <3>1, <3>2, <3>4 DEF Trim
  <2>7. Clear(b, c + 1) <=> Legible(text)
    <3>1. Legible(text) <=> \A k \in 1 .. c : Fits(Quote(lines[k]))
      BY <1>1, <1>2 DEF Legible
    <3>2. Fits(Quote(b[c + 1])) /\ c + 1 \in 1 .. c + 1 /\ \A k \in 1 .. c : k \in 1 .. c + 1
      BY <1>2, <2>2, <2>3
    <3> QED BY <2>3, <2>4, <3>1, <3>2 DEF Clear
  <2>8. \A q \in 1 .. c + 1 : Scanned(b[q])
    BY <1>2, <2>2, <2>3, <2>4
  <2> QED BY <1>2, <2>3, <2>5, <2>6, <2>7, <2>8
<1> QED BY <1>3, <1>4

LEMMA EntryIs ==
  ASSUME NEW text \in Texts
  PROVE  /\ WriteMboxEntry(text) \in Seq(LineType)
         /\ Len(WriteMboxEntry(text)) = Len(Body(text)) + 1
         /\ WriteMboxEntry(text)[1] = Envelope
         /\ \A q \in 1 .. Len(Body(text)) : WriteMboxEntry(text)[q + 1] = Quote(Body(text)[q])
<1>1. PICK c \in Nat : c = Cut(text)
  BY CutIs
<1>2. PICK lines : lines = Lines(text)
  OBVIOUS
<1>3. /\ lines \in Seq(LineType) /\ Len(lines) = c
      /\ \A k \in 1 .. c : lines[k] = Scan(text[k]) /\ Scanned(lines[k])
  BY <1>1, <1>2, LinesIs
<1>4. PICK quoted : quoted = [k \in 1 .. c |-> Quote(Scan(text[k]))]
  OBVIOUS
<1>5. \A k \in 1 .. c : quoted[k] = Quote(lines[k]) /\ quoted[k] \in LineType
  BY <1>3, <1>4, QuoteUndone
<1>6. quoted \in [1 .. c -> LineType]
  BY <1>4, <1>5
<1>7. quoted \in Seq(LineType) /\ Len(quoted) = c
  BY <1>6, LenProperties
<1>8. Envelope \in LineType /\ Blank \in LineType /\ Quote(Blank) = Blank
  BY EndLines, Zenon DEF Scanned
<1>9. PICK front : front = <<Envelope>> \o quoted
  OBVIOUS
<1>10. /\ front \in Seq(LineType) /\ Len(front) = c + 1 /\ front[1] = Envelope
       /\ \A q \in 1 .. c : front[q + 1] = quoted[q]
  BY <1>7, <1>8, <1>9
<1>11. CASE Whole(text)
  <2>1. WriteMboxEntry(text) = front \o <<Blank>>
    BY <1>1, <1>4, <1>9, <1>11 DEF WriteMboxEntry
  <2>2. PICK e : e = front \o <<Blank>>
    OBVIOUS
  <2>3. /\ e \in Seq(LineType) /\ Len(e) = c + 2 /\ e[c + 2] = Blank
        /\ \A q \in 1 .. c + 1 : e[q] = front[q]
    BY <1>8, <1>10, <2>2
  <2>4. PICK b : b = Append(lines, Blank)
    OBVIOUS
  <2>5. Len(b) = c + 1 /\ b[c + 1] = Blank /\ \A q \in 1 .. c : b[q] = lines[q]
    BY <1>3, <1>8, <2>4
  <2>6. Body(text) = b
    BY <1>2, <1>11, <2>4 DEF Body
  <2>7. \A q \in 1 .. c + 1 : q \in 1 .. c \/ q = c + 1
    OBVIOUS
  <2>8. ASSUME NEW q \in 1 .. c + 1 PROVE e[q + 1] = Quote(b[q])
    <3>1. CASE q = c + 1
      BY <1>8, <2>3, <2>5, <3>1
    <3>2. CASE q \in 1 .. c
      <4>1. q + 1 \in 1 .. c + 1
        BY <3>2
      <4> QED BY <1>5, <1>10, <2>3, <2>5, <3>2, <4>1
    <3> QED BY <2>7, <3>1, <3>2
  <2>9. 1 \in 1 .. c + 1 /\ (c + 1) + 1 = c + 2
    OBVIOUS
  <2> QED BY <1>10, <2>1, <2>2, <2>3, <2>5, <2>6, <2>8, <2>9
<1>12. CASE ~Whole(text)
  <2>1. WriteMboxEntry(text) = front \o <<>>
    BY <1>1, <1>4, <1>9, <1>12 DEF WriteMboxEntry
  <2>2. front \o <<>> = front
    BY <1>10
  <2>3. Body(text) = lines
    BY <1>2, <1>12 DEF Body
  <2> QED BY <1>3, <1>5, <1>10, <2>1, <2>2, <2>3
<1> QED BY <1>11, <1>12

IsMboxFold(texts, g) ==
    g = [s \in SUBSET DOMAIN texts |->
            IF s = {} THEN <<>> ELSE g[s \ {Max(s)}] \o WriteMboxEntry(texts[Max(s)])]

(* An mbox file grows by one entry for each message. *)
LEMMA MboxFold ==
  ASSUME NEW texts \in Seq(Texts)
  PROVE  \E h : /\ h[0] = <<>> /\ Mbox(texts) = h[Len(texts)]
                /\ \A k \in 1 .. Len(texts) : h[k] = h[k - 1] \o WriteMboxEntry(texts[k])
<1>1. PICK n \in Nat : n = Len(texts) /\ DOMAIN texts = 1 .. n /\ \A k \in 1 .. n : texts[k] \in Texts
  OBVIOUS
<1>2. PICK A : A = Seq(LineType)
  OBVIOUS
<1>3. PICK F : F = [p \in (1 .. n) \X A |-> p[2] \o WriteMboxEntry(texts[p[1]])]
  OBVIOUS
<1>4. \A k \in 1 .. n, a \in A : F[<<k, a>>] = a \o WriteMboxEntry(texts[k]) /\ F[<<k, a>>] \in A
  <2>1. ASSUME NEW k \in 1 .. n, NEW a \in A
        PROVE  F[<<k, a>>] = a \o WriteMboxEntry(texts[k]) /\ F[<<k, a>>] \in A
    <3>1. <<k, a>> \in (1 .. n) \X A
      OBVIOUS
    <3>2. F[<<k, a>>] = a \o WriteMboxEntry(texts[k])
      BY <1>3, <3>1
    <3>3. WriteMboxEntry(texts[k]) \in Seq(LineType)
      BY <1>1, EntryIs
    <3> QED BY <1>2, <3>2, <3>3
  <2> QED BY <2>1
<1>5. F \in [(1 .. n) \X A -> A] /\ <<>> \in A
  <2>1. \A p \in (1 .. n) \X A : p = <<p[1], p[2]>> /\ p[1] \in 1 .. n /\ p[2] \in A
    OBVIOUS
  <2>2. \A p \in (1 .. n) \X A : F[p] \in A
    BY <1>4, <2>1
  <2> QED BY <1>2, <1>3, <2>2
<1>6. PICK g \in [SUBSET (1 .. n) -> A] : IsFold(g, n, <<>>, F)
  BY <1>5, FoldExists DEF HasFold
<1>7. ASSUME NEW s \in SUBSET (1 .. n)
      PROVE  g[s] = IF s = {} THEN <<>> ELSE g[s \ {Max(s)}] \o WriteMboxEntry(texts[Max(s)])
  <2>1. s # {} => Max(s) \in 1 .. n /\ s \ {Max(s)} \in SUBSET (1 .. n)
    BY MaxIn
  <2>2. s # {} => g[s] = F[<<Max(s), g[s \ {Max(s)}]>>]
    BY <1>6 DEF IsFold
  <2>3. s = {} => g[s] = <<>>
    BY <1>6 DEF IsFold
  <2> QED BY <1>4, <1>6, <2>1, <2>2, <2>3
<1>8. IsMboxFold(texts, g)
  BY <1>1, <1>6, <1>7 DEF IsMboxFold
<1>9. PICK f : f = CHOOSE x : IsMboxFold(texts, x)
  OBVIOUS
<1>10. IsMboxFold(texts, f)
  BY <1>8, <1>9
<1>11. Mbox(texts) = f[DOMAIN texts]
  BY <1>9 DEF Mbox, FoldLeft, MapThenFoldSet, IsMboxFold
<1>12. \A s \in SUBSET (1 .. n) :
          f[s] = IF s = {} THEN <<>> ELSE f[s \ {Max(s)}] \o WriteMboxEntry(texts[Max(s)])
  BY <1>1, <1>10 DEF IsMboxFold
<1>13. PICK h : h = [k \in 0 .. n |-> f[1 .. k]]
  OBVIOUS
<1>14. h[0] = <<>>
  BY <1>12, <1>13
<1>15. ASSUME NEW k \in 1 .. n PROVE h[k] = h[k - 1] \o WriteMboxEntry(texts[k])
  <2>1. 1 .. k \in SUBSET (1 .. n) /\ k \in 0 .. n /\ k - 1 \in 0 .. n
    OBVIOUS
  <2>2. f[1 .. k] = f[1 .. k - 1] \o WriteMboxEntry(texts[k])
    <3>1. k \in Nat /\ k # 0
      OBVIOUS
    <3>2. Max(1 .. k) = k /\ (1 .. k) \ {k} = 1 .. k - 1 /\ 1 .. k # {}
      BY <3>1, MaxRange
    <3> QED BY <1>12, <2>1, <3>2
  <2> QED BY <1>13, <2>1, <2>2
<1>16. Mbox(texts) = h[n]
  BY <1>1, <1>11, <1>13
<1> QED BY <1>1, <1>14, <1>15, <1>16

(* Reading an mbox file. *)
WalkType == [started : BOOLEAN, current : Seq(LineType), found : Seq(Seq(LineType)), failed : BOOLEAN]

LEMMA FlushType ==
  ASSUME NEW walk \in WalkType
  PROVE  Flush(walk) \in Seq(Seq(LineType))
<1>1. walk.current \in Seq(LineType) /\ walk.found \in Seq(Seq(LineType))
  BY DEF WalkType
<1>2. PICK t : t = Trim(walk.current)
  OBVIOUS
<1>3. t \in Seq(LineType)
  BY <1>1, <1>2, TrimIs
<1>4. Append(walk.found, t) \in Seq(Seq(LineType))
  BY <1>1, <1>3
<1> QED BY <1>1, <1>2, <1>4 DEF Flush

(* What one line does: it fails, starts a message, belongs to one or is    *)
(* passed over.                                                            *)
LEMMA WalkLineIs ==
  ASSUME NEW walk \in WalkType, NEW line \in LineType
  PROVE  /\ walk.failed \/ ~Fits(line) =>
               /\ WalkLine(walk, line) \in WalkType /\ WalkLine(walk, line).failed
               /\ WalkLine(walk, line).found = walk.found
         /\ ~walk.failed /\ Fits(line) /\ IsFrom(line) =>
               /\ WalkLine(walk, line) \in WalkType /\ ~WalkLine(walk, line).failed
               /\ WalkLine(walk, line).started /\ WalkLine(walk, line).current = <<>>
               /\ WalkLine(walk, line).found = Flush(walk)
         /\ ~walk.failed /\ Fits(line) /\ ~IsFrom(line) /\ walk.started =>
               /\ WalkLine(walk, line) \in WalkType /\ ~WalkLine(walk, line).failed
               /\ WalkLine(walk, line).started
               /\ WalkLine(walk, line).current = Append(walk.current, Unquote(Scan(line)))
               /\ WalkLine(walk, line).found = walk.found
         /\ ~walk.failed /\ Fits(line) /\ ~IsFrom(line) /\ ~walk.started => WalkLine(walk, line) = walk
<1>1. PICK y : y = WalkLine(walk, line)
  OBVIOUS
<1>2. ASSUME walk.failed \/ ~Fits(line)
      PROVE  y \in WalkType /\ y.failed /\ y.found = walk.found
  <2>1. y = [walk EXCEPT !.failed = TRUE]
    BY <1>1, <1>2 DEF WalkLine
  <2> QED BY <2>1 DEF WalkType
<1>3. ASSUME ~walk.failed, Fits(line), IsFrom(line)
      PROVE  y \in WalkType /\ ~y.failed /\ y.started /\ y.current = <<>> /\ y.found = Flush(walk)
  <2>1. PICK f \in Seq(Seq(LineType)) : f = Flush(walk)
    BY FlushType
  <2>2. y = [started |-> TRUE, current |-> <<>>, found |-> f, failed |-> FALSE]
    BY <1>1, <1>3, <2>1 DEF WalkLine
  <2>3. <<>> \in Seq(LineType)
    OBVIOUS
  <2> QED BY <2>1, <2>2, <2>3 DEF WalkType
<1>4. ASSUME ~walk.failed, Fits(line), ~IsFrom(line), walk.started
      PROVE  /\ y \in WalkType /\ ~y.failed /\ y.started
             /\ y.current = Append(walk.current, Unquote(Scan(line))) /\ y.found = walk.found
  <2>1. PICK u \in LineType : u = Unquote(Scan(line))
    BY LineSteps, Zenon DEF Scanned
  <2>2. PICK c : c = Append(walk.current, u)
    OBVIOUS
  <2>3. c \in Seq(LineType)
    BY <2>1, <2>2 DEF WalkType
  <2>4. y = [walk EXCEPT !.current = c]
    BY <1>1, <1>4, <2>1, <2>2 DEF WalkLine
  <2>5. y \in WalkType /\ y.current = c /\ y.found = walk.found /\ y.started = walk.started /\ y.failed = walk.failed
    BY <2>3, <2>4 DEF WalkType
  <2> QED BY <1>4, <2>1, <2>2, <2>5, Zenon
<1>5. ASSUME ~walk.failed, Fits(line), ~IsFrom(line), ~walk.started PROVE y = walk
  BY <1>1, <1>5 DEF WalkLine
<1> QED BY <1>1, <1>2, <1>3, <1>4, <1>5, Zenon

LEMMA WalkLineType ==
  ASSUME NEW walk \in WalkType, NEW line \in LineType
  PROVE  WalkLine(walk, line) \in WalkType
BY WalkLineIs, Zenon

IsWalkFold(mbox, g) ==
    g = [s \in SUBSET DOMAIN mbox |->
            IF s = {} THEN NotStarted ELSE WalkLine(g[s \ {Max(s)}], mbox[Max(s)])]

Outcome(walk) == [failed |-> walk.failed, found |-> IF walk.failed THEN walk.found ELSE Flush(walk)]

LEMMA WalkFold ==
  ASSUME NEW mbox \in Seq(LineType)
  PROVE  \E w : /\ w[0] = NotStarted /\ WalkMbox(mbox) = Outcome(w[Len(mbox)])
                /\ \A p \in 1 .. Len(mbox) : w[p] = WalkLine(w[p - 1], mbox[p])
<1>1. PICK n \in Nat : n = Len(mbox) /\ DOMAIN mbox = 1 .. n /\ \A p \in 1 .. n : mbox[p] \in LineType
  OBVIOUS
<1>2. PICK F : F = [p \in (1 .. n) \X WalkType |-> WalkLine(p[2], mbox[p[1]])]
  OBVIOUS
<1>3. \A k \in 1 .. n, a \in WalkType :
          F[<<k, a>>] = WalkLine(a, mbox[k]) /\ F[<<k, a>>] \in WalkType
  <2>1. ASSUME NEW k \in 1 .. n, NEW a \in WalkType
        PROVE  F[<<k, a>>] = WalkLine(a, mbox[k]) /\ F[<<k, a>>] \in WalkType
    <3>1. <<k, a>> \in (1 .. n) \X WalkType
      OBVIOUS
    <3>2. F[<<k, a>>] = WalkLine(a, mbox[k])
      BY <1>2, <3>1
    <3>3. WalkLine(a, mbox[k]) \in WalkType
      BY <1>1, WalkLineType
    <3> QED BY <3>2, <3>3
  <2> QED BY <2>1
<1>4. F \in [(1 .. n) \X WalkType -> WalkType] /\ NotStarted \in WalkType
  <2>1. \A p \in (1 .. n) \X WalkType : p = <<p[1], p[2]>> /\ p[1] \in 1 .. n /\ p[2] \in WalkType
    OBVIOUS
  <2>2. \A p \in (1 .. n) \X WalkType : F[p] \in WalkType
    BY <1>3, <2>1
  <2>3. NotStarted \in WalkType
    BY DEF NotStarted, WalkType
  <2> QED BY <1>2, <2>2, <2>3
<1>5. PICK g \in [SUBSET (1 .. n) -> WalkType] : IsFold(g, n, NotStarted, F)
  BY <1>4, FoldExists DEF HasFold
<1>6. ASSUME NEW s \in SUBSET (1 .. n)
      PROVE  g[s] = IF s = {} THEN NotStarted ELSE WalkLine(g[s \ {Max(s)}], mbox[Max(s)])
  <2>1. s # {} => Max(s) \in 1 .. n /\ s \ {Max(s)} \in SUBSET (1 .. n)
    BY MaxIn
  <2>2. s # {} => g[s] = F[<<Max(s), g[s \ {Max(s)}]>>]
    BY <1>5 DEF IsFold
  <2>3. s = {} => g[s] = NotStarted
    BY <1>5 DEF IsFold
  <2> QED BY <1>3, <1>5, <2>1, <2>2, <2>3
<1>7. IsWalkFold(mbox, g)
  BY <1>1, <1>5, <1>6 DEF IsWalkFold
<1>8. PICK f : f = CHOOSE x : IsWalkFold(mbox, x)
  OBVIOUS
<1>9. IsWalkFold(mbox, f)
  BY <1>7, <1>8
<1>10. WalkMbox(mbox) = Outcome(f[DOMAIN mbox])
  BY <1>8 DEF WalkMbox, FoldLeft, MapThenFoldSet, IsWalkFold, NotStarted, Outcome
<1>11. \A s \in SUBSET (1 .. n) :
          f[s] = IF s = {} THEN NotStarted ELSE WalkLine(f[s \ {Max(s)}], mbox[Max(s)])
  BY <1>1, <1>9 DEF IsWalkFold
<1>12. PICK w : w = [p \in 0 .. n |-> f[1 .. p]]
  OBVIOUS
<1>13. w[0] = NotStarted
  <2>1. 1 .. 0 = {} /\ {} \in SUBSET (1 .. n) /\ 0 \in 0 .. n
    OBVIOUS
  <2> QED BY <1>11, <1>12, <2>1
<1>14. ASSUME NEW p \in 1 .. n PROVE w[p] = WalkLine(w[p - 1], mbox[p])
  <2>1. 1 .. p \in SUBSET (1 .. n) /\ p \in 0 .. n /\ p - 1 \in 0 .. n
    OBVIOUS
  <2>2. Max(1 .. p) = p /\ (1 .. p) \ {p} = 1 .. p - 1 /\ 1 .. p # {}
    <3>1. p \in Nat /\ p # 0
      OBVIOUS
    <3> QED BY <3>1, MaxRange
  <2>3. f[1 .. p] = WalkLine(f[1 .. p - 1], mbox[p])
    BY <1>11, <2>1, <2>2
  <2> QED BY <1>12, <2>1, <2>3
<1>15. WalkMbox(mbox) = Outcome(w[n])
  BY <1>1, <1>10, <1>12
<1> QED BY <1>1, <1>13, <1>14, <1>15

(* An entry read by a walk that has not failed: after q lines of its body  *)
(* they are what the walk holds, or one of them did not fit.               *)
Reading(x, old, b, q) ==
    /\ x \in WalkType /\ x.found = Flush(old)
    /\ Clear(b, q) => ~x.failed /\ x.started /\ x.current = SubSeq(b, 1, q)
    /\ ~Clear(b, q) => x.failed

Steps(w, mbox) == \A p \in 1 .. Len(mbox) : w[p] = WalkLine(w[p - 1], mbox[p])

LEMMA ReadEntry ==
  ASSUME NEW mbox \in Seq(LineType), NEW w, Steps(w, mbox),
         NEW b \in Seq(LineType), \A q \in 1 .. Len(b) : Scanned(b[q]),
         NEW l \in Nat, w[l] \in WalkType, ~w[l].failed, l + (Len(b) + 1) <= Len(mbox),
         mbox[l + 1] = Envelope, \A q \in 1 .. Len(b) : mbox[l + (q + 1)] = Quote(b[q])
  PROVE  Reading(w[l + (Len(b) + 1)], w[l], b, Len(b))
<1>1. PICK n \in Nat : n = Len(b) /\ \A q \in 1 .. n : b[q] \in LineType /\ Scanned(b[q])
  OBVIOUS
<1>2. \A e \in 1 .. n + 1 : l + e \in 1 .. Len(mbox) /\ (l + e) - 1 = l + (e - 1)
  BY <1>1
<1>3. \A e \in 1 .. n + 1 : w[l + e] = WalkLine(w[l + (e - 1)], mbox[l + e])
  BY <1>2 DEF Steps
<1> DEFINE T == {q \in Nat : q <= n => Reading(w[l + (q + 1)], w[l], b, q)}
<1>4. 0 \in T
  <2>1. 1 \in 1 .. n + 1 /\ l + (1 - 1) = l /\ 0 + 1 = 1
    BY <1>1
  <2>2. w[l + 1] = WalkLine(w[l], Envelope)
    BY <1>3, <2>1
  <2>3. PICK y : y = WalkLine(w[l], Envelope)
    OBVIOUS
  <2>4. y \in WalkType /\ ~y.failed /\ y.started /\ y.current = <<>> /\ y.found = Flush(w[l])
    <3>1. Envelope \in LineType /\ IsFrom(Envelope) /\ Fits(Envelope)
      BY EndLines
    <3>2. PICK x : x = w[l]
      OBVIOUS
    <3>3. x \in WalkType /\ ~x.failed
      BY <3>2
    <3>4. PICK line : line = Envelope
      OBVIOUS
    <3>5. line \in LineType /\ IsFrom(line) /\ Fits(line)
      BY <3>1, <3>4
    <3>6. y = WalkLine(x, line)
      BY <2>3, <3>2, <3>4
    <3>7. y \in WalkType /\ ~y.failed /\ y.started /\ y.current = <<>> /\ y.found = Flush(x)
      BY <3>3, <3>5, <3>6, WalkLineIs
    <3> QED BY <3>2, <3>7
  <2>5. Clear(b, 0) /\ SubSeq(b, 1, 0) = <<>>
    <3>1. PICK s : s = SubSeq(b, 1, 0)
      OBVIOUS
    <3>2. s \in Seq(LineType) /\ Len(s) = 0
      BY <3>1
    <3>3. s = <<>>
      BY <3>2
    <3>4. 1 .. 0 = {}
      OBVIOUS
    <3> QED BY <3>1, <3>3, <3>4 DEF Clear
  <2>6. Reading(w[l + 1], w[l], b, 0)
    BY <2>2, <2>3, <2>4, <2>5, Zenon DEF Reading
  <2> QED BY <2>1, <2>6
<1>5. ASSUME NEW q \in Nat, q \in T PROVE q + 1 \in T
  <2>1. SUFFICES ASSUME q + 1 <= n PROVE Reading(w[l + ((q + 1) + 1)], w[l], b, q + 1)
    OBVIOUS
  <2>2. PICK r \in 1 .. n : r = q + 1 /\ r - 1 = q /\ r + 1 \in 1 .. n + 1 /\ (r + 1) - 1 = r /\ q <= n
    BY <1>1, <2>1
  <2>3. PICK x, line : x = w[l + r] /\ line = Quote(b[r])
    OBVIOUS
  <2>4. Reading(x, w[l], b, q)
    BY <1>5, <2>2, <2>3
  <2>5. line \in LineType /\ Scan(line) = line /\ ~IsFrom(line) /\ Unquote(line) = b[r]
    BY <1>1, <2>3, QuoteUndone, Zenon
  <2>6. PICK y : y = WalkLine(x, line)
    OBVIOUS
  <2>7. w[l + (r + 1)] = y
    BY <1>1, <1>3, <2>2, <2>3, <2>6
  <2>8. Clear(b, r) <=> Clear(b, q) /\ Fits(line)
    <3>1. \A k \in 1 .. r : k \in 1 .. q \/ k = r
      BY <2>2
    <3>2. r \in 1 .. r /\ \A k \in 1 .. q : k \in 1 .. r
      BY <2>2
    <3> QED BY <2>3, <3>1, <3>2 DEF Clear
  <2>9. x \in WalkType /\ x.found = Flush(w[l])
    BY <2>4, Zenon DEF Reading
  <2>10. CASE Clear(b, r)
    <3>1. ~x.failed /\ x.started /\ x.current = SubSeq(b, 1, q) /\ Fits(line)
      BY <2>4, <2>8, <2>10, Zenon DEF Reading
    <3>2. y \in WalkType /\ ~y.failed /\ y.started /\ y.current = Append(x.current, Unquote(Scan(line)))
          /\ y.found = x.found
      BY <2>5, <2>6, <2>9, <3>1, WalkLineIs, Zenon
    <3>3. SubSeq(b, 1, r) = Append(SubSeq(b, 1, q), b[r])
      <4>1. PICK c, d, z : c = SubSeq(b, 1, q) /\ d = SubSeq(b, 1, r) /\ z = b[r]
        OBVIOUS
      <4>2. c \in Seq(LineType) /\ Len(c) = q /\ \A k \in 1 .. q : c[k] = b[k]
        BY <1>1, <2>2, <4>1
      <4>3. d \in Seq(LineType) /\ Len(d) = r /\ \A k \in 1 .. r : d[k] = b[k]
        BY <1>1, <2>2, <4>1
      <4>4. z \in LineType
        BY <1>1, <4>1
      <4>5. PICK v : v = Append(c, z)
        OBVIOUS
      <4>6. v \in Seq(LineType) /\ Len(v) = r /\ v[r] = z /\ \A k \in 1 .. q : v[k] = c[k]
        BY <2>2, <4>2, <4>4, <4>5
      <4>7. \A k \in 1 .. r : k \in 1 .. q \/ k = r
        BY <2>2
      <4>8. ASSUME NEW k \in 1 .. r PROVE v[k] = d[k]
        BY <4>1, <4>2, <4>3, <4>6, <4>7
      <4>9. v = d
        BY <4>3, <4>6, <4>8, SeqEqual
      <4> QED BY <4>1, <4>5, <4>9
    <3>4. y.current = SubSeq(b, 1, r)
      BY <2>5, <3>1, <3>2, <3>3, Zenon
    <3>5. Reading(y, w[l], b, r)
      BY <2>9, <2>10, <3>2, <3>4, Zenon DEF Reading
    <3> QED BY <2>2, <2>7, <3>5
  <2>11. CASE ~Clear(b, r)
    <3>1. x.failed \/ ~Fits(line)
      BY <2>4, <2>8, <2>11, Zenon DEF Reading
    <3>2. y \in WalkType /\ y.failed /\ y.found = x.found
      BY <2>5, <2>6, <2>9, <3>1, WalkLineIs, Zenon
    <3>3. Reading(y, w[l], b, r)
      BY <2>9, <2>11, <3>2, Zenon DEF Reading
    <3> QED BY <2>2, <2>7, <3>3
  <2> QED BY <2>10, <2>11
<1>6. Nat \subseteq T
  <2> HIDE DEF T
  <2> QED BY <1>4, <1>5, Induction
<1> QED BY <1>1, <1>6

(* Once it has failed, the walk takes nothing more. *)
Stopped(x, old) == x \in WalkType /\ x.failed /\ x.found = old.found

LEMMA SkipEntry ==
  ASSUME NEW mbox \in Seq(LineType), NEW w, Steps(w, mbox),
         NEW l \in Nat, NEW n \in Nat, l + n <= Len(mbox), w[l] \in WalkType, w[l].failed
  PROVE  Stopped(w[l + n], w[l])
<1> DEFINE T == {e \in Nat : e <= n => Stopped(w[l + e], w[l])}
<1>1. 0 \in T
  <2>1. l + 0 = l
    OBVIOUS
  <2>2. Stopped(w[l], w[l])
    BY Zenon DEF Stopped
  <2> QED BY <2>1, <2>2
<1>2. ASSUME NEW e \in Nat, e \in T PROVE e + 1 \in T
  <2>1. SUFFICES ASSUME e + 1 <= n PROVE Stopped(w[l + (e + 1)], w[l])
    OBVIOUS
  <2>2. e <= n /\ l + (e + 1) \in 1 .. Len(mbox) /\ (l + (e + 1)) - 1 = l + e
    BY <2>1
  <2>3. PICK x, line : x = w[l + e] /\ line = mbox[l + (e + 1)]
    OBVIOUS
  <2>4. x \in WalkType /\ x.failed /\ x.found = w[l].found
    <3>1. Stopped(x, w[l])
      BY <1>2, <2>2, <2>3
    <3> QED BY <3>1, Zenon DEF Stopped
  <2>5. line \in LineType
    BY <2>2, <2>3
  <2>6. PICK y : y = WalkLine(x, line)
    OBVIOUS
  <2>7. y \in WalkType /\ y.failed /\ y.found = x.found
    BY <2>4, <2>5, <2>6, WalkLineIs, Zenon
  <2>8. w[l + (e + 1)] = y
    BY <2>2, <2>3, <2>6 DEF Steps
  <2>9. Stopped(y, w[l])
    BY <2>4, <2>7, Zenon DEF Stopped
  <2> QED BY <2>8, <2>9
<1>3. Nat \subseteq T
  <2> HIDE DEF T
  <2> QED BY <1>1, <1>2, Induction
<1> QED BY <1>3

(* The state after a number of messages: the last one is still being read. *)
After(walk, texts, k) ==
    IF k = 0 THEN walk = NotStarted
    ELSE /\ walk \in WalkType /\ walk.started /\ ~walk.failed
         /\ walk.current = Body(texts[k])
         /\ walk.found = [m \in 1 .. k - 1 |-> Returned(texts[m])]

LEMMA FlushAfter ==
  ASSUME NEW texts \in Seq(Texts), NEW k \in 0 .. Len(texts), NEW walk, After(walk, texts, k)
  PROVE  walk \in WalkType /\ ~walk.failed /\ Flush(walk) = [m \in 1 .. k |-> Returned(texts[m])]
<1>1. \A m \in 1 .. k : texts[m] \in Texts /\ Returned(texts[m]) \in Texts
  BY ReturnedType
<1>2. CASE k = 0
  <2>1. walk = NotStarted
    BY <1>2 DEF After
  <2>2. walk \in WalkType /\ ~walk.started /\ ~walk.failed /\ walk.found = <<>>
    BY <2>1 DEF NotStarted, WalkType
  <2>3. [m \in 1 .. k |-> Returned(texts[m])] = <<>>
    <3>1. PICK s : s = [m \in 1 .. k |-> Returned(texts[m])]
      OBVIOUS
    <3>2. s \in [1 .. 0 -> Texts]
      BY <1>1, <1>2, <3>1
    <3>3. s \in Seq(Texts) /\ Len(s) = 0
      BY <3>2, LenProperties
    <3> QED BY <3>1, <3>3
  <2> QED BY <2>2, <2>3 DEF Flush
<1>3. CASE k # 0
  <2>1. PICK t \in Texts : t = Returned(texts[k]) /\ texts[k] \in Texts
    <3>1. k \in 1 .. k
      BY <1>3
    <3> QED BY <1>1, <3>1
  <2>2. PICK f : f = [m \in 1 .. k - 1 |-> Returned(texts[m])]
    OBVIOUS
  <2>3. walk \in WalkType /\ walk.started /\ ~walk.failed /\ walk.current = Body(texts[k]) /\ walk.found = f
    BY <1>3, <2>2, Zenon DEF After
  <2>4. Trim(walk.current) = t
    BY <2>1, <2>3, BodyIs
  <2>5. Flush(walk) = Append(f, t)
    BY <2>3, <2>4, Zenon DEF Flush
  <2>6. f \in [1 .. k - 1 -> Texts] /\ k - 1 \in Nat
    BY <1>1, <1>3, <2>2
  <2>7. f \in Seq(Texts) /\ Len(f) = k - 1
    BY <2>6, LenProperties
  <2>8. PICK g : g = [m \in 1 .. k |-> Returned(texts[m])]
    OBVIOUS
  <2>9. g \in [1 .. k -> Texts] /\ k \in Nat
    BY <1>1, <2>8
  <2>10. g \in Seq(Texts) /\ Len(g) = k
    BY <2>9, LenProperties
  <2>11. Append(f, t) \in Seq(Texts) /\ Len(Append(f, t)) = k
    BY <1>3, <2>7
  <2>12. \A m \in 1 .. k : Append(f, t)[m] = g[m]
    <3>1. \A m \in 1 .. k - 1 : f[m] = g[m]
      BY <2>2, <2>8
    <3>2. g[k] = t
      BY <1>3, <2>1, <2>8
    <3> QED BY <1>3, <2>7, <3>1, <3>2
  <2>13. Append(f, t) = g
    BY <2>10, <2>11, <2>12, SeqEqual
  <2> QED BY <2>3, <2>5, <2>8, <2>13, Zenon
<1> QED BY <1>2, <1>3

Prefix(s, mbox) == s \in Seq(LineType) /\ Len(s) <= Len(mbox) /\ \A p \in 1 .. Len(s) : mbox[p] = s[p]

LEMMA PrefixFront ==
  ASSUME NEW mbox \in Seq(LineType), NEW a \in Seq(LineType), NEW b \in Seq(LineType), Prefix(a \o b, mbox)
  PROVE  /\ Prefix(a, mbox) /\ Len(a) + Len(b) <= Len(mbox)
         /\ \A e \in 1 .. Len(b) : mbox[Len(a) + e] = b[e]
<1>1. PICK c : c = a \o b
  OBVIOUS
<1>2. /\ c \in Seq(LineType) /\ Len(c) = Len(a) + Len(b)
      /\ \A p \in 1 .. Len(a) : c[p] = a[p] /\ p \in 1 .. Len(c)
      /\ \A e \in 1 .. Len(b) : c[Len(a) + e] = b[e] /\ Len(a) + e \in 1 .. Len(c)
  BY <1>1
<1>3. Len(c) <= Len(mbox) /\ \A p \in 1 .. Len(c) : mbox[p] = c[p]
  BY <1>1 DEF Prefix
<1>4. Len(a) \in Nat /\ Len(b) \in Nat /\ Len(mbox) \in Nat
  OBVIOUS
<1>5. Len(a) <= Len(mbox) /\ Len(a) + Len(b) <= Len(mbox)
  BY <1>2, <1>3, <1>4
<1> QED BY <1>2, <1>3, <1>5 DEF Prefix

(* The file in a walk: after k messages the walk is reading the k-th, if   *)
(* they and those before are legible, or it has stopped at the first that  *)
(* is not.                                                                 *)
LegibleTo(texts) == Reach({m \in DOMAIN texts : Legible(texts[m])}, Len(texts))

State(walk, texts, k) ==
    /\ k <= LegibleTo(texts) => After(walk, texts, k)
    /\ k > LegibleTo(texts) =>
          /\ walk \in WalkType /\ walk.failed
          /\ walk.found = [m \in 1 .. LegibleTo(texts) |-> Returned(texts[m])]

LEMMA ReadMessage ==
  ASSUME NEW mbox \in Seq(LineType), NEW w, Steps(w, mbox), NEW texts \in Seq(Texts),
         NEW k \in Nat, k + 1 \in 1 .. Len(texts), NEW a \in Seq(LineType),
         Prefix(a \o WriteMboxEntry(texts[k + 1]), mbox), State(w[Len(a)], texts, k)
  PROVE  State(w[Len(a \o WriteMboxEntry(texts[k + 1]))], texts, k + 1)
<1>1. PICK text \in Texts : text = texts[k + 1]
  OBVIOUS
<1>2. PICK b, e : b = Body(text) /\ e = WriteMboxEntry(text)
  OBVIOUS
<1>3. b \in Seq(LineType) /\ Len(b) \in Nat /\ (\A q \in 1 .. Len(b) : Scanned(b[q]))
      /\ (Clear(b, Len(b)) <=> Legible(text))
  BY <1>2, BodyIs
<1>4. e \in Seq(LineType) /\ Len(e) = Len(b) + 1 /\ e[1] = Envelope
      /\ \A q \in 1 .. Len(b) : e[q + 1] = Quote(b[q])
  BY <1>2, EntryIs
<1>5. PICK l \in Nat : l = Len(a)
  OBVIOUS
<1>6. l + Len(e) <= Len(mbox) /\ \A d \in 1 .. Len(e) : mbox[l + d] = e[d]
  <2>1. Prefix(a \o e, mbox)
    BY <1>1, <1>2
  <2> QED BY <1>4, <1>5, <2>1, PrefixFront
<1>7. Len(a \o e) = l + (Len(b) + 1)
  <2>1. Len(a \o e) = Len(a) + Len(e)
    BY <1>4, ConcatProperties, Zenon
  <2> QED BY <1>4, <1>5, <2>1
<1>8. PICK x : x = w[l + (Len(b) + 1)]
  OBVIOUS
<1>9. SUFFICES State(x, texts, k + 1)
  BY <1>1, <1>2, <1>7, <1>8
<1>10. PICK r \in Nat :
          /\ r = LegibleTo(texts) /\ r <= Len(texts) /\ \A m \in 1 .. r : Legible(texts[m])
          /\ r < Len(texts) => ~Legible(texts[r + 1])
  <2>1. PICK n \in Nat : n = Len(texts) /\ DOMAIN texts = 1 .. n
    OBVIOUS
  <2>2. PICK s : s = {m \in 1 .. n : Legible(texts[m])}
    OBVIOUS
  <2>3. PICK r : r = Reach(s, n)
    OBVIOUS
  <2>4. r \in 0 .. n /\ 1 .. r \subseteq s /\ (r < n => r + 1 \notin s)
    BY <2>3, ReachIs
  <2>5. r < n => r + 1 \in 1 .. n
    BY <2>4
  <2>6. r = LegibleTo(texts)
    BY <2>1, <2>2, <2>3 DEF LegibleTo
  <2>7. r \in Nat /\ r <= n
    BY <2>1, <2>4
  <2>8. \A m \in 1 .. r : Legible(texts[m])
    BY <2>2, <2>4
  <2>9. r < n => ~Legible(texts[r + 1])
    BY <2>2, <2>4, <2>5
  <2> QED BY <2>1, <2>6, <2>7, <2>8, <2>9
<1>11. CASE k <= r
  <2>1. After(w[l], texts, k)
    BY <1>5, <1>10, <1>11 DEF State
  <2>2. PICK f : f = Flush(w[l])
    OBVIOUS
  <2>3. w[l] \in WalkType /\ ~w[l].failed /\ f = [m \in 1 .. k |-> Returned(texts[m])]
    <3>1. k \in 0 .. Len(texts)
      OBVIOUS
    <3> QED BY <2>1, <2>2, <3>1, FlushAfter
  <2>4. mbox[l + 1] = Envelope /\ \A q \in 1 .. Len(b) : mbox[l + (q + 1)] = Quote(b[q])
    <3>1. 1 \in 1 .. Len(e) /\ \A q \in 1 .. Len(b) : q + 1 \in 1 .. Len(e)
      BY <1>3, <1>4
    <3> QED BY <1>4, <1>6, <3>1
  <2>5. l + (Len(b) + 1) <= Len(mbox)
    BY <1>4, <1>6
  <2>6. Reading(x, w[l], b, Len(b))
    BY <1>3, <1>8, <2>3, <2>4, <2>5, ReadEntry
  <2>7. x \in WalkType /\ x.found = [m \in 1 .. k |-> Returned(texts[m])]
    BY <2>2, <2>3, <2>6, Zenon DEF Reading
  <2>8. CASE k + 1 <= r
    <3>1. Legible(text)
      BY <1>1, <1>10, <2>8
    <3>2. ~x.failed /\ x.started /\ x.current = SubSeq(b, 1, Len(b))
      BY <1>3, <2>6, <3>1, Zenon DEF Reading
    <3>3. SubSeq(b, 1, Len(b)) = b
      <4>1. PICK s, n : s = SubSeq(b, 1, Len(b)) /\ n = Len(b)
        OBVIOUS
      <4>2. s \in Seq(LineType) /\ Len(s) = n /\ n \in Nat /\ \A q \in 1 .. n : s[q] = b[q]
        BY <1>3, <4>1
      <4> QED BY <1>3, <4>1, <4>2, SeqEqual
    <3>4. k + 1 # 0 /\ (k + 1) - 1 = k
      OBVIOUS
    <3>5. x.current = Body(texts[k + 1])
      BY <1>1, <1>2, <3>2, <3>3, Zenon
    <3>6. After(x, texts, k + 1)
      BY <2>7, <3>2, <3>4, <3>5 DEF After
    <3> QED BY <1>10, <2>8, <3>6 DEF State
  <2>9. CASE ~(k + 1 <= r)
    <3>1. k = r /\ r < Len(texts)
      BY <1>10, <1>11, <2>9
    <3>2. ~Legible(text)
      BY <1>1, <1>10, <3>1
    <3>3. x.failed
      BY <1>3, <2>6, <3>2, Zenon DEF Reading
    <3> QED BY <1>10, <2>7, <2>9, <3>1, <3>3 DEF State
  <2> QED BY <2>8, <2>9
<1>12. CASE ~(k <= r)
  <2>1. w[l] \in WalkType /\ w[l].failed /\ w[l].found = [m \in 1 .. r |-> Returned(texts[m])]
    BY <1>5, <1>10, <1>12 DEF State
  <2>2. l + (Len(b) + 1) <= Len(mbox) /\ Len(b) + 1 \in Nat
    BY <1>3, <1>4, <1>6
  <2>3. Stopped(x, w[l])
    BY <1>8, <2>1, <2>2, SkipEntry
  <2>4. x \in WalkType /\ x.failed /\ x.found = w[l].found
    BY <2>3, Zenon DEF Stopped
  <2>5. ~(k + 1 <= r) /\ k + 1 > r
    BY <1>10, <1>12
  <2> QED BY <1>10, <2>1, <2>4, <2>5 DEF State
<1> QED BY <1>11, <1>12

(* What the export writes is what the import reads, whatever lines the     *)
(* messages have, From lines and ones that look quoted already included:   *)
(* every message as Returned says, in order, up to the first with a line   *)
(* that no longer fits the import's buffer once it is quoted; there the    *)
(* import fails (export.go writeMboxEntry, mbox.go WalkMbox).              *)
THEOREM RoundTrip ==
  ASSUME NEW texts \in Seq(Texts)
  PROVE  WalkMbox(Mbox(texts)) =
            [failed |-> LegibleTo(texts) < Len(texts),
             found  |-> [m \in 1 .. LegibleTo(texts) |-> Returned(texts[m])]]
<1>1. PICK n \in Nat : n = Len(texts) /\ \A k \in 1 .. n : texts[k] \in Texts
  OBVIOUS
<1>2. PICK h : /\ h[0] = <<>> /\ Mbox(texts) = h[n]
               /\ \A k \in 1 .. n : h[k] = h[k - 1] \o WriteMboxEntry(texts[k])
  BY <1>1, MboxFold
<1>3. \A k \in 0 .. n : h[k] \in Seq(LineType)
  <2> DEFINE T == {k \in Nat : k <= n => h[k] \in Seq(LineType)}
  <2>1. 0 \in T
    <3>1. <<>> \in Seq(LineType)
      OBVIOUS
    <3> QED BY <1>2, <3>1
  <2>2. ASSUME NEW k \in Nat, k \in T PROVE k + 1 \in T
    <3>1. SUFFICES ASSUME k + 1 <= n PROVE h[k + 1] \in Seq(LineType)
      OBVIOUS
    <3>2. PICK m \in 1 .. n : m = k + 1 /\ m - 1 = k /\ k <= n
      BY <3>1
    <3>3. h[k] \in Seq(LineType) /\ WriteMboxEntry(texts[m]) \in Seq(LineType)
      BY <1>1, <2>2, <3>2, EntryIs
    <3>4. h[m] = h[k] \o WriteMboxEntry(texts[m])
      BY <1>2, <3>2
    <3> QED BY <3>2, <3>3, <3>4
  <2>3. Nat \subseteq T
    <3> HIDE DEF T
    <3> QED BY <2>1, <2>2, Induction
  <2> QED BY <2>3
<1>4. PICK mbox \in Seq(LineType) : mbox = Mbox(texts) /\ mbox = h[n]
  BY <1>2, <1>3
<1>5. PICK w : /\ w[0] = NotStarted /\ WalkMbox(mbox) = Outcome(w[Len(mbox)])
               /\ \A p \in 1 .. Len(mbox) : w[p] = WalkLine(w[p - 1], mbox[p])
  BY WalkFold
<1>6. \A k \in 0 .. n : Prefix(h[k], mbox)
  <2> DEFINE T == {d \in Nat : d <= n => Prefix(h[n - d], mbox)}
  <2>1. 0 \in T
    <3>1. n - 0 = n
      OBVIOUS
    <3>2. Prefix(mbox, mbox)
      BY DEF Prefix
    <3> QED BY <1>4, <3>1, <3>2
  <2>2. ASSUME NEW d \in Nat, d \in T PROVE d + 1 \in T
    <3>1. SUFFICES ASSUME d + 1 <= n PROVE Prefix(h[n - (d + 1)], mbox)
      OBVIOUS
    <3>2. PICK m \in 1 .. n : m = n - d /\ m - 1 = n - (d + 1) /\ m - 1 \in 0 .. n /\ d <= n
      BY <3>1
    <3>3. h[m] = h[m - 1] \o WriteMboxEntry(texts[m]) /\ Prefix(h[m], mbox)
      BY <1>2, <2>2, <3>2
    <3>4. h[m - 1] \in Seq(LineType) /\ WriteMboxEntry(texts[m]) \in Seq(LineType)
      BY <1>1, <1>3, <3>2, EntryIs
    <3>5. Prefix(h[m - 1], mbox)
      BY <3>3, <3>4, PrefixFront
    <3> QED BY <3>2, <3>5
  <2>3. Nat \subseteq T
    <3> HIDE DEF T
    <3> QED BY <2>1, <2>2, Induction
  <2>4. ASSUME NEW k \in 0 .. n PROVE Prefix(h[k], mbox)
    <3>1. n - k \in Nat /\ n - k <= n /\ n - (n - k) = k
      OBVIOUS
    <3>2. n - k \in T
      BY <2>3, <3>1
    <3> QED BY <3>1, <3>2
  <2> QED BY <2>4
<1>7. PICK r \in 0 .. n : r = LegibleTo(texts)
  BY <1>1, ReachIs DEF LegibleTo
<1>8. \A k \in 0 .. n : State(w[Len(h[k])], texts, k)
  <2> DEFINE T == {k \in Nat : k <= n => State(w[Len(h[k])], texts, k)}
  <2>1. 0 \in T
    <3>1. Len(h[0]) = 0
      BY <1>2
    <3>2. ~(0 > LegibleTo(texts))
      BY <1>7
    <3>3. After(w[0], texts, 0)
      BY <1>5 DEF After
    <3> QED BY <3>1, <3>2, <3>3 DEF State
  <2>2. ASSUME NEW k \in Nat, k \in T PROVE k + 1 \in T
    <3>1. SUFFICES ASSUME k + 1 <= n PROVE State(w[Len(h[k + 1])], texts, k + 1)
      OBVIOUS
    <3>2. k \in 0 .. n /\ k + 1 \in 0 .. n /\ k + 1 \in 1 .. n /\ (k + 1) - 1 = k
      BY <3>1
    <3>3. PICK a : a = h[k]
      OBVIOUS
    <3>4. a \in Seq(LineType) /\ h[k + 1] = a \o WriteMboxEntry(texts[k + 1]) /\ State(w[Len(a)], texts, k)
      <4>1. h[k + 1] = h[(k + 1) - 1] \o WriteMboxEntry(texts[k + 1])
        BY <1>2, <3>2
      <4>2. k <= n
        BY <3>2
      <4>3. State(w[Len(a)], texts, k)
        BY <2>2, <3>3, <4>2
      <4>4. a \in Seq(LineType)
        BY <1>3, <3>2, <3>3
      <4> QED BY <3>2, <3>3, <4>1, <4>3, <4>4
    <3>5. Prefix(a \o WriteMboxEntry(texts[k + 1]), mbox)
      BY <1>6, <3>2, <3>4
    <3>6. Steps(w, mbox)
      BY <1>5 DEF Steps
    <3>7. State(w[Len(a \o WriteMboxEntry(texts[k + 1]))], texts, k + 1)
      BY <1>1, <3>2, <3>4, <3>5, <3>6, ReadMessage
    <3> QED BY <3>4, <3>7
  <2>3. Nat \subseteq T
    <3> HIDE DEF T
    <3> QED BY <2>1, <2>2, Induction
  <2> QED BY <2>3
<1>9. PICK x : x = w[Len(mbox)] /\ State(x, texts, n)
  BY <1>4, <1>8
<1>10. CASE r = n
  <2>1. After(x, texts, n)
    BY <1>7, <1>9, <1>10 DEF State
  <2>2. ~x.failed /\ Flush(x) = [m \in 1 .. n |-> Returned(texts[m])]
    BY <1>1, <2>1, FlushAfter
  <2>3. x.failed = FALSE
    <3>1. x \in WalkType
      BY <1>1, <2>1, FlushAfter
    <3>2. x.failed \in BOOLEAN
      BY <3>1 DEF WalkType
    <3> QED BY <2>2, <3>2
  <2>4. Outcome(x) = [failed |-> FALSE, found |-> [m \in 1 .. n |-> Returned(texts[m])]]
    BY <2>2, <2>3, Zenon DEF Outcome
  <2>5. (LegibleTo(texts) < Len(texts)) = FALSE /\ LegibleTo(texts) = n
    BY <1>1, <1>7, <1>10
  <2> QED BY <1>4, <1>5, <1>9, <2>4, <2>5, Zenon
<1>11. CASE r # n
  <2>1. r < n /\ n > r
    BY <1>7, <1>11
  <2>2. x.failed /\ x \in WalkType /\ x.found = [m \in 1 .. r |-> Returned(texts[m])]
    BY <1>7, <1>9, <2>1 DEF State
  <2>3. Outcome(x) = [failed |-> TRUE, found |-> [m \in 1 .. r |-> Returned(texts[m])]]
    <3>1. x.failed = TRUE
      <4>1. x.failed \in BOOLEAN
        BY <2>2 DEF WalkType
      <4> QED BY <2>2, <4>1
    <3> QED BY <2>2, <3>1, Zenon DEF Outcome
  <2>4. (LegibleTo(texts) < Len(texts)) = TRUE /\ LegibleTo(texts) = r
    BY <1>1, <1>7, <2>1
  <2> QED BY <1>4, <1>5, <1>9, <2>3, <2>4, Zenon
<1> QED BY <1>10, <1>11

(* Byte for byte is more than that: a message that comes back is as it was *)
(* if and only if every line of it fitted the export's buffer and ended in *)
(* a bare newline, the last line included (export.go:269-275).             *)
THEOREM ByteForByte ==
  ASSUME NEW texts \in Seq(Texts), NEW k \in DOMAIN WalkMbox(Mbox(texts)).found
  PROVE  WalkMbox(Mbox(texts)).found[k] = texts[k] <=>
            \A n \in DOMAIN texts[k] : Fits(texts[k][n]) /\ ~texts[k][n].cr /\ texts[k][n].nl
<1>1. PICK r \in 0 .. Len(texts) : r = LegibleTo(texts)
  <2>1. Len(texts) \in Nat
    OBVIOUS
  <2> QED BY <2>1, ReachIs DEF LegibleTo
<1>2. PICK found : found = [m \in 1 .. r |-> Returned(texts[m])]
  OBVIOUS
<1>3. WalkMbox(Mbox(texts)) = [failed |-> r < Len(texts), found |-> found]
  BY <1>1, <1>2, RoundTrip
<1>4. WalkMbox(Mbox(texts)).found = found
  BY <1>3
<1>5. k \in 1 .. r /\ k \in 1 .. Len(texts)
  BY <1>1, <1>2, <1>4
<1>6. PICK text \in Texts : text = texts[k]
  BY <1>5
<1>7. found[k] = Returned(text)
  BY <1>2, <1>5, <1>6
<1>8. text \in Seq(LineType) /\ DOMAIN text = 1 .. Len(text) /\ Len(text) \in Nat
      /\ \A n \in 1 .. Len(text) : text[n] \in LineType
  BY TextType
<1>9. PICK lines, c : lines = Lines(text) /\ c = Cut(text)
  OBVIOUS
<1>10. /\ lines \in Seq(LineType) /\ Len(lines) = c
       /\ \A n \in 1 .. c : lines[n] = Scan(text[n]) /\ Scanned(lines[n])
  BY <1>9, LinesIs
<1>11. /\ c \in 0 .. Len(text) /\ \A n \in 1 .. c : Fits(text[n])
       /\ c < Len(text) => ~Fits(text[c + 1])
  BY <1>9, CutIs
<1>12. ASSUME Returned(text) = text, NEW n \in 1 .. Len(text)
       PROVE  Fits(text[n]) /\ ~text[n].cr /\ text[n].nl
  <2>1. CASE Whole(text)
    <3>1. lines = text /\ n \in 1 .. c
      BY <1>9, <1>12, <2>1 DEF Returned, Whole
    <3>2. Scanned(text[n]) /\ Fits(text[n])
      BY <1>10, <1>11, <3>1
    <3> QED BY <3>2, Zenon DEF Scanned
  <2>2. CASE ~Whole(text)
    <3>1. c < Len(text)
      BY <1>8, <1>9, <1>11, <2>2 DEF Whole
    <3>2. PICK t : t = Trim(lines)
      OBVIOUS
    <3>3. t = text
      BY <1>9, <1>12, <2>2, <3>2 DEF Returned
    <3>4. Len(t) <= Len(lines)
      BY <1>10, <3>2, TrimIs
    <3> QED BY <1>8, <1>10, <1>11, <3>1, <3>3, <3>4
  <2> QED BY <2>1, <2>2
<1>13. ASSUME \A n \in 1 .. Len(text) : Fits(text[n]) /\ ~text[n].cr /\ text[n].nl
       PROVE  Returned(text) = text
  <2>1. c = Len(text)
    <3>1. c < Len(text) => c + 1 \in 1 .. Len(text)
      BY <1>8, <1>11
    <3>2. ~(c < Len(text))
      BY <1>11, <1>13, <3>1
    <3>3. PICK n \in Nat : n = Len(text)
      BY <1>8
    <3>4. c \in 0 .. n /\ ~(c < n)
      BY <1>11, <3>2, <3>3
    <3> QED BY <3>3, <3>4
  <2>2. ASSUME NEW n \in 1 .. Len(text) PROVE lines[n] = text[n]
    <3>1. PICK line \in LineType : line = text[n]
      BY <1>8
    <3>2. PICK s : s = Scan(line)
      OBVIOUS
    <3>3. lines[n] = s
      BY <1>10, <2>1, <3>1, <3>2
    <3>4. line.cr = FALSE /\ line.nl = TRUE
      <4>1. ~line.cr /\ line.nl
        BY <1>13, <3>1
      <4>2. line.cr \in BOOLEAN /\ line.nl \in BOOLEAN
        BY DEF LineType
      <4> QED BY <4>1, <4>2
    <3>5. s \in LineType /\ s.cr = FALSE /\ s.nl = TRUE /\ s.is = line.is /\ s.quotes = line.quotes
          /\ s.size = line.size
      BY <3>2, LineSteps, Zenon DEF Scanned
    <3>6. s = line
      BY <3>4, <3>5, LineIs, Zenon
    <3> QED BY <3>1, <3>3, <3>6
  <2>3. lines = text
    BY <1>8, <1>10, <2>1, <2>2, SeqEqual
  <2> QED BY <1>9, <2>1, <2>3 DEF Returned, Whole
<1> QED BY <1>4, <1>6, <1>7, <1>8, <1>12, <1>13

(* A Maildir folder. *)
EntryType == [regular : BOOLEAN, text : Texts]

ReadEntryOf(found, e) == IF e.regular THEN Append(found, e.text) ELSE found

IsRegularFold(tree, g) ==
    g = [s \in SUBSET DOMAIN tree |->
            IF s = {} THEN <<>> ELSE ReadEntryOf(g[s \ {Max(s)}], tree[Max(s)])]

LEMMA RegularFold ==
  ASSUME NEW tree \in Seq(EntryType)
  PROVE  \E h : /\ h[0] = <<>> /\ Regular(tree) = h[Len(tree)]
                /\ \A k \in 1 .. Len(tree) : h[k] = ReadEntryOf(h[k - 1], tree[k])
<1>1. PICK n \in Nat :
          n = Len(tree) /\ DOMAIN tree = 1 .. n /\ \A k \in 1 .. n : tree[k] \in EntryType
  OBVIOUS
<1>2. PICK A : A = Seq(Texts)
  OBVIOUS
<1>3. PICK F : F = [p \in (1 .. n) \X A |-> ReadEntryOf(p[2], tree[p[1]])]
  OBVIOUS
<1>4. \A k \in 1 .. n, a \in A : F[<<k, a>>] = ReadEntryOf(a, tree[k]) /\ F[<<k, a>>] \in A
  <2>1. ASSUME NEW k \in 1 .. n, NEW a \in A
        PROVE  F[<<k, a>>] = ReadEntryOf(a, tree[k]) /\ F[<<k, a>>] \in A
    <3>1. <<k, a>> \in (1 .. n) \X A
      OBVIOUS
    <3>2. F[<<k, a>>] = ReadEntryOf(a, tree[k])
      BY <1>3, <3>1
    <3>3. PICK e \in EntryType : e = tree[k]
      BY <1>1
    <3>4. e.text \in Texts
      BY DEF EntryType
    <3>5. ReadEntryOf(a, e) \in A
      BY <1>2, <3>4 DEF ReadEntryOf
    <3> QED BY <3>2, <3>3, <3>5
  <2> QED BY <2>1
<1>5. F \in [(1 .. n) \X A -> A] /\ <<>> \in A
  <2>1. \A p \in (1 .. n) \X A : p = <<p[1], p[2]>> /\ p[1] \in 1 .. n /\ p[2] \in A
    OBVIOUS
  <2>2. \A p \in (1 .. n) \X A : F[p] \in A
    BY <1>4, <2>1
  <2> QED BY <1>2, <1>3, <2>2
<1>6. PICK g \in [SUBSET (1 .. n) -> A] : IsFold(g, n, <<>>, F)
  BY <1>5, FoldExists DEF HasFold
<1>7. ASSUME NEW s \in SUBSET (1 .. n)
      PROVE  g[s] = IF s = {} THEN <<>> ELSE ReadEntryOf(g[s \ {Max(s)}], tree[Max(s)])
  <2>1. s # {} => Max(s) \in 1 .. n /\ s \ {Max(s)} \in SUBSET (1 .. n)
    BY MaxIn
  <2>2. s # {} => g[s] = F[<<Max(s), g[s \ {Max(s)}]>>]
    BY <1>6 DEF IsFold
  <2>3. s = {} => g[s] = <<>>
    BY <1>6 DEF IsFold
  <2> QED BY <1>4, <1>6, <2>1, <2>2, <2>3
<1>8. IsRegularFold(tree, g)
  BY <1>1, <1>6, <1>7 DEF IsRegularFold
<1>9. PICK f : f = CHOOSE x : IsRegularFold(tree, x)
  OBVIOUS
<1>10. IsRegularFold(tree, f)
  BY <1>8, <1>9
<1>11. Regular(tree) = f[DOMAIN tree]
  BY <1>9 DEF Regular, FoldLeft, MapThenFoldSet, IsRegularFold, ReadEntryOf
<1>12. \A s \in SUBSET (1 .. n) :
          f[s] = IF s = {} THEN <<>> ELSE ReadEntryOf(f[s \ {Max(s)}], tree[Max(s)])
  BY <1>1, <1>10 DEF IsRegularFold
<1>13. PICK h : h = [k \in 0 .. n |-> f[1 .. k]]
  OBVIOUS
<1>14. h[0] = <<>>
  <2>1. 1 .. 0 = {} /\ {} \in SUBSET (1 .. n) /\ 0 \in 0 .. n
    OBVIOUS
  <2> QED BY <1>12, <1>13, <2>1
<1>15. ASSUME NEW k \in 1 .. n PROVE h[k] = ReadEntryOf(h[k - 1], tree[k])
  <2>1. 1 .. k \in SUBSET (1 .. n) /\ k \in 0 .. n /\ k - 1 \in 0 .. n
    OBVIOUS
  <2>2. Max(1 .. k) = k /\ (1 .. k) \ {k} = 1 .. k - 1 /\ 1 .. k # {}
    <3>1. k \in Nat /\ k # 0
      OBVIOUS
    <3> QED BY <3>1, MaxRange
  <2>3. f[1 .. k] = ReadEntryOf(f[1 .. k - 1], tree[k])
    BY <1>12, <2>1, <2>2
  <2> QED BY <1>13, <2>1, <2>3
<1>16. Regular(tree) = h[n]
  BY <1>1, <1>11, <1>13
<1> QED BY <1>1, <1>14, <1>15, <1>16

(* found holds the texts of the first k entries that are regular files. *)
Collected(found, tree, k) ==
    /\ found \in Seq(Texts)
    /\ \A p \in 1 .. Len(found) : \E j \in 1 .. k : tree[j].regular /\ tree[j].text = found[p]
    /\ \A j \in 1 .. k : tree[j].regular => \E p \in 1 .. Len(found) : found[p] = tree[j].text

LEMMA RegularIs ==
  ASSUME NEW tree \in Seq(EntryType)
  PROVE  Collected(Regular(tree), tree, Len(tree))
<1>1. PICK n \in Nat : n = Len(tree) /\ \A k \in 1 .. n : tree[k] \in EntryType
  OBVIOUS
<1>2. PICK h : /\ h[0] = <<>> /\ Regular(tree) = h[n]
               /\ \A k \in 1 .. n : h[k] = ReadEntryOf(h[k - 1], tree[k])
  BY <1>1, RegularFold
<1> DEFINE T == {k \in Nat : k <= n => Collected(h[k], tree, k)}
<1>3. 0 \in T
  <2>1. PICK a : a = h[0] /\ a = <<>>
    BY <1>2
  <2>2. a \in Seq(Texts) /\ 1 .. Len(a) = {} /\ 1 .. 0 = {}
    BY <2>1
  <2>3. Collected(a, tree, 0)
    BY <2>2 DEF Collected
  <2> QED BY <2>1, <2>3
<1>4. ASSUME NEW k \in Nat, k \in T PROVE k + 1 \in T
  <2>1. SUFFICES ASSUME k + 1 <= n PROVE Collected(h[k + 1], tree, k + 1)
    OBVIOUS
  <2>2. PICK m \in 1 .. n : m = k + 1 /\ m - 1 = k /\ k <= n
    BY <2>1
  <2>3. PICK e \in EntryType : e = tree[m]
    BY <1>1
  <2>4. PICK a, b : a = h[k] /\ b = h[m]
    OBVIOUS
  <2>5. Collected(a, tree, k) /\ b = ReadEntryOf(a, e)
    BY <1>2, <1>4, <2>2, <2>3, <2>4
  <2>6. a \in Seq(Texts) /\ e.text \in Texts
    BY <2>5 DEF Collected, EntryType
  <2>7. \A j \in 1 .. m : j \in 1 .. k \/ j = m
    BY <2>2
  <2>8. \A j \in 1 .. k : j \in 1 .. m
    BY <2>2
  <2>9. CASE e.regular
    <3>1. b = Append(a, e.text)
      BY <2>5, <2>9 DEF ReadEntryOf
    <3>2. /\ b \in Seq(Texts) /\ Len(b) = Len(a) + 1 /\ b[Len(a) + 1] = e.text
          /\ Len(a) + 1 \in 1 .. Len(b)
          /\ \A p \in 1 .. Len(a) : b[p] = a[p] /\ p \in 1 .. Len(b)
          /\ \A p \in 1 .. Len(b) : p \in 1 .. Len(a) \/ p = Len(a) + 1
      BY <2>6, <3>1
    <3>3. ASSUME NEW p \in 1 .. Len(b) PROVE \E j \in 1 .. m : tree[j].regular /\ tree[j].text = b[p]
      <4>1. CASE p = Len(a) + 1
        <5>1. m \in 1 .. m /\ tree[m].regular /\ tree[m].text = b[p]
          BY <2>2, <2>3, <2>9, <3>2, <4>1
        <5> QED BY <5>1
      <4>2. CASE p \in 1 .. Len(a)
        <5>1. PICK j \in 1 .. k : tree[j].regular /\ tree[j].text = a[p]
          BY <2>5, <4>2 DEF Collected
        <5> QED BY <2>8, <3>2, <4>2, <5>1
      <4> QED BY <3>2, <4>1, <4>2
    <3>4. ASSUME NEW j \in 1 .. m, tree[j].regular PROVE \E p \in 1 .. Len(b) : b[p] = tree[j].text
      <4>1. CASE j = m
        <5>1. b[Len(a) + 1] = tree[j].text
          BY <2>3, <3>2, <4>1
        <5> QED BY <3>2, <5>1
      <4>2. CASE j \in 1 .. k
        <5>1. PICK p \in 1 .. Len(a) : a[p] = tree[j].text
          BY <2>5, <3>4, <4>2 DEF Collected
        <5> QED BY <3>2, <5>1
      <4> QED BY <2>7, <4>1, <4>2
    <3> QED BY <2>2, <2>4, <3>2, <3>3, <3>4 DEF Collected
  <2>10. CASE ~e.regular
    <3>1. b = a
      BY <2>5, <2>10 DEF ReadEntryOf
    <3> QED BY <2>2, <2>3, <2>4, <2>5, <2>7, <2>8, <2>10, <3>1 DEF Collected
  <2> QED BY <2>9, <2>10
<1>5. Nat \subseteq T
  <2> HIDE DEF T
  <2> QED BY <1>3, <1>4, Induction
<1> QED BY <1>1, <1>2, <1>5

(* What an import reads is what it was given to archive. *)
LEMMA WalkFaithful ==
  ASSUME NEW i \in Imports
  PROVE  /\ Walked[i] \in Seq(Texts) /\ Len(Walked[i]) \in Nat
         /\ \A k \in 1 .. Len(Walked[i]) : Walked[i][k] \in Wanted[i] /\ Walked[i][k] \in Texts
         /\ ~Walk[i].failed => \A t \in Wanted[i] : \E k \in 1 .. Len(Walked[i]) : Walked[i][k] = t
<1>1. SUFFICES /\ Walked[i] \in Seq(Texts)
               /\ \A k \in 1 .. Len(Walked[i]) : Walked[i][k] \in Wanted[i]
               /\ ~Walk[i].failed =>
                     \A t \in Wanted[i] : \E k \in 1 .. Len(Walked[i]) : Walked[i][k] = t
  <2>1. Walked[i] \in Seq(Texts) => \A k \in 1 .. Len(Walked[i]) : Walked[i][k] \in Texts
    OBVIOUS
  <2> QED BY <2>1
<1>2. PICK source : source = Source[i]
  OBVIOUS
<1>3. source \in MboxFile \/ source \in MaildirTree
  BY <1>2, CommandsAssumption
<1>4. CASE source \in MboxFile
  <2>1. PICK texts \in Seq(Texts) : texts = source.path
    BY <1>4 DEF MboxFile
  <2>2. source.type = "mbox"
    BY <1>4 DEF MboxFile
  <2>3. Walk[i] = WalkMbox(Mbox(texts))
    BY <1>2, <2>1, <2>2 DEF Walk
  <2>4. Wanted[i] = {Returned(texts[k]) : k \in DOMAIN texts}
    BY <1>2, <2>1, <2>2 DEF Wanted
  <2>5. PICK n \in Nat : n = Len(texts) /\ DOMAIN texts = 1 .. n /\ \A k \in 1 .. n : texts[k] \in Texts
    OBVIOUS
  <2>6. PICK r \in 0 .. n : r = LegibleTo(texts)
    BY <2>5, ReachIs DEF LegibleTo
  <2>7. PICK found : found = [m \in 1 .. r |-> Returned(texts[m])]
    OBVIOUS
  <2>8. Walk[i] = [failed |-> r < n, found |-> found]
    BY <2>3, <2>5, <2>6, <2>7, RoundTrip
  <2>9. Walked[i] = found /\ (~Walk[i].failed => r = n)
    <3>1. Walk[i].found = found /\ Walk[i].failed = (r < n)
      BY <2>8
    <3>2. ~(r < n) => r = n
      BY <2>6
    <3>3. Walked[i] = found
      BY <3>1 DEF Walked
    <3> QED BY <3>1, <3>2, <3>3
  <2>10. \A k \in 1 .. r : k \in 1 .. n /\ Returned(texts[k]) \in Texts
    BY <2>5, <2>6, ReturnedType
  <2>11. found \in [1 .. r -> Texts]
    BY <2>7, <2>10
  <2>12. found \in Seq(Texts) /\ Len(found) = r
    BY <2>6, <2>11, LenProperties
  <2> QED BY <2>4, <2>5, <2>7, <2>9, <2>10, <2>12
<1>5. CASE source \in MaildirTree
  <2>1. PICK cur, new : cur = source.path.cur /\ new = source.path.new
    OBVIOUS
  <2>2. source.type = "maildir" /\ cur \in Seq(EntryType) /\ new \in Seq(EntryType)
    BY <1>5, <2>1 DEF MaildirTree, Entries, EntryType
  <2>3. Walked[i] = Regular(cur) \o Regular(new)
    BY <1>2, <2>1, <2>2 DEF Walked, Walk, WalkMaildir
  <2>4. Wanted[i] = {e.text : e \in {x \in ToSet(cur \o new) : x.regular}}
    BY <1>2, <2>1, <2>2 DEF Wanted
  <2>5. PICK a, b : a = Regular(cur) /\ b = Regular(new)
    OBVIOUS
  <2>6. Collected(a, cur, Len(cur)) /\ Collected(b, new, Len(new))
    BY <2>2, <2>5, RegularIs
  <2>7. a \in Seq(Texts) /\ b \in Seq(Texts) /\ Walked[i] = a \o b
    BY <2>3, <2>5, <2>6 DEF Collected
  <2>8. PICK w : w = a \o b
    OBVIOUS
  <2>9. /\ w \in Seq(Texts) /\ Len(w) = Len(a) + Len(b) /\ Walked[i] = w
        /\ \A p \in 1 .. Len(a) : w[p] = a[p] /\ p \in 1 .. Len(w)
        /\ \A q \in 1 .. Len(b) : w[Len(a) + q] = b[q] /\ Len(a) + q \in 1 .. Len(w)
        /\ \A p \in 1 .. Len(w) : p \in 1 .. Len(a) \/ \E q \in 1 .. Len(b) : p = Len(a) + q
    <3>1. /\ w \in Seq(Texts) /\ Len(w) = Len(a) + Len(b) /\ Walked[i] = w
          /\ \A p \in 1 .. Len(a) : w[p] = a[p] /\ p \in 1 .. Len(w)
          /\ \A q \in 1 .. Len(b) : w[Len(a) + q] = b[q] /\ Len(a) + q \in 1 .. Len(w)
      BY <2>7, <2>8
    <3>2. ASSUME NEW p \in 1 .. Len(w), p \notin 1 .. Len(a) PROVE \E q \in 1 .. Len(b) : p = Len(a) + q
      <4>1. Len(a) \in Nat /\ Len(b) \in Nat
        BY <2>7
      <4>2. p - Len(a) \in 1 .. Len(b) /\ p = Len(a) + (p - Len(a))
        BY <3>1, <3>2, <4>1
      <4> QED BY <4>2
    <3> QED BY <3>1, <3>2
  <2>10. PICK c : c = cur \o new
    OBVIOUS
  <2>11. /\ c \in Seq(EntryType) /\ Len(c) = Len(cur) + Len(new)
         /\ \A p \in 1 .. Len(cur) : c[p] = cur[p] /\ p \in 1 .. Len(c)
         /\ \A q \in 1 .. Len(new) : c[Len(cur) + q] = new[q] /\ Len(cur) + q \in 1 .. Len(c)
         /\ \A p \in 1 .. Len(c) : p \in 1 .. Len(cur) \/ \E q \in 1 .. Len(new) : p = Len(cur) + q
    <3>1. /\ c \in Seq(EntryType) /\ Len(c) = Len(cur) + Len(new)
          /\ \A p \in 1 .. Len(cur) : c[p] = cur[p] /\ p \in 1 .. Len(c)
          /\ \A q \in 1 .. Len(new) : c[Len(cur) + q] = new[q] /\ Len(cur) + q \in 1 .. Len(c)
      BY <2>2, <2>10
    <3>2. ASSUME NEW p \in 1 .. Len(c), p \notin 1 .. Len(cur) PROVE \E q \in 1 .. Len(new) : p = Len(cur) + q
      <4>1. Len(cur) \in Nat /\ Len(new) \in Nat
        BY <2>2
      <4>2. p - Len(cur) \in 1 .. Len(new) /\ p = Len(cur) + (p - Len(cur))
        BY <3>1, <3>2, <4>1
      <4> QED BY <4>2
    <3> QED BY <3>1, <3>2
  <2>12. Wanted[i] = {e.text : e \in {x \in {c[p] : p \in 1 .. Len(c)} : x.regular}}
    <3>1. DOMAIN c = 1 .. Len(c)
      BY <2>11
    <3>2. Wanted[i] = {e.text : e \in {x \in ToSet(c) : x.regular}}
      BY <2>4, <2>10
    <3> QED BY <3>1, <3>2 DEF ToSet
  <2>13. \A p \in 1 .. Len(c) : c[p].regular => c[p].text \in Wanted[i]
    BY <2>12
  <2>14. ASSUME NEW p \in 1 .. Len(w) PROVE w[p] \in Wanted[i]
    <3>1. CASE p \in 1 .. Len(a)
      <4>1. PICK j \in 1 .. Len(cur) : cur[j].regular /\ cur[j].text = a[p]
        BY <2>6, <3>1 DEF Collected
      <4>2. j \in 1 .. Len(c) /\ c[j] = cur[j]
        BY <2>11
      <4> QED BY <2>9, <2>13, <3>1, <4>1, <4>2
    <3>2. CASE p \notin 1 .. Len(a)
      <4>1. PICK q \in 1 .. Len(b) : w[p] = b[q]
        BY <2>9, <3>2
      <4>2. PICK j \in 1 .. Len(new) : new[j].regular /\ new[j].text = b[q]
        BY <2>6 DEF Collected
      <4>3. Len(cur) + j \in 1 .. Len(c) /\ c[Len(cur) + j] = new[j]
        BY <2>11
      <4> QED BY <2>13, <4>1, <4>2, <4>3
    <3> QED BY <3>1, <3>2
  <2>15. ASSUME NEW t \in Wanted[i] PROVE \E p \in 1 .. Len(w) : w[p] = t
    <3>1. PICK p \in 1 .. Len(c) : c[p].regular /\ c[p].text = t
      BY <2>12
    <3>2. CASE p \in 1 .. Len(cur)
      <4>1. cur[p].regular /\ cur[p].text = t
        BY <2>11, <3>1, <3>2
      <4>2. PICK j \in 1 .. Len(a) : a[j] = t
        BY <2>6, <3>2, <4>1 DEF Collected
      <4> QED BY <2>9, <4>2
    <3>3. CASE p \notin 1 .. Len(cur)
      <4>1. PICK q \in 1 .. Len(new) : c[p] = new[q]
        BY <2>11, <3>3
      <4>2. PICK j \in 1 .. Len(b) : b[j] = t
        BY <2>6, <3>1, <4>1 DEF Collected
      <4> QED BY <2>9, <4>2
    <3> QED BY <3>2, <3>3
  <2> QED BY <2>9, <2>14, <2>15
<1> QED BY <1>3, <1>4, <1>5

------------------------------------------------------------------------------
(* The invariant.  Types first. *)
JobType ==
    [pc : {"idle", "create", "upsert", "open", "check", "file", "insert", "done"},
     uid : Nat, at : Nat \ {0}, failed : SUBSET Nat, excused : BOOLEAN]

RequestType ==
    [pc : {"idle", "first", "file", "row"}, kind : {None, "delete", "evict", "move"},
     row : RowType \cup {None}, to : Dirs \cup {None}]

BackupType ==
    [pc : {"idle", "db", "dir", "tar", "keys"}, dir : Nat \ {0}, todo : SUBSET FileType,
     key : Nat \ {0}]

DestType ==
    [db : SUBSET RowType, tar : SUBSET FileType, keys : [KeyNames -> Nat],
     manifest : CopyType \cup {None}, empty : BOOLEAN, touched : SUBSET Nat, mixed : BOOLEAN]

ArchiveTyped == /\ rows \subseteq RowType /\ files \subseteq FileType /\ nextName \in Nat \ {0}
                /\ lastUid \in [Dirs -> Nat] /\ gone \subseteq Ids
ImportTyped  == /\ account \in {"none", "imported", "imap"} /\ index \in Imports \cup {None}
                /\ import \in [Imports -> JobType] /\ events \in Nat
BackupTyped  == /\ store \in [KeyNames -> Nat] /\ changing \in {0, 1, 2}
                /\ backup \in BackupType /\ dest \in DestType
Typed == ArchiveTyped /\ ImportTyped /\ server \in RequestType /\ BackupTyped

(* The index is what keeps two imports from walking at the same time. *)
Archiving == {"check", "file", "insert"}
IndexInv  == \A i \in Imports : import[i].pc \in Archiving => index = i

(* File names are not used twice, and the request being served is on a row *)
(* as it stands, or has just dropped it.                                   *)
Busy == server.pc # "idle"

NamesInv ==
    /\ \A f \in files : f.name < nextName
    /\ \A f, g \in files : f.name = g.name => f = g
    /\ \A r \in rows : r.name < nextName
    /\ \A r, s \in rows : r.name = s.name => r = s

RequestInv ==
    /\ Busy => server.row \in RowType /\ server.row.name < nextName /\ server.row.local
    /\ server.pc \in {"first", "row"} => server.row \in rows
    /\ server.pc = "file" => \A r \in rows : r.name = server.row.name => ~r.local
    /\ (server.pc = "first" /\ server.kind = "move") \/ server.pc = "row" => server.to \in Dirs

(* Every local row has its file: under the row's directory, or where the   *)
(* request being served has just moved it.                                 *)
Imported(text) == \E i \in Imports : text \in Wanted[i]
Holds(f, r)    == f.name = r.name /\ MessageId(f.text) = r.id /\ Imported(f.text)
Place(r)       == IF server.pc = "row" /\ r = server.row THEN server.to ELSE r.dir
FileInv        == \A r \in rows : r.local => \E f \in files : Holds(f, r) /\ f.dir = Place(r)

(* What an import knows: its message is not archived yet; the file it has  *)
(* written is there and nobody's; its UID is free unless it was overtaken; *)
(* what it has passed without a failure is archived, or was deleted.       *)
Archived(id)      == id # "none" /\ \E r \in rows : r.id = id
Known(text)       == MessageId(text) \in {r.id : r \in rows} \cup gone
Free(i, uid)      == \A r \in rows : r.folder = Target[i] => r.uid < uid
Written(i, text)  == /\ nextName > 1
                     /\ [name |-> nextName - 1, dir |-> Target[i], text |-> text] \in files
                     /\ \A r \in rows : r.name # nextName - 1
                     /\ Busy => server.row.name # nextName - 1

JobInv(i, x) ==
    /\ x.pc \in {"file", "insert"} =>
          x.at \in DOMAIN Walked[i] /\ ~Archived(MessageId(Walked[i][x.at]))
    /\ x.pc = "insert" => Written(i, Walked[i][x.at])
    /\ x.pc \in {"open"} \cup Archiving => x.uid # 0 /\ (~x.excused => Free(i, x.uid))
    /\ x.failed # {} => x.excused
    /\ x.pc \in {"idle", "create", "upsert", "open"} => x.at = 1
    /\ x.pc \in Archiving /\ x.failed = {} =>
          \A k \in DOMAIN Walked[i] : k < x.at => Known(Walked[i][k])
    /\ x.pc = "done" /\ x.failed = {} => \A k \in DOMAIN Walked[i] : Known(Walked[i][k])
    /\ x.pc = "done" => ~Walk[i].failed

JobsInv == \A i \in Imports : \A x \in {import[i]} : JobInv(i, x)

UidInv == \A r \in rows : r.uid <= lastUid[r.folder]

(* The key files are replaced one after the other. *)
KeyInv ==
    /\ changing = 0 => store["dek"] = store["verify"] /\ store["verify"] = store["salt"]
    /\ changing = 1 => store["dek"] = store["verify"] + 1 /\ store["verify"] = store["salt"]
    /\ changing = 2 => store["dek"] = store["verify"] /\ store["verify"] = store["salt"] + 1
    /\ backup.pc \in {"db", "dir", "tar"} => backup.key = 1
    /\ backup.pc = "keys" /\ ~dest.mixed =>
          /\ changing = 0
          /\ backup.key > 1 => dest.keys["salt"] = store["salt"]
          /\ backup.key > 2 => dest.keys["verify"] = store["verify"]
          /\ backup.key > 3 => dest.keys["dek"] = store["dek"]

(* A backup: the file of a row it has copied is in the archive file, or in *)
(* a directory it has still to read, or has read and not got to.           *)
Copying == backup.pc \in {"dir", "tar", "keys"}
Ahead(f) == \/ backup.pc = "tar" /\ f \in backup.todo
            \/ \E k \in DOMAIN Folders :
                  /\ Folders[k] = f.dir
                  /\ (backup.pc = "dir" /\ k >= backup.dir) \/ (backup.pc = "tar" /\ k > backup.dir)

FileFor(f, r) == f.name = r.name /\ f.dir = r.dir /\ MessageId(f.text) = r.id
Copied(r)     == \/ \E f \in dest.tar : FileFor(f, r)
                 \/ \E f \in files : FileFor(f, r) /\ Ahead(f)

CopyInv ==
    /\ backup.pc = "db" => backup.dir = 1
    /\ backup.pc \in {"db", "dir"} => backup.todo = {}
    /\ Copying => ~dest.empty
    /\ Copying /\ Busy => server.row.name \in dest.touched
    /\ Copying => \A r \in dest.db : r.local /\ r.name \notin dest.touched => Copied(r)

(* What a manifest describes can be restored; a run has written none yet. *)
Restorable(c) ==
    /\ \A r \in c.db : r.local /\ r.name \notin dest.touched => \E f \in c.tar : FileFor(f, r)
    /\ ~dest.mixed => \A k, l \in KeyNames : c.keys[k] = c.keys[l]

SealInv ==
    /\ backup.pc # "idle" \/ dest.empty => dest.manifest = None
    /\ dest.manifest # None => Restorable(dest.manifest)

ArchiveInv  == NamesInv /\ RequestInv /\ FileInv /\ UidInv /\ ImportedOnce
CommandsInv == Typed /\ IndexInv /\ ArchiveInv /\ JobsInv /\ KeyInv /\ CopyInv /\ SealInv

LEMMA RowFields ==
  ASSUME NEW r, r \in RowType
  PROVE  /\ r.name \in Nat /\ r.id \in Ids /\ r.folder \in Dirs /\ r.uid \in Nat /\ r.dir \in Dirs
         /\ r.local \in BOOLEAN
  BY DEF RowType

LEMMA FileFields ==
  ASSUME NEW f, f \in FileType
  PROVE  f.name \in Nat /\ f.dir \in Dirs /\ f.text \in Texts
  BY DEF FileType

LEMMA JobFields ==
  ASSUME NEW x, x \in JobType
  PROVE  /\ x.pc \in {"idle", "create", "upsert", "open", "check", "file", "insert", "done"}
         /\ x.uid \in Nat /\ x.at \in Nat /\ x.at # 0 /\ x.failed \subseteq Nat /\ x.excused \in BOOLEAN
  BY DEF JobType

LEMMA RequestFields ==
  ASSUME NEW s, s \in RequestType
  PROVE  /\ s.pc \in {"idle", "first", "file", "row"} /\ s.kind \in {None, "delete", "evict", "move"}
         /\ s.row \in RowType \cup {None} /\ s.to \in Dirs \cup {None}
  BY DEF RequestType

LEMMA WalkedIs ==
  ASSUME NEW i \in Imports
  PROVE  /\ DOMAIN Walked[i] = 1 .. Len(Walked[i]) /\ Len(Walked[i]) \in Nat
         /\ \A k \in DOMAIN Walked[i] : /\ Walked[i][k] \in Texts /\ Imported(Walked[i][k])
                                        /\ MessageId(Walked[i][k]) \in Ids
<1>1. PICK w \in Seq(Texts) : w = Walked[i]
  BY WalkFaithful
<1>2. DOMAIN w = 1 .. Len(w) /\ Len(w) \in Nat
  OBVIOUS
<1>3. \A k \in 1 .. Len(w) : w[k] \in Texts /\ w[k] \in Wanted[i]
  BY <1>1, WalkFaithful
<1>4. \A k \in 1 .. Len(w) : MessageId(w[k]) \in Ids
  BY <1>3, TextType
<1> QED BY <1>1, <1>2, <1>3, <1>4 DEF Imported

(* The step of an import that leaves the archive alone: its job becomes x. *)
ArchiveSame == UNCHANGED <<lastUid, rows, files, nextName, server, gone>>
BackupSame  == UNCHANGED <<store, changing, backup, dest>>

QuietTo(i, x) ==
    /\ import' = [import EXCEPT ![i] = x] /\ JobInv(i, x)
    /\ x.pc \in Archiving => index' = i
    /\ \A k \in Imports : k # i /\ import[k].pc \in Archiving => index' = k
    /\ account' \in {"none", "imported", "imap"} /\ index' \in Imports \cup {None} /\ events' \in Nat
    /\ ArchiveSame /\ BackupSame

Quiet(i) == \E x \in JobType : QuietTo(i, x)

LEMMA JobOf ==
  ASSUME Typed, JobsInv, NEW i \in Imports
  PROVE  import[i] \in JobType /\ JobInv(i, import[i]) /\ i # None
  BY CommandsAssumption DEF Typed, ImportTyped, JobsInv

LEMMA QuietUpsert ==
  ASSUME CommandsInv, NEW i \in Imports, UpsertFolder(i)
  PROVE  Quiet(i)
<1>1. PICK j \in JobType : j = import[i] /\ JobInv(i, j)
  BY JobOf DEF CommandsInv
<1>2. PICK u : u = lastUid[Target[i]] + 1
  OBVIOUS
<1>3. Target[i] \in Dirs
  BY CommandsAssumption
<1>4. u \in Nat /\ u # 0
  BY <1>2, <1>3 DEF CommandsInv, Typed, ArchiveTyped
<1>5. Free(i, u)
  <2>1. ASSUME NEW r \in rows, r.folder = Target[i] PROVE r.uid < u
    <3>1. r.uid \in Nat /\ r.uid <= lastUid[Target[i]] /\ lastUid[Target[i]] \in Nat
      BY <1>3, <2>1, RowFields DEF CommandsInv, Typed, ArchiveTyped, ArchiveInv, UidInv
    <3> QED BY <1>2, <3>1
  <2> QED BY <2>1 DEF Free
<1>6. PICK x : x = [j EXCEPT !.pc = "open", !.uid = u]
  OBVIOUS
<1>7. /\ x \in JobType /\ x.pc = "open" /\ x.uid = u /\ x.at = j.at /\ x.failed = j.failed
      /\ x.excused = j.excused
  BY <1>4, <1>6 DEF JobType
<1>8. j.pc = "upsert"
  BY <1>1 DEF UpsertFolder, ImportAt
<1>9. JobInv(i, x)
  BY <1>1, <1>4, <1>5, <1>7, <1>8 DEF JobInv, Archiving
<1>10. import' = [import EXCEPT ![i] = x]
  BY <1>1, <1>2, <1>6 DEF UpsertFolder
<1> QED
  BY <1>7, <1>9, <1>10 DEF Quiet, QuietTo, UpsertFolder, ImportStep, ArchiveSame, BackupSame, archiveVars,
     serverVars, keyVars, backupVars, CommandsInv, Typed, ImportTyped, IndexInv, Archiving

LEMMA IdleIs ==
  ASSUME NEW i \in Imports
  PROVE  /\ IdleImport \in JobType /\ JobInv(i, IdleImport) /\ IdleImport.pc = "idle"
         /\ IdleImport.failed = {} /\ IdleImport.at = 1
<1>1. /\ IdleImport.pc = "idle" /\ IdleImport.failed = {} /\ IdleImport.at = 1 /\ IdleImport \in JobType
  BY DEF IdleImport, JobType
<1> QED BY <1>1 DEF JobInv, Archiving

LEMMA QuietEnds ==
  ASSUME CommandsInv, NEW i \in Imports, Ends(i), ImportStep,
         UNCHANGED <<lastUid, rows, files, nextName>>,
         index' = index \/ (index = i /\ index' = None),
         account' \in {"none", "imported", "imap"}, events' \in Nat
  PROVE  Quiet(i)
<1>1. PICK x \in JobType : x = IdleImport /\ JobInv(i, x) /\ x.pc = "idle"
  BY IdleIs
<1>2. import' = [import EXCEPT ![i] = x]
  BY <1>1 DEF Ends
<1>3. \A k \in Imports : k # i /\ import[k].pc \in Archiving => index' = k
  BY DEF CommandsInv, IndexInv
<1>4. index' \in Imports \cup {None}
  BY DEF CommandsInv, Typed, ImportTyped
<1> QED
  BY <1>1, <1>2, <1>3, <1>4 DEF Quiet, QuietTo, ImportStep, ArchiveSame, BackupSame, serverVars, keyVars,
     backupVars, Archiving

LEMMA QuietResolve ==
  ASSUME CommandsInv, NEW i \in Imports, Resolve(i) \/ CreateAccount(i)
  PROVE  Quiet(i)
<1>1. PICK j \in JobType : j = import[i] /\ JobInv(i, j)
  BY JobOf DEF CommandsInv
<1>2. ASSUME NEW pc \in {"create", "upsert"}, j.pc \in {"idle", "create"},
             import' = [import EXCEPT ![i].pc = pc], ImportStep,
             UNCHANGED <<lastUid, rows, files, nextName, index, events>>,
             account' \in {"none", "imported", "imap"}
      PROVE  Quiet(i)
  <2>1. PICK x : x = [j EXCEPT !.pc = pc]
    OBVIOUS
  <2>2. /\ x \in JobType /\ x.pc = pc /\ x.uid = j.uid /\ x.at = j.at /\ x.failed = j.failed
        /\ x.excused = j.excused
    BY <2>1 DEF JobType
  <2>3. JobInv(i, x)
    BY <1>1, <1>2, <2>2 DEF JobInv, Archiving
  <2>4. import' = [import EXCEPT ![i] = x]
    BY <1>1, <1>2, <2>1
  <2> QED
    BY <1>2, <2>2, <2>3, <2>4 DEF Quiet, QuietTo, ImportStep, ArchiveSame, BackupSame, serverVars, keyVars,
       backupVars, CommandsInv, Typed, ImportTyped, IndexInv, Archiving
<1>3. account \in {"none", "imported", "imap"} /\ events \in Nat
  BY DEF CommandsInv, Typed, ImportTyped
<1>4. CASE Resolve(i)
  <2>1. PICK pc : pc = IF account = "none" THEN "create" ELSE "upsert"
    OBVIOUS
  <2>2. pc \in {"create", "upsert"} /\ j.pc \in {"idle", "create"} /\ import' = [import EXCEPT ![i].pc = pc]
    BY <1>1, <1>4, <2>1 DEF Resolve, ImportAt
  <2> QED BY <1>2, <1>3, <1>4, <2>2 DEF Resolve, archiveVars
<1>5. CASE CreateAccount(i) /\ account = "none"
  <2>1. j.pc \in {"idle", "create"}
    BY <1>1, <1>5 DEF CreateAccount, ImportAt
  <2>2. import' = [import EXCEPT ![i].pc = "upsert"] /\ account' = "imported"
    BY <1>5 DEF CreateAccount
  <2> QED BY <1>2, <1>5, <2>1, <2>2 DEF CreateAccount
<1>6. CASE CreateAccount(i) /\ account # "none"
  <2>1. Ends(i) /\ ImportStep /\ UNCHANGED <<account, lastUid, rows, files, nextName, index, events>>
    BY <1>6 DEF CreateAccount
  <2> QED BY <1>3, <2>1, QuietEnds
<1> QED BY <1>4, <1>5, <1>6

LEMMA QuietOpen ==
  ASSUME CommandsInv, NEW i \in Imports, OpenIndex(i)
  PROVE  Quiet(i)
<1>1. PICK j \in JobType : j = import[i] /\ JobInv(i, j)
  BY JobOf DEF CommandsInv
<1>2. PICK x : x = [j EXCEPT !.pc = "check"]
  OBVIOUS
<1>3. /\ x \in JobType /\ x.pc = "check" /\ x.uid = j.uid /\ x.at = j.at /\ x.failed = j.failed
      /\ x.excused = j.excused
  BY <1>2 DEF JobType
<1>4. j.pc = "open" /\ index = None /\ index' = i
  BY <1>1 DEF OpenIndex, ImportAt
<1>5. \A k \in DOMAIN Walked[i] : ~(k < x.at)
  BY <1>1, <1>3, <1>4, WalkedIs DEF JobInv
<1>6. JobInv(i, x)
  BY <1>1, <1>3, <1>4, <1>5 DEF JobInv, Archiving
<1>7. \A k \in Imports : k # i /\ import[k].pc \in Archiving => index' = k
  BY <1>4, CommandsAssumption DEF CommandsInv, IndexInv
<1>8. import' = [import EXCEPT ![i] = x]
  BY <1>1, <1>2 DEF OpenIndex
<1> QED
  BY <1>3, <1>4, <1>6, <1>7, <1>8 DEF Quiet, QuietTo, OpenIndex, ImportStep, ArchiveSame, BackupSame,
     archiveVars, serverVars, keyVars, backupVars, CommandsInv, Typed, ImportTyped

(* The import goes on to its next message, having archived this one or *)
(* reported a failure.                                                   *)
LEMMA QuietNext ==
  ASSUME CommandsInv, NEW i \in Imports, NEW job \in JobType, NextMessage(i, job), ImportStep,
         UNCHANGED archiveVars, UNCHANGED index, events' \in Nat,
         import[i].pc \in Archiving, import[i].at \in 1 .. Len(Walked[i]),
         job.at = import[i].at, job.uid = import[i].uid,
         \/ /\ job.failed = import[i].failed /\ job.excused = import[i].excused
            /\ Known(Walked[i][import[i].at])
         \/ job.failed # {} /\ job.excused
  PROVE  Quiet(i)
<1>1. PICK j \in JobType : j = import[i] /\ JobInv(i, j)
  BY JobOf DEF CommandsInv
<1>2. PICK next \in Nat \ {0} : next = j.at + 1 /\ next = job.at + 1
  BY <1>1, JobFields
<1>3. PICK x : x = [job EXCEPT !.pc = "check", !.at = next]
  OBVIOUS
<1>4. /\ x \in JobType /\ x.pc = "check" /\ x.uid = job.uid /\ x.at = next /\ x.failed = job.failed
      /\ x.excused = job.excused
  BY <1>3 DEF JobType
<1>5. ASSUME x.failed = {}, NEW k \in DOMAIN Walked[i], k < x.at PROVE Known(Walked[i][k])
  <2>1. j.failed = {} /\ Known(Walked[i][j.at])
    BY <1>1, <1>4, <1>5
  <2>2. k \in Nat /\ j.at \in Nat
    BY <1>1, WalkedIs, JobFields
  <2>3. k < j.at \/ k = j.at
    BY <1>2, <1>4, <1>5, <2>2
  <2> QED BY <1>1, <2>1, <2>3 DEF JobInv
<1>6. x.uid # 0 /\ (~x.excused => Free(i, x.uid)) /\ (x.failed # {} => x.excused)
  BY <1>1, <1>4 DEF JobInv
<1>7. JobInv(i, x)
  BY <1>4, <1>5, <1>6 DEF JobInv, Archiving
<1>8. import' = [import EXCEPT ![i] = x]
  BY <1>2, <1>3 DEF NextMessage
<1>9. index' = i /\ \A k \in Imports : import[k].pc \in Archiving => index' = k
  BY DEF CommandsInv, IndexInv
<1> QED
  BY <1>4, <1>7, <1>8, <1>9 DEF Quiet, QuietTo, ImportStep, ArchiveSame, BackupSame,
     archiveVars, serverVars, keyVars, backupVars, CommandsInv, Typed, ImportTyped

LEMMA QuietCheck ==
  ASSUME CommandsInv, NEW i \in Imports, CheckDuplicate(i)
  PROVE  Quiet(i)
<1>1. PICK j \in JobType : j = import[i] /\ JobInv(i, j)
  BY JobOf DEF CommandsInv
<1>2. j.pc = "check" /\ j.at \in 1 .. Len(Walked[i]) /\ j.pc \in Archiving
  BY <1>1, JobFields, WalkedIs DEF CheckDuplicate, Walking, ImportAt, Archiving
<1>3. events \in Nat
  BY DEF CommandsInv, Typed, ImportTyped
<1>4. CASE IsDuplicate(i)
  <2>1. Known(Walked[i][j.at])
    BY <1>1, <1>4 DEF IsDuplicate, Text, Known
  <2>2. NextMessage(i, j) /\ ImportStep /\ UNCHANGED archiveVars /\ UNCHANGED index /\ events' \in Nat
    BY <1>1, <1>3, <1>4 DEF CheckDuplicate
  <2> QED BY <1>1, <1>2, <2>1, <2>2, QuietNext
<1>5. CASE ~IsDuplicate(i)
  <2>1. PICK x : x = [j EXCEPT !.pc = "file"]
    OBVIOUS
  <2>2. /\ x \in JobType /\ x.pc = "file" /\ x.uid = j.uid /\ x.at = j.at /\ x.failed = j.failed
        /\ x.excused = j.excused
    BY <2>1 DEF JobType
  <2>3. ~Archived(MessageId(Walked[i][x.at]))
    BY <1>1, <1>5, <2>2 DEF IsDuplicate, Text, Archived
  <2>4. x.at \in DOMAIN Walked[i]
    BY <1>2, <2>2, WalkedIs
  <2>5. JobInv(i, x)
    BY <1>1, <1>2, <2>2, <2>3, <2>4 DEF JobInv, Archiving
  <2>6. import' = [import EXCEPT ![i] = x]
    BY <1>1, <1>5, <2>1 DEF CheckDuplicate
  <2>7. index = i /\ index' = i /\ \A k \in Imports : import[k].pc \in Archiving => index' = k
    BY <1>1, <1>2 DEF CommandsInv, IndexInv, CheckDuplicate
  <2> QED
    BY <1>5, <2>2, <2>5, <2>6, <2>7 DEF Quiet, QuietTo, CheckDuplicate, ImportStep, ArchiveSame, BackupSame,
       archiveVars, serverVars, keyVars, backupVars, CommandsInv, Typed, ImportTyped
<1> QED BY <1>4, <1>5

LEMMA QuietFails ==
  ASSUME CommandsInv, NEW i \in Imports, InsertConflict(i) \/ MessageFails(i)
  PROVE  Quiet(i)
<1>1. PICK j \in JobType : j = import[i] /\ JobInv(i, j)
  BY JobOf DEF CommandsInv
<1>2. PICK missed : missed = j.failed \cup {j.at}
  OBVIOUS
<1>3. missed \subseteq Nat /\ missed # {}
  BY <1>2, JobFields
<1>4. PICK job : job = [j EXCEPT !.failed = missed]
  OBVIOUS
<1>5. job \in JobType /\ job.failed = missed /\ job.at = j.at /\ job.uid = j.uid /\ job.excused = j.excused
  BY <1>3, <1>4 DEF JobType
<1>6. events \in Nat
  BY DEF CommandsInv, Typed, ImportTyped
<1>7. Failed(i) = job
  BY <1>1, <1>2, <1>4 DEF Failed
<1>8. CASE InsertConflict(i)
  <2>1. j.pc = "insert" /\ j.pc \in Archiving
    BY <1>1, <1>8 DEF InsertConflict, ImportAt, Archiving
  <2>2. j.at \in 1 .. Len(Walked[i])
    BY <1>1, <2>1, WalkedIs DEF JobInv
  <2>3. PICK r \in rows : r.folder = Target[i] /\ r.uid = j.uid
    BY <1>1, <1>8 DEF InsertConflict, UidTaken
  <2>4. r.uid \in Nat
    BY RowFields DEF CommandsInv, Typed, ArchiveTyped
  <2>5. ~Free(i, j.uid)
    BY <2>3, <2>4 DEF Free
  <2>6. job.excused
    BY <1>1, <1>5, <2>1, <2>5 DEF JobInv
  <2>7. NextMessage(i, job) /\ ImportStep /\ UNCHANGED archiveVars /\ UNCHANGED index /\ events' \in Nat
    BY <1>6, <1>7, <1>8 DEF InsertConflict
  <2> QED BY <1>1, <1>3, <1>5, <2>1, <2>2, <2>6, <2>7, QuietNext
<1>9. CASE MessageFails(i)
  <2>1. PICK hit : hit = [job EXCEPT !.excused = TRUE]
    OBVIOUS
  <2>2. hit \in JobType /\ hit.failed = missed /\ hit.at = j.at /\ hit.uid = j.uid /\ hit.excused
    BY <1>5, <2>1 DEF JobType
  <2>3. j.pc \in Archiving /\ j.at \in 1 .. Len(Walked[i])
    BY <1>1, <1>9, JobFields, WalkedIs DEF MessageFails, Archiving
  <2>4. NextMessage(i, hit) /\ ImportStep /\ UNCHANGED archiveVars /\ UNCHANGED index /\ events' \in Nat
    BY <1>6, <1>7, <1>9, <2>1 DEF MessageFails, Event
  <2> QED BY <1>1, <1>3, <2>2, <2>3, <2>4, QuietNext
<1> QED BY <1>8, <1>9

LEMMA QuietFinish ==
  ASSUME CommandsInv, NEW i \in Imports, FinishImport(i)
  PROVE  Quiet(i)
<1>1. PICK j \in JobType : j = import[i] /\ JobInv(i, j)
  BY JobOf DEF CommandsInv
<1>2. j.pc = "check" /\ j.at > Len(Walked[i]) /\ ~Walk[i].failed
  BY <1>1 DEF FinishImport, ImportAt
<1>3. PICK x : x = [IdleImport EXCEPT !.pc = "done", !.failed = j.failed, !.excused = j.excused]
  OBVIOUS
<1>4. x \in JobType /\ x.pc = "done" /\ x.failed = j.failed /\ x.excused = j.excused
  BY <1>3, IdleIs DEF JobType
<1>5. \A k \in DOMAIN Walked[i] : k < j.at
  BY <1>1, <1>2, JobFields, WalkedIs
<1>6. j.failed = {} => \A k \in DOMAIN Walked[i] : Known(Walked[i][k])
  BY <1>1, <1>2, <1>5 DEF JobInv, Archiving
<1>7. JobInv(i, x)
  BY <1>1, <1>2, <1>4, <1>6 DEF JobInv, Archiving
<1>8. import' = [import EXCEPT ![i] = x] /\ index' = None
  BY <1>1, <1>3 DEF FinishImport
<1>9. \A k \in Imports : k # i => ~(import[k].pc \in Archiving)
  BY <1>1, <1>2 DEF CommandsInv, IndexInv, Archiving
<1>10. index' \in Imports \cup {None} /\ ~(x.pc \in Archiving)
  BY <1>4, <1>8 DEF Archiving
<1> QED
  BY <1>4, <1>7, <1>8, <1>9, <1>10 DEF Quiet, QuietTo, FinishImport, ImportStep, ArchiveSame, BackupSame,
     archiveVars, serverVars, keyVars, backupVars, CommandsInv, Typed, ImportTyped

LEMMA QuietStops ==
  ASSUME CommandsInv, NEW i \in Imports,
         OpenIndexFails(i) \/ WalkFails(i) \/ RunAgain(i) \/ KillImport(i)
  PROVE  Quiet(i)
<1>1. account \in {"none", "imported", "imap"} /\ events \in Nat /\ events + 1 \in Nat
  BY DEF CommandsInv, Typed, ImportTyped
<1>2. Ends(i) /\ ImportStep /\ UNCHANGED archiveVars /\ (index' = index \/ (index = i /\ index' = None))
  <2>1. import[i].pc = "check" => index = i
    BY DEF CommandsInv, IndexInv, Archiving
  <2> QED BY <2>1 DEF OpenIndexFails, WalkFails, ImportAt, RunAgain, KillImport
<1>3. events' \in Nat
  BY <1>1 DEF OpenIndexFails, WalkFails, RunAgain, KillImport, Event
<1> QED BY <1>1, <1>2, <1>3, QuietEnds DEF archiveVars

(* What a step may do to the archive without disturbing an import. *)
LEMMA JobKept ==
  ASSUME NEW i \in Imports, NEW x \in JobType, JobInv(i, x),
         x.pc \in {"file", "insert"} => \A id \in Ids : Archived(id)' => Archived(id),
         \A text \in Texts : Known(text) => Known(text)',
         x.pc = "insert" => \A text \in Texts : Written(i, text) => Written(i, text)',
         x.pc \in {"open"} \cup Archiving /\ ~x.excused =>
            \A uid \in Nat : uid # 0 => (Free(i, uid) => Free(i, uid)')
  PROVE  JobInv(i, x)'
<1>1. \A k \in DOMAIN Walked[i] : Walked[i][k] \in Texts /\ MessageId(Walked[i][k]) \in Ids
  BY WalkedIs
<1>2. x.pc \in {"file", "insert"} =>
          x.at \in DOMAIN Walked[i] /\ ~Archived(MessageId(Walked[i][x.at]))'
  BY <1>1 DEF JobInv
<1>3. x.pc = "insert" => Written(i, Walked[i][x.at])'
  BY <1>1, <1>2 DEF JobInv
<1>4. x.pc \in {"open"} \cup Archiving => x.uid # 0 /\ (~x.excused => Free(i, x.uid)')
  BY JobFields DEF JobInv
<1>5. x.pc \in Archiving /\ x.failed = {} =>
          \A k \in DOMAIN Walked[i] : k < x.at => Known(Walked[i][k])'
  BY <1>1 DEF JobInv
<1>6. x.pc = "done" /\ x.failed = {} => \A k \in DOMAIN Walked[i] : Known(Walked[i][k])'
  BY <1>1 DEF JobInv
<1> QED BY <1>2, <1>3, <1>4, <1>5, <1>6 DEF JobInv

(* Frames. *)
LEMMA SameArchive ==
  ASSUME ArchiveInv, ArchiveSame
  PROVE  ArchiveInv'
<1>1. NamesInv'
  BY DEF ArchiveInv, NamesInv, ArchiveSame
<1>2. RequestInv'
  BY DEF ArchiveInv, RequestInv, Busy, ArchiveSame
<1>3. FileInv'
  BY DEF ArchiveInv, FileInv, Place, ArchiveSame
<1>4. UidInv' /\ ImportedOnce'
  BY DEF ArchiveInv, UidInv, ImportedOnce, ArchiveSame
<1> QED BY <1>1, <1>2, <1>3, <1>4 DEF ArchiveInv

LEMMA SameSeal ==
  ASSUME BackupSame
  PROVE  (KeyInv => KeyInv') /\ (SealInv => SealInv')
<1>1. KeyInv => KeyInv'
  BY DEF KeyInv, BackupSame
<1>2. SealInv => SealInv'
  BY DEF SealInv, Restorable, BackupSame
<1> QED BY <1>1, <1>2

LEMMA SameCopy ==
  ASSUME CopyInv, BackupSame, Busy' => Busy /\ server'.row = server.row,
         \A f \in files : f \in files' \/ (Busy /\ f.name = server.row.name)
  PROVE  CopyInv'
<1>1. UNCHANGED <<backup, dest>>
  BY DEF BackupSame
<1>2. ASSUME NEW r \in dest.db, r.local, r.name \notin dest.touched, Copying PROVE Copied(r)'
  <2>1. Copied(r)
    BY <1>2 DEF CopyInv
  <2>2. CASE \E f \in dest.tar : FileFor(f, r)
    BY <1>1, <2>2 DEF Copied, FileFor
  <2>3. CASE \E f \in files : FileFor(f, r) /\ Ahead(f)
    <3>1. PICK f \in files : FileFor(f, r) /\ Ahead(f)
      BY <2>3
    <3>2. f \in files'
      BY <1>2, <3>1 DEF CopyInv, FileFor
    <3>3. FileFor(f, r)' /\ Ahead(f)'
      BY <1>1, <3>1 DEF FileFor, Ahead
    <3> QED BY <3>2, <3>3 DEF Copied
  <2> QED BY <2>1, <2>2, <2>3 DEF Copied
<1>3. \A r \in dest'.db : Copying' /\ r.local /\ r.name \notin dest'.touched => Copied(r)'
  BY <1>1, <1>2 DEF Copying
<1>4. Copying' /\ Busy' => server'.row.name \in dest'.touched
  BY <1>1 DEF CopyInv, Copying
<1>5. /\ backup'.pc = "db" => backup'.dir = 1
      /\ backup'.pc \in {"db", "dir"} => backup'.todo = {}
      /\ Copying' => ~dest'.empty
  BY <1>1 DEF CopyInv, Copying
<1> QED BY <1>3, <1>4, <1>5 DEF CopyInv

LEMMA QuietKeeps ==
  ASSUME CommandsInv, NEW i \in Imports, Quiet(i)
  PROVE  CommandsInv'
<1>1. PICK x \in JobType : QuietTo(i, x)
  BY DEF Quiet
<1>2. ArchiveSame /\ BackupSame /\ import' = [import EXCEPT ![i] = x] /\ JobInv(i, x)
  BY <1>1 DEF QuietTo
<1>3. import \in [Imports -> JobType]
  BY DEF CommandsInv, Typed, ImportTyped
<1>4. \A k \in Imports : import'[k] = (IF k = i THEN x ELSE import[k]) /\ import'[k] \in JobType
  BY <1>2, <1>3
<1>5. Typed'
  <2>1. ImportTyped'
    BY <1>1, <1>2, <1>3 DEF ImportTyped, QuietTo
  <2>2. ArchiveTyped' /\ (server \in RequestType)' /\ BackupTyped'
    BY <1>2 DEF CommandsInv, Typed, ArchiveTyped, BackupTyped, ArchiveSame, BackupSame
  <2> QED BY <2>1, <2>2 DEF Typed
<1>6. IndexInv'
  BY <1>1, <1>4 DEF IndexInv, QuietTo, Archiving
<1>7. JobsInv'
  <2>1. ASSUME NEW k \in Imports, NEW y \in {import'[k]} PROVE JobInv(k, y)'
    <3>1. y \in JobType /\ JobInv(k, y)
      BY <1>2, <1>4, <2>1, JobOf DEF CommandsInv
    <3>2. /\ \A id \in Ids : Archived(id)' => Archived(id)
          /\ \A text \in Texts : Known(text) => Known(text)'
          /\ \A text \in Texts : Written(k, text) => Written(k, text)'
          /\ \A uid \in Nat : Free(k, uid) => Free(k, uid)'
      BY <1>2 DEF ArchiveSame, Archived, Known, Written, Free, Busy
    <3> QED BY <3>1, <3>2, JobKept
  <2> QED BY <2>1 DEF JobsInv
<1>8. ArchiveInv'
  BY <1>2, SameArchive DEF CommandsInv
<1>9. KeyInv' /\ SealInv'
  BY <1>2, SameSeal DEF CommandsInv
<1>10. CopyInv'
  BY <1>2, SameCopy DEF CommandsInv, ArchiveSame, Busy
<1> QED BY <1>5, <1>6, <1>7, <1>8, <1>9, <1>10 DEF CommandsInv

LEMMA WriteKeeps ==
  ASSUME CommandsInv, NEW i \in Imports, WriteFile(i)
  PROVE  CommandsInv'
<1>1. PICK j \in JobType : j = import[i] /\ JobInv(i, j)
  BY JobOf DEF CommandsInv
<1>2. j.pc = "file" /\ j.pc \in Archiving
  BY <1>1 DEF WriteFile, ImportAt, Archiving
<1>3. PICK text \in Texts : text = Walked[i][j.at] /\ Imported(text) /\ j.at \in DOMAIN Walked[i]
  BY <1>1, <1>2, WalkedIs DEF JobInv
<1>4. PICK n \in Nat : n = nextName /\ n # 0
  BY DEF CommandsInv, Typed, ArchiveTyped
<1>5. PICK new : new = [name |-> n, dir |-> Target[i], text |-> text]
  OBVIOUS
<1>6. new \in FileType /\ new.name = n
  BY <1>5, CommandsAssumption DEF FileType
<1>7. files' = files \cup {new} /\ nextName' = n + 1
  BY <1>1, <1>3, <1>4, <1>5 DEF WriteFile, Text
<1>8. PICK x : x = [j EXCEPT !.pc = "insert"]
  OBVIOUS
<1>9. /\ x \in JobType /\ x.pc = "insert" /\ x.at = j.at /\ x.uid = j.uid /\ x.failed = j.failed
      /\ x.excused = j.excused
  BY <1>8 DEF JobType
<1>10. import' = [import EXCEPT ![i] = x] /\ UNCHANGED <<account, lastUid, rows, index, events>>
  BY <1>1, <1>8 DEF WriteFile
<1>11. UNCHANGED <<server, gone>> /\ BackupSame
  BY DEF WriteFile, ImportStep, serverVars, keyVars, backupVars, BackupSame
<1>12. import \in [Imports -> JobType]
  BY DEF CommandsInv, Typed, ImportTyped
<1>13. \A k \in Imports : import'[k] = (IF k = i THEN x ELSE import[k]) /\ import'[k] \in JobType
  BY <1>9, <1>10, <1>12
<1>14. Typed'
  <2>1. ImportTyped'
    BY <1>9, <1>10, <1>12 DEF CommandsInv, Typed, ImportTyped
  <2>2. ArchiveTyped'
    BY <1>6, <1>7, <1>10, <1>11 DEF CommandsInv, Typed, ArchiveTyped
  <2>3. (server \in RequestType)' /\ BackupTyped'
    BY <1>11 DEF CommandsInv, Typed, BackupTyped, BackupSame
  <2> QED BY <2>1, <2>2, <2>3 DEF Typed
<1>15. IndexInv'
  BY <1>2, <1>1, <1>10, <1>13 DEF CommandsInv, IndexInv
<1>16. (\A f \in files : f.name \in Nat /\ f.name < n) /\ (\A r \in rows : r.name \in Nat /\ r.name < n)
  BY <1>4, RowFields, FileFields DEF CommandsInv, Typed, ArchiveTyped, ArchiveInv, NamesInv
<1>17. Busy => server.row.name \in Nat /\ server.row.name < n
  BY <1>4, RowFields DEF CommandsInv, ArchiveInv, RequestInv
<1>18. NamesInv'
  <2>1. \A f \in files' : f.name < nextName'
    BY <1>4, <1>6, <1>7, <1>16
  <2>2. \A f, g \in files' : f.name = g.name => f = g
    BY <1>4, <1>6, <1>7, <1>16 DEF CommandsInv, ArchiveInv, NamesInv
  <2>3. \A r \in rows' : r.name < nextName'
    BY <1>4, <1>7, <1>10, <1>16
  <2> QED BY <1>10, <2>1, <2>2, <2>3 DEF CommandsInv, ArchiveInv, NamesInv
<1>19. RequestInv'
  BY <1>4, <1>7, <1>10, <1>11, <1>17 DEF CommandsInv, ArchiveInv, RequestInv, Busy
<1>20. FileInv'
  BY <1>7, <1>10, <1>11 DEF CommandsInv, ArchiveInv, FileInv, Place
<1>21. UidInv' /\ ImportedOnce'
  BY <1>10 DEF CommandsInv, ArchiveInv, UidInv, ImportedOnce
<1>22. JobsInv'
  <2>1. Written(i, text)'
    <3>1. nextName' - 1 = n /\ nextName' > 1
      BY <1>4, <1>7
    <3>2. [name |-> nextName' - 1, dir |-> Target[i], text |-> text] \in files'
      BY <1>5, <1>7, <3>1
    <3>3. \A r \in rows' : r.name # nextName' - 1
      BY <1>4, <1>10, <1>16, <3>1
    <3>4. Busy' => server'.row.name # nextName' - 1
      BY <1>4, <1>11, <1>17, <3>1 DEF Busy
    <3> QED BY <3>1, <3>2, <3>3, <3>4 DEF Written
  <2>2. /\ \A id \in Ids : Archived(id)' => Archived(id)
        /\ \A t \in Texts : Known(t) => Known(t)'
        /\ \A k \in Imports : \A uid \in Nat : Free(k, uid) => Free(k, uid)'
    BY <1>10, <1>11 DEF Archived, Known, Free
  <2>3. JobInv(i, x)'
    <3>1. JobInv(i, j)'
      BY <1>1, <1>2, <2>2, JobKept
    <3> QED BY <1>2, <1>3, <1>9, <2>1, <3>1 DEF JobInv, Archiving
  <2>4. ASSUME NEW k \in Imports, k # i, NEW y, y = import[k] PROVE JobInv(k, y)'
    <3>1. y \in JobType /\ JobInv(k, y)
      BY <2>4, JobOf DEF CommandsInv
    <3>2. ~(y.pc \in Archiving)
      BY <1>1, <1>2, <2>4 DEF CommandsInv, IndexInv
    <3> QED BY <2>2, <3>1, <3>2, JobKept DEF Archiving
  <2>5. ASSUME NEW k \in Imports, NEW y \in {import'[k]} PROVE JobInv(k, y)'
    BY <1>13, <2>3, <2>4, <2>5
  <2> QED BY <2>5 DEF JobsInv
<1>23. KeyInv' /\ SealInv' /\ CopyInv'
  BY <1>7, <1>11, SameSeal, SameCopy DEF CommandsInv, Busy
<1> QED
  BY <1>14, <1>15, <1>18, <1>19, <1>20, <1>21, <1>22, <1>23 DEF CommandsInv, ArchiveInv

LEMMA InsertKeeps ==
  ASSUME CommandsInv, NEW i \in Imports, InsertRow(i)
  PROVE  CommandsInv'
<1>1. PICK j \in JobType : j = import[i] /\ JobInv(i, j)
  BY JobOf DEF CommandsInv
<1>2. j.pc = "insert" /\ j.pc \in Archiving
  BY <1>1 DEF InsertRow, ImportAt, Archiving
<1>3. PICK text \in Texts : /\ text = Walked[i][j.at] /\ Imported(text) /\ j.at \in DOMAIN Walked[i]
                            /\ MessageId(text) \in Ids
  BY <1>1, <1>2, WalkedIs DEF JobInv
<1>4. Written(i, text) /\ ~Archived(MessageId(text))
  BY <1>1, <1>2, <1>3 DEF JobInv
<1>5. PICK n \in Nat : n = nextName - 1 /\ n < nextName /\ nextName \in Nat
  BY <1>4 DEF Written, CommandsInv, Typed, ArchiveTyped
<1>6. PICK d \in Dirs : d = Target[i]
  BY CommandsAssumption
<1>7. PICK u \in Nat : u = j.uid /\ u # 0
  BY <1>1, <1>2, JobFields DEF JobInv
<1>8. PICK id \in Ids : id = MessageId(text)
  BY <1>3
<1>9. PICK new : new = [name |-> n, id |-> id, folder |-> d, uid |-> u, dir |-> d, local |-> TRUE]
  OBVIOUS
<1>10. /\ new \in RowType /\ new.name = n /\ new.id = id /\ new.folder = d /\ new.uid = u /\ new.dir = d
       /\ new.local
  BY <1>9 DEF RowType
<1>11. rows' = rows \cup {new}
  BY <1>1, <1>3, <1>5, <1>6, <1>7, <1>8, <1>9 DEF InsertRow, Text
<1>12. UNCHANGED <<account, files, nextName, index, events, server, gone>> /\ BackupSame
  BY DEF InsertRow, ImportStep, serverVars, keyVars, backupVars, BackupSame
<1>13. lastUid \in [Dirs -> Nat] /\ rows \subseteq RowType
  BY DEF CommandsInv, Typed, ArchiveTyped
<1>14. lastUid' = [lastUid EXCEPT ![d] = IF lastUid[d] < u THEN u ELSE lastUid[d]]
  BY <1>1, <1>6, <1>7 DEF InsertRow
<1>15. /\ lastUid' \in [Dirs -> Nat] /\ u <= lastUid'[d]
       /\ \A e \in Dirs : lastUid[e] \in Nat /\ lastUid'[e] \in Nat /\ lastUid[e] <= lastUid'[e]
  BY <1>13, <1>14
<1>16. PICK next \in Nat \ {0} : next = j.at + 1
  BY JobFields
<1>17. PICK after \in Nat : after = u + 1
  OBVIOUS
<1>18. PICK x : x = [j EXCEPT !.pc = "check", !.at = next, !.uid = after]
  OBVIOUS
<1>19. /\ x \in JobType /\ x.pc = "check" /\ x.at = next /\ x.uid = after /\ x.failed = j.failed
       /\ x.excused = j.excused
  BY <1>17, <1>18 DEF JobType
<1>20. import' = [k \in Imports |->
           IF k = i THEN x
           ELSE IF import[k].pc = "open" /\ Target[k] = d THEN [import[k] EXCEPT !.excused = TRUE]
           ELSE import[k]]
  BY <1>1, <1>6, <1>7, <1>16, <1>17, <1>18 DEF InsertRow, ImportAt
<1>21. import \in [Imports -> JobType]
  BY DEF CommandsInv, Typed, ImportTyped
<1>22. ASSUME NEW y \in JobType
       PROVE  /\ [y EXCEPT !.excused = TRUE] \in JobType /\ [y EXCEPT !.excused = TRUE].pc = y.pc
              /\ [y EXCEPT !.excused = TRUE].at = y.at /\ [y EXCEPT !.excused = TRUE].uid = y.uid
              /\ [y EXCEPT !.excused = TRUE].excused
  BY DEF JobType
<1>23. Typed'
  <2>1. import' \in [Imports -> JobType]
    BY <1>19, <1>20, <1>21, <1>22
  <2>2. ImportTyped'
    BY <1>12, <2>1 DEF CommandsInv, Typed, ImportTyped
  <2>3. ArchiveTyped'
    BY <1>10, <1>11, <1>12, <1>15 DEF CommandsInv, Typed, ArchiveTyped
  <2>4. (server \in RequestType)' /\ BackupTyped'
    BY <1>12 DEF CommandsInv, Typed, BackupTyped, BackupSame
  <2> QED BY <2>2, <2>3, <2>4 DEF Typed
<1>24. \A k \in Imports : k # i => ~(import[k].pc \in Archiving)
  BY <1>1, <1>2 DEF CommandsInv, IndexInv
<1>25. IndexInv'
  <2>1. ASSUME NEW k \in Imports, import'[k].pc \in Archiving PROVE index' = k
    <3>1. CASE k = i
      BY <1>1, <1>2, <1>12, <3>1 DEF CommandsInv, IndexInv
    <3>2. CASE k # i
      <4>1. import[k] \in JobType /\ import'[k].pc = import[k].pc
        BY <1>20, <1>21, <1>22, <3>2
      <4> QED BY <1>24, <2>1, <3>2, <4>1
    <3> QED BY <3>1, <3>2
  <2> QED BY <2>1 DEF IndexInv
<1>26. (\A r \in rows : r.name # n) /\ (Busy => server.row.name # n)
  BY <1>4, <1>5 DEF Written
<1>27. NamesInv'
  <2>1. \A r \in rows' : r.name < nextName'
    BY <1>5, <1>10, <1>11, <1>12 DEF CommandsInv, ArchiveInv, NamesInv
  <2>2. \A r, s \in rows' : r.name = s.name => r = s
    BY <1>10, <1>11, <1>26 DEF CommandsInv, ArchiveInv, NamesInv
  <2> QED BY <1>12, <2>1, <2>2 DEF CommandsInv, ArchiveInv, NamesInv
<1>28. RequestInv'
  <2>1. server'.pc = "file" => \A r \in rows' : r.name = server'.row.name => ~r.local
    BY <1>10, <1>11, <1>12, <1>26 DEF CommandsInv, ArchiveInv, RequestInv, Busy
  <2>2. server'.pc \in {"first", "row"} => server'.row \in rows'
    BY <1>11, <1>12 DEF CommandsInv, ArchiveInv, RequestInv
  <2> QED BY <1>12, <2>1, <2>2 DEF CommandsInv, ArchiveInv, RequestInv, Busy
<1>29. FileInv'
  <2>1. ASSUME NEW r \in rows', r.local PROVE \E f \in files' : Holds(f, r)' /\ f.dir = Place(r)'
    <3>1. Place(r)' = Place(r)
      BY <1>12 DEF Place
    <3>2. CASE r \in rows
      <4>1. PICK f \in files : Holds(f, r) /\ f.dir = Place(r)
        BY <2>1, <3>2 DEF CommandsInv, ArchiveInv, FileInv
      <4> QED BY <1>12, <3>1, <4>1 DEF Holds
    <3>3. CASE r = new
      <4>1. PICK f : f = [name |-> n, dir |-> d, text |-> text]
        OBVIOUS
      <4>2. f \in files /\ f.name = n /\ f.dir = d /\ f.text = text
        BY <1>4, <1>5, <1>6, <4>1 DEF Written
      <4>3. Holds(f, r)
        BY <1>3, <1>8, <1>10, <3>3, <4>2 DEF Holds
      <4>4. ~(server.pc = "row" /\ r = server.row)
        BY <1>10, <1>26, <3>3 DEF Busy
      <4>5. f.dir = Place(r)
        BY <1>10, <3>3, <4>2, <4>4 DEF Place
      <4> QED BY <1>12, <3>1, <4>2, <4>3, <4>5 DEF Holds
    <3> QED BY <1>11, <3>2, <3>3
  <2> QED BY <2>1 DEF FileInv
<1>30. UidInv'
  <2>1. ASSUME NEW r \in rows' PROVE r.uid <= lastUid'[r.folder]
    <3>1. CASE r = new
      BY <1>10, <1>15, <3>1
    <3>2. CASE r \in rows
      <4>1. r.uid \in Nat /\ r.folder \in Dirs /\ r.uid <= lastUid[r.folder]
        BY <1>13, <3>2, RowFields DEF CommandsInv, ArchiveInv, UidInv
      <4> QED BY <1>15, <4>1
    <3> QED BY <1>11, <3>1, <3>2
  <2> QED BY <2>1 DEF UidInv
<1>31. ImportedOnce'
  BY <1>4, <1>8, <1>10, <1>11 DEF CommandsInv, ArchiveInv, ImportedOnce, Archived
<1>32. \A t \in Texts : Known(t) => Known(t)'
  BY <1>11, <1>12 DEF Known
<1>33. JobInv(i, x)'
  <2>1. x.uid # 0 /\ (~x.excused => Free(i, x.uid)')
    <3>1. after # 0 /\ u < after
      BY <1>17
    <3>2. ASSUME ~x.excused, NEW r \in rows', r.folder = Target[i] PROVE r.uid < after
      <4>1. CASE r = new
        BY <1>10, <3>1, <4>1
      <4>2. CASE r \in rows
        <5>1. r.uid \in Nat /\ r.uid < u
          BY <1>1, <1>2, <1>7, <1>13, <1>19, <3>2, <4>2, RowFields DEF JobInv, Free
        <5> QED BY <3>1, <5>1
      <4> QED BY <1>11, <3>2, <4>1, <4>2
    <3> QED BY <1>19, <3>1, <3>2 DEF Free
  <2>2. Known(text)'
    BY <1>8, <1>10, <1>11 DEF Known
  <2>3. ASSUME x.failed = {}, NEW k \in DOMAIN Walked[i], k < x.at PROVE Known(Walked[i][k])'
    <3>1. k \in Nat /\ j.at \in Nat /\ Walked[i][k] \in Texts
      BY WalkedIs, JobFields
    <3>2. k < j.at \/ k = j.at
      BY <1>16, <1>19, <2>3, <3>1
    <3>3. k < j.at => Known(Walked[i][k])
      BY <1>1, <1>2, <1>19, <2>3 DEF JobInv
    <3> QED BY <1>3, <1>32, <2>2, <3>1, <3>2, <3>3
  <2>4. x.failed # {} => x.excused
    BY <1>1, <1>19 DEF JobInv
  <2> QED BY <1>19, <2>1, <2>3, <2>4 DEF JobInv, Archiving
<1>34. ASSUME NEW k \in Imports, k # i, NEW y, y = import[k], ~(y.pc = "open" /\ Target[k] = d)
       PROVE  JobInv(k, y)'
  <2>1. y \in JobType /\ JobInv(k, y) /\ ~(y.pc \in Archiving)
    BY <1>24, <1>34, JobOf DEF CommandsInv
  <2>2. y.pc = "open" => \A uid \in Nat : Free(k, uid) => Free(k, uid)'
    BY <1>10, <1>11, <1>34 DEF Free
  <2> QED BY <1>32, <2>1, <2>2, JobKept DEF Archiving
<1>35. ASSUME NEW k \in Imports, k # i, NEW y, y = import[k], y.pc = "open" /\ Target[k] = d
       PROVE  JobInv(k, [y EXCEPT !.excused = TRUE])'
  <2>1. y \in JobType /\ JobInv(k, y)
    BY <1>35, JobOf DEF CommandsInv
  <2>2. PICK z : z = [y EXCEPT !.excused = TRUE]
    OBVIOUS
  <2>3. z.pc = "open" /\ z.at = y.at /\ z.uid = y.uid /\ z.excused
    BY <1>22, <1>35, <2>1, <2>2
  <2>4. y.uid # 0 /\ y.at = 1
    BY <1>35, <2>1 DEF JobInv
  <2>5. JobInv(k, z)'
    BY <2>3, <2>4 DEF JobInv, Archiving
  <2> QED BY <2>2, <2>5
<1>36. JobsInv'
  <2>1. ASSUME NEW k \in Imports, NEW y \in {import'[k]} PROVE JobInv(k, y)'
    <3>1. CASE k = i
      BY <1>20, <1>33, <2>1, <3>1
    <3>2. CASE k # i /\ import[k].pc = "open" /\ Target[k] = d
      <4>1. y = [import[k] EXCEPT !.excused = TRUE]
        BY <1>20, <2>1, <3>2
      <4>2. PICK z : z = import[k]
        OBVIOUS
      <4> QED BY <1>35, <3>2, <4>1, <4>2
    <3>3. CASE k # i /\ ~(import[k].pc = "open" /\ Target[k] = d)
      <4>1. y = import[k]
        BY <1>20, <2>1, <3>3
      <4> QED BY <1>34, <3>3, <4>1
    <3> QED BY <3>1, <3>2, <3>3
  <2> QED BY <2>1 DEF JobsInv
<1>37. KeyInv' /\ SealInv' /\ CopyInv'
  BY <1>12, SameSeal, SameCopy DEF CommandsInv, Busy
<1> QED
  BY <1>23, <1>25, <1>27, <1>28, <1>29, <1>30, <1>31, <1>36, <1>37 DEF CommandsInv, ArchiveInv

(* The server's requests. *)
LEMMA SameJobs ==
  ASSUME CommandsInv, UNCHANGED import,
         \A id \in Ids : Archived(id)' => Archived(id),
         \A text \in Texts : Known(text) => Known(text)',
         \A k \in Imports, text \in Texts : Written(k, text) => Written(k, text)',
         \A k \in Imports, uid \in Nat : uid # 0 => (Free(k, uid) => Free(k, uid)')
  PROVE  JobsInv'
<1>1. ASSUME NEW k \in Imports, NEW y \in {import'[k]} PROVE JobInv(k, y)'
  <2>1. y \in JobType /\ JobInv(k, y)
    BY <1>1, JobOf DEF CommandsInv
  <2> QED BY <2>1, JobKept
<1> QED BY <1>1 DEF JobsInv

LEMMA SameTypes ==
  ASSUME CommandsInv, ServerStep, dest' \in DestType, events' \in Nat, rows' \subseteq RowType,
         files' \subseteq FileType, gone' \subseteq Ids, server' \in RequestType
  PROVE  Typed' /\ IndexInv'
<1>1. UNCHANGED <<account, lastUid, nextName, index, import, store, changing, backup>>
  BY DEF ServerStep, keyVars
<1>2. ArchiveTyped' /\ ImportTyped' /\ BackupTyped'
  BY <1>1 DEF CommandsInv, Typed, ArchiveTyped, ImportTyped, BackupTyped
<1>3. IndexInv'
  BY <1>1 DEF CommandsInv, IndexInv
<1> QED BY <1>2, <1>3 DEF Typed

LEMMA Facts ==
  ASSUME CommandsInv
  PROVE  /\ dest \in DestType /\ events \in Nat /\ rows \subseteq RowType /\ files \subseteq FileType
         /\ gone \subseteq Ids /\ server \in RequestType /\ lastUid \in [Dirs -> Nat]
         /\ nextName \in Nat /\ nextName # 0
  BY DEF CommandsInv, Typed, ArchiveTyped, ImportTyped, BackupTyped

LEMMA StartKeeps ==
  ASSUME CommandsInv, NEW kind \in {"delete", "evict", "move"}, NEW r \in rows, NEW to,
         to = None \/ to \in Dirs, kind = "move" => to \in Dirs, StartRequest(kind, r, to)
  PROVE  CommandsInv'
<1>1. r \in RowType /\ r.name \in Nat /\ r.local
  BY Facts, RowFields DEF StartRequest
<1>2. PICK s : s = [pc |-> "first", kind |-> kind, row |-> r, to |-> to]
  OBVIOUS
<1>3. /\ s \in RequestType /\ s.pc = "first" /\ s.row = r /\ s.kind = kind /\ s.to = to
  BY <1>1, <1>2 DEF RequestType
<1>4. server' = s /\ server.pc = "idle" /\ UNCHANGED <<rows, files, gone>> /\ ServerStep
  BY <1>2 DEF StartRequest
<1>5. UNCHANGED <<account, lastUid, nextName, index, import, store, changing, backup>>
  BY <1>4 DEF ServerStep, keyVars
<1>6. PICK more : more = dest.touched \cup {r.name}
  OBVIOUS
<1>7. dest' = IF backup.pc = "idle" THEN dest ELSE [dest EXCEPT !.touched = more]
  BY <1>6 DEF StartRequest
<1>8. more \subseteq Nat /\ dest.touched \subseteq more /\ r.name \in more
  BY <1>1, <1>6, Facts DEF DestType
<1>9. /\ dest' \in DestType /\ dest'.db = dest.db /\ dest'.tar = dest.tar /\ dest'.keys = dest.keys
      /\ dest'.manifest = dest.manifest /\ dest'.empty = dest.empty /\ dest'.mixed = dest.mixed
      /\ dest.touched \subseteq dest'.touched
      /\ backup.pc # "idle" => r.name \in dest'.touched
      /\ backup.pc = "idle" => dest' = dest
  <2>1. CASE backup.pc = "idle"
    BY <1>7, <2>1, Facts
  <2>2. CASE backup.pc # "idle"
    BY <1>7, <1>8, <2>2, Facts DEF DestType
  <2> QED BY <2>1, <2>2
<1>10. events' \in Nat
  BY Facts DEF StartRequest, Event
<1>11. Typed' /\ IndexInv'
  BY <1>3, <1>4, <1>9, <1>10, Facts, SameTypes
<1>12. r.name < nextName
  BY DEF CommandsInv, ArchiveInv, NamesInv
<1>13. NamesInv' /\ UidInv' /\ ImportedOnce'
  BY <1>4, <1>5 DEF CommandsInv, ArchiveInv, NamesInv, UidInv, ImportedOnce
<1>14. RequestInv'
  BY <1>1, <1>3, <1>4, <1>5, <1>12 DEF RequestInv, Busy
<1>15. FileInv'
  <2>1. ASSUME NEW q \in rows PROVE Place(q) = q.dir /\ Place(q)' = q.dir
    BY <1>3, <1>4 DEF Place
  <2> QED BY <1>4, <2>1 DEF CommandsInv, ArchiveInv, FileInv
<1>16. JobsInv'
  <2>1. ASSUME NEW k \in Imports, NEW text \in Texts, Written(k, text) PROVE Written(k, text)'
    BY <1>3, <1>4, <1>5, <2>1 DEF Written
  <2>2. /\ \A id \in Ids : Archived(id)' => Archived(id)
        /\ \A text \in Texts : Known(text) => Known(text)'
        /\ \A k \in Imports, uid \in Nat : Free(k, uid) => Free(k, uid)'
    BY <1>4 DEF Archived, Known, Free
  <2> QED BY <1>5, <2>1, <2>2, SameJobs
<1>17. KeyInv'
  BY <1>5, <1>9 DEF CommandsInv, KeyInv
<1>18. CopyInv'
  <2>1. Copying' /\ Busy' => server'.row.name \in dest'.touched
    BY <1>3, <1>4, <1>5, <1>9 DEF Copying
  <2>2. ASSUME NEW q \in dest.db, Copied(q) PROVE Copied(q)'
    BY <1>4, <1>5, <1>9, <2>2 DEF Copied, Ahead
  <2>3. Copying' => \A q \in dest'.db : q.local /\ q.name \notin dest'.touched => Copied(q)'
    BY <1>5, <1>9, <2>2 DEF CommandsInv, CopyInv, Copying
  <2> QED BY <1>5, <1>9, <2>1, <2>3 DEF CommandsInv, CopyInv, Copying
<1>19. SealInv'
  BY <1>5, <1>9 DEF CommandsInv, SealInv, Restorable
<1> QED
  BY <1>11, <1>13, <1>14, <1>15, <1>16, <1>17, <1>18, <1>19 DEF CommandsInv, ArchiveInv

LEMMA DeleteKeeps ==
  ASSUME CommandsInv, DeleteRow
  PROVE  CommandsInv'
<1>1. PICK s : s = server.row
  OBVIOUS
<1>2. server.pc = "first" /\ Busy
  BY DEF DeleteRow, ServerAt, Busy
<1>3. s \in rows /\ s \in RowType /\ s.id \in Ids /\ s.name < nextName /\ s.local
  BY <1>1, <1>2, Facts, RowFields DEF CommandsInv, ArchiveInv, RequestInv
<1>4. rows' = rows \ {s} /\ gone' = gone \cup {s.id} /\ UNCHANGED <<files, events, dest>> /\ ServerStep
  BY <1>1 DEF DeleteRow
<1>5. UNCHANGED <<account, lastUid, nextName, index, import, store, changing, backup>>
  BY <1>4 DEF ServerStep, keyVars
<1>6. server' \in RequestType /\ server'.pc = "file" /\ server'.row = s
  BY <1>1, Facts DEF DeleteRow, RequestType
<1>7. Typed' /\ IndexInv'
  BY <1>3, <1>4, <1>6, Facts, SameTypes
<1>8. NamesInv' /\ UidInv' /\ ImportedOnce'
  BY <1>4, <1>5 DEF CommandsInv, ArchiveInv, NamesInv, UidInv, ImportedOnce
<1>9. RequestInv'
  <2>1. \A r \in rows' : r.name # s.name
    BY <1>3, <1>4 DEF CommandsInv, ArchiveInv, NamesInv
  <2> QED BY <1>3, <1>4, <1>5, <1>6, <2>1 DEF RequestInv, Busy
<1>10. FileInv'
  <2>1. ASSUME NEW r \in rows PROVE Place(r) = r.dir /\ Place(r)' = r.dir
    BY <1>2, <1>6 DEF Place
  <2> QED BY <1>4, <2>1 DEF CommandsInv, ArchiveInv, FileInv
<1>11. JobsInv'
  <2>1. ASSUME NEW text \in Texts, Known(text) PROVE Known(text)'
    <3>1. CASE MessageId(text) = s.id
      BY <1>4, <3>1 DEF Known
    <3>2. CASE MessageId(text) # s.id
      BY <1>4, <2>1, <3>2 DEF Known
    <3> QED BY <3>1, <3>2
  <2>2. \A k \in Imports, text \in Texts : Written(k, text) => Written(k, text)'
    BY <1>1, <1>2, <1>4, <1>5, <1>6 DEF Written
  <2>3. /\ \A id \in Ids : Archived(id)' => Archived(id)
        /\ \A k \in Imports, uid \in Nat : Free(k, uid) => Free(k, uid)'
    BY <1>4 DEF Archived, Free
  <2> QED BY <1>5, <2>1, <2>2, <2>3, SameJobs
<1>12. KeyInv' /\ SealInv' /\ CopyInv'
  <2>1. BackupSame
    BY <1>4, <1>5 DEF BackupSame
  <2> QED BY <1>1, <1>2, <1>4, <1>6, <2>1, SameSeal, SameCopy DEF CommandsInv
<1> QED BY <1>7, <1>8, <1>9, <1>10, <1>11, <1>12 DEF CommandsInv, ArchiveInv

(* The row of the request is replaced by n: evicted, or in another folder. *)
LEMMA Replaced ==
  ASSUME CommandsInv, NEW s \in rows, NEW n \in RowType, n.name = s.name, n.id = s.id,
         n.uid = 0 \/ (n.uid = s.uid /\ n.folder = s.folder),
         rows' = (rows \ {s}) \cup {n}, UNCHANGED <<gone, files, nextName, lastUid, import>>,
         Busy, server.row = s, Busy' => server'.row = s
  PROVE  NamesInv' /\ UidInv' /\ ImportedOnce' /\ JobsInv'
<1>1. NamesInv'
  <2>1. \A r \in rows' : r.name < nextName'
    BY DEF CommandsInv, ArchiveInv, NamesInv
  <2>2. \A r, q \in rows' : r.name = q.name => r = q
    BY DEF CommandsInv, ArchiveInv, NamesInv
  <2> QED BY <2>1, <2>2 DEF CommandsInv, ArchiveInv, NamesInv
<1>2. UidInv'
  <2>1. lastUid[n.folder] \in Nat
    BY Facts, RowFields
  <2>2. n.uid <= lastUid[n.folder]
    BY <2>1 DEF CommandsInv, ArchiveInv, UidInv
  <2> QED BY <2>2 DEF CommandsInv, ArchiveInv, UidInv
<1>3. ImportedOnce'
  BY DEF CommandsInv, ArchiveInv, ImportedOnce
<1>4. JobsInv'
  <2>1. \A id \in Ids : Archived(id)' => Archived(id)
    BY DEF Archived
  <2>2. ASSUME NEW text \in Texts, Known(text) PROVE Known(text)'
    <3>1. CASE MessageId(text) \in gone
      BY <3>1 DEF Known
    <3>2. CASE \E r \in rows : r.id = MessageId(text)
      <4>1. PICK r \in rows : r.id = MessageId(text)
        BY <3>2
      <4>2. r = s \/ r \in rows'
        OBVIOUS
      <4>3. n \in rows'
        OBVIOUS
      <4> QED BY <4>1, <4>2, <4>3 DEF Known
    <3> QED BY <2>2, <3>1, <3>2 DEF Known
  <2>3. ASSUME NEW k \in Imports, NEW text \in Texts, Written(k, text) PROVE Written(k, text)'
    BY <2>3 DEF Written
  <2>4. ASSUME NEW k \in Imports, NEW uid \in Nat, uid # 0, Free(k, uid) PROVE Free(k, uid)'
    <3>1. n.folder = Target[k] => n.uid < uid
      BY <2>4 DEF Free
    <3> QED BY <2>4, <3>1 DEF Free
  <2> QED BY <2>1, <2>2, <2>3, <2>4, SameJobs
<1> QED BY <1>1, <1>2, <1>3, <1>4

LEMMA EvictKeeps ==
  ASSUME CommandsInv, EvictRow
  PROVE  CommandsInv'
<1>1. PICK s : s = server.row
  OBVIOUS
<1>2. server.pc = "first" /\ Busy
  BY DEF EvictRow, ServerAt, Busy
<1>3. s \in rows /\ s \in RowType /\ s.name < nextName /\ s.local
  BY <1>1, <1>2, Facts DEF CommandsInv, ArchiveInv, RequestInv
<1>4. PICK n : n = [s EXCEPT !.local = FALSE]
  OBVIOUS
<1>5. /\ n \in RowType /\ n.name = s.name /\ n.id = s.id /\ n.uid = s.uid /\ n.folder = s.folder
      /\ ~n.local
  BY <1>3, <1>4 DEF RowType
<1>6. rows' = (rows \ {s}) \cup {n} /\ UNCHANGED <<files, events, gone, dest>> /\ ServerStep
  BY <1>1, <1>4 DEF EvictRow, Replace
<1>7. UNCHANGED <<account, lastUid, nextName, index, import, store, changing, backup>>
  BY <1>6 DEF ServerStep, keyVars
<1>8. server' \in RequestType /\ server'.pc = "file" /\ server'.row = s
  BY <1>1, Facts DEF EvictRow, RequestType
<1>9. Typed' /\ IndexInv'
  BY <1>5, <1>6, <1>8, Facts, SameTypes
<1>10. NamesInv' /\ UidInv' /\ ImportedOnce' /\ JobsInv'
  BY <1>1, <1>2, <1>3, <1>5, <1>6, <1>7, <1>8, Replaced
<1>11. RequestInv'
  <2>1. \A r \in rows' : r.name = s.name => ~r.local
    BY <1>3, <1>5, <1>6 DEF CommandsInv, ArchiveInv, NamesInv
  <2> QED BY <1>3, <1>6, <1>7, <1>8, <2>1 DEF RequestInv, Busy
<1>12. FileInv'
  <2>1. ASSUME NEW r PROVE Place(r) = r.dir /\ Place(r)' = r.dir
    BY <1>2, <1>8 DEF Place
  <2> QED BY <1>5, <1>6, <2>1 DEF CommandsInv, ArchiveInv, FileInv
<1>13. KeyInv' /\ SealInv' /\ CopyInv'
  <2>1. BackupSame
    BY <1>6, <1>7 DEF BackupSame
  <2> QED BY <1>1, <1>2, <1>6, <1>8, <2>1, SameSeal, SameCopy DEF CommandsInv
<1> QED BY <1>9, <1>10, <1>11, <1>12, <1>13 DEF CommandsInv, ArchiveInv

LEMMA IdleServerIs == IdleServer \in RequestType /\ IdleServer.pc = "idle"
  BY DEF IdleServer, RequestType

LEMMA AssignKeeps ==
  ASSUME CommandsInv, AssignFolder
  PROVE  CommandsInv'
<1>1. PICK s, to : s = server.row /\ to = server.to
  OBVIOUS
<1>2. server.pc = "row" /\ Busy
  BY DEF AssignFolder, Busy
<1>3. s \in rows /\ s \in RowType /\ s.name < nextName /\ s.local /\ to \in Dirs
  BY <1>1, <1>2, Facts DEF CommandsInv, ArchiveInv, RequestInv
<1>4. PICK n : n = [s EXCEPT !.folder = to, !.dir = to, !.uid = 0]
  OBVIOUS
<1>5. /\ n \in RowType /\ n.name = s.name /\ n.id = s.id /\ n.uid = 0 /\ n.folder = to /\ n.dir = to
      /\ n.local = s.local
  BY <1>3, <1>4 DEF RowType
<1>6. rows' = (rows \ {s}) \cup {n} /\ UNCHANGED <<files, events, gone, dest>> /\ ServerStep
  BY <1>1, <1>4 DEF AssignFolder, Replace
<1>7. UNCHANGED <<account, lastUid, nextName, index, import, store, changing, backup>>
  BY <1>6 DEF ServerStep, keyVars
<1>8. server' \in RequestType /\ server'.pc = "idle"
  BY IdleServerIs DEF AssignFolder
<1>9. Typed' /\ IndexInv'
  BY <1>5, <1>6, <1>8, Facts, SameTypes
<1>10. NamesInv' /\ UidInv' /\ ImportedOnce' /\ JobsInv'
  BY <1>1, <1>2, <1>3, <1>5, <1>6, <1>7, <1>8, Replaced DEF Busy
<1>11. RequestInv'
  BY <1>8 DEF RequestInv, Busy
<1>12. FileInv'
  <2>1. ASSUME NEW r \in rows', r.local PROVE \E f \in files' : Holds(f, r)' /\ f.dir = Place(r)'
    <3>1. Place(r)' = r.dir
      BY <1>8 DEF Place
    <3>2. CASE r = n
      <4>1. PICK f \in files : Holds(f, s) /\ f.dir = Place(s)
        BY <1>3 DEF CommandsInv, ArchiveInv, FileInv
      <4>2. Place(s) = to
        BY <1>1, <1>2 DEF Place
      <4>3. Holds(f, n)
        BY <1>5, <4>1 DEF Holds
      <4> QED BY <1>5, <1>6, <3>1, <3>2, <4>1, <4>2, <4>3 DEF Holds
    <3>3. CASE r \in rows \ {s}
      <4>1. PICK f \in files : Holds(f, r) /\ f.dir = Place(r)
        BY <2>1, <3>3 DEF CommandsInv, ArchiveInv, FileInv
      <4>2. Place(r) = r.dir
        BY <1>1, <3>3 DEF Place
      <4> QED BY <1>6, <3>1, <4>1, <4>2 DEF Holds
    <3> QED BY <1>6, <3>2, <3>3
  <2> QED BY <2>1 DEF FileInv
<1>13. KeyInv' /\ SealInv' /\ CopyInv'
  <2>1. BackupSame
    BY <1>6, <1>7 DEF BackupSame
  <2> QED BY <1>6, <1>8, <2>1, SameSeal, SameCopy DEF CommandsInv, Busy
<1> QED BY <1>9, <1>10, <1>11, <1>12, <1>13 DEF CommandsInv, ArchiveInv

(* A step on the file of the request: every other file stays. *)
LEMMA OthersStay ==
  ASSUME CommandsInv, NEW s \in RowType, Busy, server.row = s, s.name < nextName,
         files' \subseteq FileType, \A f \in files : f.name # s.name => f \in files',
         \A f, g \in files' : f.name = g.name => f = g, \A f \in files' : f.name < nextName,
         UNCHANGED <<rows, nextName, lastUid, gone, import>>, Busy' => server'.row = s
  PROVE  NamesInv' /\ UidInv' /\ ImportedOnce' /\ JobsInv'
<1>1. NamesInv' /\ UidInv' /\ ImportedOnce'
  BY DEF CommandsInv, ArchiveInv, NamesInv, UidInv, ImportedOnce
<1>2. ASSUME NEW k \in Imports, NEW text \in Texts, Written(k, text) PROVE Written(k, text)'
  <2>1. PICK f : f = [name |-> nextName - 1, dir |-> Target[k], text |-> text]
    OBVIOUS
  <2>2. f \in files /\ f.name = nextName - 1 /\ s.name # nextName - 1
    BY <1>2, <2>1 DEF Written
  <2>3. f \in files'
    BY <2>2
  <2> QED BY <1>2, <2>1, <2>3 DEF Written
<1>3. /\ \A id \in Ids : Archived(id)' => Archived(id)
      /\ \A text \in Texts : Known(text) => Known(text)'
      /\ \A k \in Imports, uid \in Nat : Free(k, uid) => Free(k, uid)'
  BY DEF Archived, Known, Free
<1>4. JobsInv'
  BY <1>2, <1>3, SameJobs
<1> QED BY <1>1, <1>4

LEMMA RemoveKeeps ==
  ASSUME CommandsInv, RemoveFile
  PROVE  CommandsInv'
<1>1. PICK s : s = server.row
  OBVIOUS
<1>2. server.pc = "file" /\ Busy
  BY DEF RemoveFile, Busy
<1>3. s \in RowType /\ s.name < nextName /\ \A r \in rows : r.name = s.name => ~r.local
  BY <1>1, <1>2 DEF CommandsInv, ArchiveInv, RequestInv
<1>4. files' = files \ FileOf(s) /\ UNCHANGED <<rows, events, gone, dest>> /\ ServerStep
  BY <1>1 DEF RemoveFile
<1>5. \A f \in FileOf(s) : f.name = s.name
  BY DEF FileOf
<1>6. UNCHANGED <<account, lastUid, nextName, index, import, store, changing, backup>>
  BY <1>4 DEF ServerStep, keyVars
<1>7. server' \in RequestType /\ server'.pc = "idle"
  BY IdleServerIs DEF RemoveFile
<1>8. files' \subseteq files /\ \A f \in files : f.name # s.name => f \in files'
  BY <1>4, <1>5
<1>9. Typed' /\ IndexInv'
  BY <1>4, <1>7, <1>8, Facts, SameTypes
<1>10. NamesInv' /\ UidInv' /\ ImportedOnce' /\ JobsInv'
  <2>1. /\ \A f, g \in files' : f.name = g.name => f = g
        /\ \A f \in files' : f.name < nextName
    BY <1>8 DEF CommandsInv, ArchiveInv, NamesInv
  <2>2. files' \subseteq FileType /\ ~Busy'
    BY <1>7, <1>8, Facts DEF Busy
  <2> QED BY <1>1, <1>2, <1>3, <1>4, <1>6, <1>8, <2>1, <2>2, OthersStay
<1>11. RequestInv'
  BY <1>7 DEF RequestInv, Busy
<1>12. FileInv'
  <2>1. ASSUME NEW r \in rows', r.local PROVE \E f \in files' : Holds(f, r)' /\ f.dir = Place(r)'
    <3>1. Place(r)' = r.dir /\ Place(r) = r.dir
      BY <1>2, <1>7 DEF Place
    <3>2. PICK f \in files : Holds(f, r) /\ f.dir = Place(r)
      BY <1>4, <2>1 DEF CommandsInv, ArchiveInv, FileInv
    <3>3. f.name # s.name
      BY <1>3, <1>4, <2>1, <3>2 DEF Holds
    <3> QED BY <1>8, <3>1, <3>2, <3>3 DEF Holds
  <2> QED BY <2>1 DEF FileInv
<1>13. KeyInv' /\ SealInv' /\ CopyInv'
  <2>1. BackupSame
    BY <1>4, <1>6 DEF BackupSame
  <2> QED BY <1>1, <1>2, <1>7, <1>8, <2>1, SameSeal, SameCopy DEF CommandsInv, Busy
<1> QED BY <1>9, <1>10, <1>11, <1>12, <1>13 DEF CommandsInv, ArchiveInv

LEMMA RenameKeeps ==
  ASSUME CommandsInv, RenameFile
  PROVE  CommandsInv'
<1>1. PICK s, to : s = server.row /\ to = server.to
  OBVIOUS
<1>2. server.pc = "first" /\ server.kind = "move" /\ Busy
  BY DEF RenameFile, ServerAt, Busy
<1>3. s \in rows /\ s \in RowType /\ s.name < nextName /\ s.local /\ to \in Dirs
  BY <1>1, <1>2, Facts DEF CommandsInv, ArchiveInv, RequestInv
<1>4. PICK moved : moved = {[f EXCEPT !.dir = to] : f \in FileOf(s)}
  OBVIOUS
<1>5. files' = (files \ FileOf(s)) \cup moved /\ UNCHANGED <<rows, events, gone, dest>> /\ ServerStep
  BY <1>1, <1>4 DEF RenameFile
<1>6. FileOf(s) \subseteq files /\ \A f \in FileOf(s) : f.name = s.name
  BY DEF FileOf
<1>7. ASSUME NEW f \in FileOf(s)
      PROVE  /\ [f EXCEPT !.dir = to] \in FileType /\ [f EXCEPT !.dir = to].name = s.name
             /\ [f EXCEPT !.dir = to].dir = to /\ [f EXCEPT !.dir = to].text = f.text
  BY <1>3, <1>6, Facts DEF FileType
<1>8. UNCHANGED <<account, lastUid, nextName, index, import, store, changing, backup>>
  BY <1>5 DEF ServerStep, keyVars
<1>9. server' \in RequestType /\ server'.pc = "row" /\ server'.row = s /\ server'.to = to
  BY <1>1, Facts DEF RenameFile, RequestType
<1>10. moved \subseteq FileType /\ \A g \in moved : g.name = s.name
  BY <1>4, <1>7
<1>11. files' \subseteq FileType /\ \A f \in files : f.name # s.name => f \in files'
  BY <1>5, <1>6, <1>10, Facts
<1>12. \A f, g \in FileOf(s) : f = g
  BY <1>6 DEF CommandsInv, ArchiveInv, NamesInv
<1>13. \A f, g \in moved : f = g
  BY <1>4, <1>12
<1>14. /\ \A f, g \in files' : f.name = g.name => f = g
       /\ \A f \in files' : f.name < nextName
  <2>1. ASSUME NEW f \in files \ FileOf(s), f.name = s.name, NEW g \in moved PROVE FALSE
    <3>1. PICK h \in FileOf(s) : TRUE
      BY <1>4, <2>1
    <3>2. h = f
      BY <1>6, <2>1 DEF CommandsInv, ArchiveInv, NamesInv
    <3> QED BY <2>1, <3>2
  <2>2. \A f, g \in files' : f.name = g.name => f = g
    BY <1>5, <1>10, <1>13, <2>1 DEF CommandsInv, ArchiveInv, NamesInv
  <2>3. \A f \in files' : f.name < nextName
    BY <1>3, <1>5, <1>10 DEF CommandsInv, ArchiveInv, NamesInv
  <2> QED BY <2>2, <2>3
<1>15. Typed' /\ IndexInv'
  BY <1>5, <1>9, <1>11, Facts, SameTypes
<1>16. NamesInv' /\ UidInv' /\ ImportedOnce' /\ JobsInv'
  BY <1>1, <1>2, <1>3, <1>5, <1>8, <1>9, <1>11, <1>14, OthersStay
<1>17. RequestInv'
  BY <1>3, <1>5, <1>8, <1>9 DEF RequestInv, Busy
<1>18. FileInv'
  <2>1. ASSUME NEW r \in rows', r.local PROVE \E f \in files' : Holds(f, r)' /\ f.dir = Place(r)'
    <3>1. PICK f \in files : Holds(f, r) /\ f.dir = r.dir
      BY <1>2, <1>5, <2>1 DEF CommandsInv, ArchiveInv, FileInv, Place
    <3>2. CASE r = s
      <4>1. f \in FileOf(s)
        BY <3>1, <3>2 DEF FileOf, Holds
      <4>2. PICK g : g = [f EXCEPT !.dir = to]
        OBVIOUS
      <4>3. g \in files' /\ g.name = s.name /\ g.dir = to /\ g.text = f.text
        BY <1>4, <1>5, <1>7, <4>1, <4>2
      <4>4. Holds(g, r)'
        BY <3>1, <3>2, <4>3 DEF Holds
      <4>5. Place(r)' = to
        BY <1>9, <3>2 DEF Place
      <4> QED BY <4>3, <4>4, <4>5
    <3>3. CASE r # s
      <4>1. f.name # s.name
        BY <1>3, <1>5, <3>1, <3>3 DEF CommandsInv, ArchiveInv, NamesInv, Holds
      <4>2. Place(r)' = r.dir
        BY <1>9, <3>3 DEF Place
      <4> QED BY <1>11, <3>1, <4>1, <4>2 DEF Holds
    <3> QED BY <3>2, <3>3
  <2> QED BY <2>1 DEF FileInv
<1>19. KeyInv' /\ SealInv' /\ CopyInv'
  <2>1. BackupSame
    BY <1>5, <1>8 DEF BackupSame
  <2> QED BY <1>1, <1>2, <1>9, <1>11, <2>1, SameSeal, SameCopy DEF CommandsInv
<1> QED BY <1>15, <1>16, <1>17, <1>18, <1>19 DEF CommandsInv, ArchiveInv

LEMMA AddKeeps ==
  ASSUME CommandsInv, AddAccount
  PROVE  CommandsInv'
<1>1. ArchiveSame /\ BackupSame /\ UNCHANGED <<index, import, events>> /\ account' = "imap"
  BY DEF AddAccount, ArchiveSame, BackupSame, serverVars, keyVars, backupVars
<1>2. Typed' /\ IndexInv'
  BY <1>1 DEF CommandsInv, Typed, ArchiveTyped, ImportTyped, BackupTyped, IndexInv, ArchiveSame, BackupSame
<1>3. JobsInv'
  <2>1. /\ \A id \in Ids : Archived(id)' => Archived(id)
        /\ \A text \in Texts : Known(text) => Known(text)'
        /\ \A k \in Imports, text \in Texts : Written(k, text) => Written(k, text)'
        /\ \A k \in Imports, uid \in Nat : Free(k, uid) => Free(k, uid)'
    BY <1>1 DEF ArchiveSame, Archived, Known, Written, Free, Busy
  <2> QED BY <1>1, <2>1, SameJobs
<1>4. ArchiveInv' /\ KeyInv' /\ SealInv'
  BY <1>1, SameArchive, SameSeal DEF CommandsInv
<1>5. CopyInv'
  BY <1>1, SameCopy DEF CommandsInv, ArchiveSame, Busy
<1> QED BY <1>2, <1>3, <1>4, <1>5 DEF CommandsInv

(* A step that leaves the imports, the archive and the server alone. *)
LEMMA Beside ==
  ASSUME CommandsInv, ArchiveSame, UNCHANGED <<account, index, import>>, events' \in Nat, BackupTyped'
  PROVE  Typed' /\ IndexInv' /\ ArchiveInv' /\ JobsInv'
<1>1. Typed' /\ IndexInv'
  BY DEF CommandsInv, Typed, ArchiveTyped, ImportTyped, IndexInv, ArchiveSame
<1>2. JobsInv'
  <2>1. /\ \A id \in Ids : Archived(id)' => Archived(id)
        /\ \A text \in Texts : Known(text) => Known(text)'
        /\ \A k \in Imports, text \in Texts : Written(k, text) => Written(k, text)'
        /\ \A k \in Imports, uid \in Nat : Free(k, uid) => Free(k, uid)'
    BY DEF ArchiveSame, Archived, Known, Written, Free, Busy
  <2> QED BY <2>1, SameJobs
<1> QED BY <1>1, <1>2, SameArchive DEF CommandsInv

LEMMA KeyOrder ==
  /\ Reverse(KeyFiles)[1] = "dek" /\ Reverse(KeyFiles)[2] = "verify" /\ Reverse(KeyFiles)[3] = "salt"
  /\ KeyFiles[1] = "salt" /\ KeyFiles[2] = "verify" /\ KeyFiles[3] = "dek" /\ Len(KeyFiles) = 3
  BY DEF KeyFiles, Reverse

LEMMA KeyKeeps ==
  ASSUME CommandsInv, ReplaceKey
  PROVE  CommandsInv'
<1>1. PICK k : k = Reverse(KeyFiles)[changing + 1]
  OBVIOUS
<1>2. store \in [KeyNames -> Nat] /\ changing \in {0, 1, 2} /\ dest \in DestType /\ events \in Nat
  BY DEF CommandsInv, Typed, ImportTyped, BackupTyped
<1>3. /\ changing = 0 => k = "dek"
      /\ changing = 1 => k = "verify"
      /\ changing = 2 => k = "salt"
  BY <1>1, KeyOrder
<1>4. k \in KeyNames
  BY <1>2, <1>3 DEF KeyNames
<1>5. PICK v \in Nat : v = store[k] + 1
  BY <1>2, <1>4
<1>6. store' = [store EXCEPT ![k] = v]
  BY <1>1, <1>5 DEF ReplaceKey
<1>7. /\ changing = 0 => changing' = 1
      /\ changing = 1 => changing' = 2
      /\ changing = 2 => changing' = 0
  BY KeyOrder DEF ReplaceKey
<1>8. PICK m \in BOOLEAN : m = (dest.mixed \/ backup.pc = "keys")
  OBVIOUS
<1>9. dest' = [dest EXCEPT !.mixed = m]
  BY <1>8 DEF ReplaceKey
<1>10. /\ dest' \in DestType /\ dest'.db = dest.db /\ dest'.tar = dest.tar /\ dest'.keys = dest.keys
       /\ dest'.manifest = dest.manifest /\ dest'.empty = dest.empty /\ dest'.touched = dest.touched
       /\ dest'.mixed = m
  BY <1>2, <1>9 DEF DestType
<1>11. UNCHANGED <<account, index, import, backup, events>> /\ ArchiveSame
  BY DEF ReplaceKey, archiveVars, serverVars, ArchiveSame
<1>12. BackupTyped'
  BY <1>2, <1>4, <1>6, <1>7, <1>10, <1>11 DEF CommandsInv, Typed, BackupTyped
<1>13. Typed' /\ IndexInv' /\ ArchiveInv' /\ JobsInv'
  BY <1>2, <1>11, <1>12, Beside
<1>14. KeyInv'
  <2>1. backup'.pc = "keys" => dest'.mixed
    BY <1>8, <1>10, <1>11
  <2>2. "dek" \in KeyNames /\ "verify" \in KeyNames /\ "salt" \in KeyNames
    BY DEF KeyNames
  <2>3. \A l \in KeyNames : store'[l] = IF l = k THEN store[l] + 1 ELSE store[l]
    BY <1>2, <1>4, <1>5, <1>6
  <2>4. CASE changing = 0
    BY <1>3, <1>7, <1>11, <2>1, <2>2, <2>3, <2>4 DEF CommandsInv, KeyInv
  <2>5. CASE changing = 1
    BY <1>2, <1>3, <1>7, <1>11, <2>1, <2>2, <2>3, <2>5 DEF CommandsInv, KeyInv
  <2>6. CASE changing = 2
    BY <1>2, <1>3, <1>7, <1>11, <2>1, <2>2, <2>3, <2>6 DEF CommandsInv, KeyInv
  <2> QED BY <1>2, <2>4, <2>5, <2>6
<1>15. CopyInv'
  <2>1. ASSUME NEW r \in dest.db, Copied(r) PROVE Copied(r)'
    BY <1>10, <1>11, <2>1 DEF Copied, Ahead, ArchiveSame
  <2>2. Copying' => \A r \in dest'.db : r.local /\ r.name \notin dest'.touched => Copied(r)'
    BY <1>10, <1>11, <2>1 DEF CommandsInv, CopyInv, Copying
  <2> QED BY <1>10, <1>11, <2>2 DEF CommandsInv, CopyInv, Copying, Busy, ArchiveSame
<1>16. SealInv'
  <2>1. dest.manifest # None => backup.pc = "idle" /\ m = dest.mixed
    BY <1>2, <1>8 DEF CommandsInv, SealInv, DestType
  <2> QED BY <1>10, <1>11, <2>1 DEF CommandsInv, SealInv, Restorable
<1> QED BY <1>13, <1>14, <1>15, <1>16 DEF CommandsInv

(* The backup. *)
LEMMA BackupFields ==
  ASSUME CommandsInv
  PROVE  /\ backup \in BackupType /\ dest \in DestType /\ changing \in {0, 1, 2}
         /\ store \in [KeyNames -> Nat] /\ events \in Nat /\ files \subseteq FileType
         /\ rows \subseteq RowType /\ server \in RequestType
         /\ backup.pc \in {"idle", "db", "dir", "tar", "keys"} /\ backup.dir \in Nat
         /\ backup.todo \subseteq FileType /\ backup.key \in Nat /\ dest.tar \subseteq FileType
         /\ dest.db \subseteq RowType /\ dest.keys \in [KeyNames -> Nat]
  BY DEF CommandsInv, Typed, ArchiveTyped, ImportTyped, BackupTyped, BackupType, DestType

LEMMA BackupFrame ==
  ASSUME CommandsInv, BackupStep, backup' \in BackupType, dest' \in DestType
  PROVE  /\ Typed' /\ IndexInv' /\ ArchiveInv' /\ JobsInv'
         /\ UNCHANGED <<rows, files, server, store, changing>>
<1>1. UNCHANGED <<account, index, import, events, store, changing>> /\ ArchiveSame
  BY DEF BackupStep, archiveVars, serverVars, keyVars, ArchiveSame
<1>2. BackupTyped'
  BY <1>1, BackupFields DEF BackupTyped
<1> QED BY <1>1, <1>2, BackupFields, Beside DEF ArchiveSame

LEMMA FreshIs ==
  /\ IdleBackup \in BackupType /\ IdleBackup.pc = "idle" /\ IdleBackup.dir = 1 /\ IdleBackup.todo = {}
  /\ IdleBackup.key = 1
  /\ Fresh \in DestType /\ Fresh.manifest = None
  /\ [Fresh EXCEPT !.empty = FALSE] \in DestType /\ [Fresh EXCEPT !.empty = FALSE].manifest = None
<1>1. /\ IdleBackup \in BackupType /\ IdleBackup.pc = "idle" /\ IdleBackup.dir = 1
      /\ IdleBackup.todo = {} /\ IdleBackup.key = 1
  BY DEF IdleBackup, BackupType
<1>2. NoKeys \in [KeyNames -> Nat]
  BY DEF NoKeys
<1>3. Fresh \in DestType /\ Fresh.manifest = None
  BY <1>2 DEF Fresh, DestType
<1>4. /\ [Fresh EXCEPT !.empty = FALSE] \in DestType
      /\ [Fresh EXCEPT !.empty = FALSE].manifest = None
  BY <1>3 DEF DestType
<1> QED BY <1>1, <1>3, <1>4

LEMMA StartBackupKeeps ==
  ASSUME CommandsInv, StartBackup \/ PickDestination
  PROVE  CommandsInv'
<1>1. BackupStep
  BY DEF StartBackup, PickDestination
<1>2. CASE StartBackup
  <2>1. /\ backup' \in BackupType /\ backup'.pc = "db" /\ backup'.dir = 1 /\ backup'.todo = {}
        /\ backup'.key = 1
    BY <1>2, FreshIs DEF StartBackup, BackupType
  <2>2. dest' = dest /\ dest.empty
    BY <1>2 DEF StartBackup
  <2>3. /\ Typed' /\ IndexInv' /\ ArchiveInv' /\ JobsInv'
        /\ UNCHANGED <<rows, files, server, store, changing>>
    BY <1>1, <2>1, <2>2, BackupFields, BackupFrame
  <2>4. KeyInv'
    BY <2>1, <2>3 DEF CommandsInv, KeyInv
  <2>5. CopyInv'
    BY <2>1 DEF CopyInv, Copying
  <2>6. SealInv'
    BY <2>1, <2>2 DEF CommandsInv, SealInv
  <2> QED BY <2>3, <2>4, <2>5, <2>6 DEF CommandsInv
<1>3. CASE PickDestination
  <2>1. backup' = backup /\ backup.pc = "idle" /\ dest' = Fresh
    BY <1>3 DEF PickDestination
  <2>2. /\ Typed' /\ IndexInv' /\ ArchiveInv' /\ JobsInv'
        /\ UNCHANGED <<rows, files, server, store, changing>>
    BY <1>1, <2>1, BackupFields, FreshIs, BackupFrame
  <2>3. KeyInv'
    BY <2>1, <2>2 DEF CommandsInv, KeyInv
  <2>4. CopyInv'
    BY <2>1 DEF CopyInv, Copying
  <2>5. SealInv'
    BY <2>1, FreshIs DEF SealInv
  <2> QED BY <2>2, <2>3, <2>4, <2>5 DEF CommandsInv
<1> QED BY <1>2, <1>3

LEMMA AbortKeeps ==
  ASSUME CommandsInv, TarFails \/ BackupFails
  PROVE  CommandsInv'
<1>1. BackupStep /\ backup' = IdleBackup /\ dest' = [Fresh EXCEPT !.empty = FALSE]
  BY DEF TarFails, BackupFails, AbortBackup
<1>2. /\ Typed' /\ IndexInv' /\ ArchiveInv' /\ JobsInv'
      /\ UNCHANGED <<rows, files, server, store, changing>>
  BY <1>1, FreshIs, BackupFrame
<1>3. KeyInv'
  BY <1>1, <1>2, FreshIs DEF CommandsInv, KeyInv
<1>4. CopyInv'
  BY <1>1, FreshIs DEF CopyInv, Copying
<1>5. SealInv'
  BY <1>1, FreshIs DEF SealInv
<1> QED BY <1>2, <1>3, <1>4, <1>5 DEF CommandsInv

LEMMA DatabaseKeeps ==
  ASSUME CommandsInv, BackupDatabase
  PROVE  CommandsInv'
<1>1. BackupStep /\ backup.pc = "db" /\ backup.dir = 1 /\ backup.todo = {} /\ backup.key = 1
  BY DEF BackupDatabase, CommandsInv, CopyInv, KeyInv
<1>2. PICK busy : busy = IF server.pc = "idle" THEN {} ELSE {server.row.name}
  OBVIOUS
<1>3. busy \subseteq Nat /\ (Busy => server.row.name \in busy)
  BY <1>2, RowFields DEF CommandsInv, ArchiveInv, RequestInv, Busy
<1>4. /\ dest' \in DestType /\ dest'.db = rows /\ dest'.tar = dest.tar /\ dest'.manifest = dest.manifest
      /\ dest'.touched = busy /\ ~dest'.empty
  BY <1>2, <1>3, BackupFields DEF BackupDatabase, DestType
<1>5. /\ backup' \in BackupType /\ backup'.pc = "dir" /\ backup'.dir = 1 /\ backup'.todo = {}
      /\ backup'.key = 1
  BY <1>1, BackupFields DEF BackupDatabase, BackupType
<1>6. /\ Typed' /\ IndexInv' /\ ArchiveInv' /\ JobsInv'
      /\ UNCHANGED <<rows, files, server, store, changing>>
  BY <1>1, <1>4, <1>5, BackupFrame
<1>7. KeyInv'
  BY <1>5, <1>6 DEF CommandsInv, KeyInv
<1>8. CopyInv'
  <2>1. ASSUME NEW r \in rows, r.local, r.name \notin busy PROVE Copied(r)'
    <3>1. Place(r) = r.dir
      BY <1>3, <2>1 DEF Place, Busy
    <3>2. PICK f \in files : Holds(f, r) /\ f.dir = r.dir
      BY <2>1, <3>1 DEF CommandsInv, ArchiveInv, FileInv
    <3>3. FileFor(f, r)
      BY <3>2 DEF Holds, FileFor
    <3>4. f.dir \in Dirs
      BY BackupFields, FileFields
    <3>5. PICK k \in DOMAIN Folders : Folders[k] = f.dir
      BY <3>4 DEF Dirs
    <3>6. k >= 1
      BY CommandsAssumption
    <3>7. Ahead(f)'
      BY <1>5, <3>5, <3>6 DEF Ahead
    <3> QED BY <1>6, <3>2, <3>3, <3>7 DEF Copied, FileFor
  <2> QED BY <1>3, <1>4, <1>5, <1>6, <2>1 DEF CopyInv, Copying, Busy
<1>9. SealInv'
  BY <1>1, <1>4 DEF CommandsInv, SealInv
<1> QED BY <1>6, <1>7, <1>8, <1>9 DEF CommandsInv

LEMMA ReadDirKeeps ==
  ASSUME CommandsInv, ReadDir
  PROVE  CommandsInv'
<1>1. BackupStep /\ backup.pc = "dir" /\ dest' = dest /\ backup.key = 1 /\ ~dest.empty
  BY DEF ReadDir, CommandsInv, KeyInv, CopyInv, Copying
<1>2. PICK found : found = {f \in files : f.dir = Folders[backup.dir]}
  OBVIOUS
<1>3. /\ backup' \in BackupType /\ backup'.pc = "tar" /\ backup'.dir = backup.dir /\ backup'.todo = found
      /\ backup'.key = backup.key
  BY <1>2, BackupFields DEF ReadDir, BackupType
<1>4. /\ Typed' /\ IndexInv' /\ ArchiveInv' /\ JobsInv'
      /\ UNCHANGED <<rows, files, server, store, changing>>
  BY <1>1, <1>3, BackupFields, BackupFrame
<1>5. KeyInv'
  BY <1>1, <1>3, <1>4 DEF CommandsInv, KeyInv
<1>6. CopyInv'
  <2>1. ASSUME NEW r \in dest.db, Copied(r) PROVE Copied(r)'
    <3>1. CASE \E f \in dest.tar : FileFor(f, r)
      BY <1>1, <3>1 DEF Copied, FileFor
    <3>2. CASE \E f \in files : FileFor(f, r) /\ Ahead(f)
      <4>1. PICK f \in files : FileFor(f, r) /\ Ahead(f)
        BY <3>2
      <4>2. PICK k \in DOMAIN Folders : Folders[k] = f.dir /\ k >= backup.dir
        BY <1>1, <4>1 DEF Ahead
      <4>3. k \in Nat
        BY CommandsAssumption
      <4>4. k = backup.dir \/ k > backup.dir
        BY <4>2, <4>3, BackupFields
      <4>5. Ahead(f)'
        BY <1>2, <1>3, <4>1, <4>2, <4>4 DEF Ahead
      <4> QED BY <1>4, <4>1, <4>5 DEF Copied, FileFor
    <3> QED BY <2>1, <3>1, <3>2 DEF Copied
  <2> QED BY <1>1, <1>3, <1>4, <2>1 DEF CommandsInv, CopyInv, Copying, Busy
<1>7. SealInv'
  BY <1>1, <1>3 DEF CommandsInv, SealInv
<1> QED BY <1>4, <1>5, <1>6, <1>7 DEF CommandsInv

LEMMA TarKeeps ==
  ASSUME CommandsInv, TarFile
  PROVE  CommandsInv'
<1>1. PICK f \in backup.todo \cap files :
          /\ dest' = [dest EXCEPT !.tar = dest.tar \cup {f}]
          /\ backup' = [backup EXCEPT !.todo = backup.todo \ {f}]
  BY DEF TarFile
<1>2. BackupStep /\ backup.pc = "tar" /\ backup.key = 1 /\ ~dest.empty
  BY DEF TarFile, CommandsInv, KeyInv, CopyInv, Copying
<1>3. /\ dest' \in DestType /\ dest'.db = dest.db /\ dest'.tar = dest.tar \cup {f}
      /\ dest'.keys = dest.keys /\ dest'.manifest = dest.manifest /\ dest'.empty = dest.empty
      /\ dest'.touched = dest.touched /\ dest'.mixed = dest.mixed
  BY <1>1, BackupFields DEF DestType
<1>4. /\ backup' \in BackupType /\ backup'.pc = "tar" /\ backup'.dir = backup.dir
      /\ backup'.todo = backup.todo \ {f} /\ backup'.key = backup.key
  BY <1>1, <1>2, BackupFields DEF BackupType
<1>5. /\ Typed' /\ IndexInv' /\ ArchiveInv' /\ JobsInv'
      /\ UNCHANGED <<rows, files, server, store, changing>>
  BY <1>2, <1>3, <1>4, BackupFrame
<1>6. KeyInv'
  BY <1>2, <1>4, <1>5 DEF CommandsInv, KeyInv
<1>7. CopyInv'
  <2>1. ASSUME NEW r \in dest.db, Copied(r) PROVE Copied(r)'
    <3>1. CASE \E g \in dest.tar : FileFor(g, r)
      BY <1>3, <3>1 DEF Copied, FileFor
    <3>2. CASE \E g \in files : FileFor(g, r) /\ Ahead(g)
      <4>1. PICK g \in files : FileFor(g, r) /\ Ahead(g)
        BY <3>2
      <4>2. g = f \/ Ahead(g)'
        BY <1>2, <1>4, <4>1 DEF Ahead
      <4>3. f \in dest'.tar
        BY <1>3
      <4> QED BY <1>5, <4>1, <4>2, <4>3 DEF Copied, FileFor
    <3> QED BY <2>1, <3>1, <3>2 DEF Copied
  <2> QED BY <1>2, <1>3, <1>4, <1>5, <2>1 DEF CommandsInv, CopyInv, Copying, Busy
<1>8. SealInv'
  BY <1>2, <1>3, <1>4 DEF CommandsInv, SealInv
<1> QED BY <1>5, <1>6, <1>7, <1>8 DEF CommandsInv

LEMMA TreeKeeps ==
  ASSUME CommandsInv, TreeDone
  PROVE  CommandsInv'
<1>1. BackupStep /\ backup.pc = "tar" /\ backup.todo = {} /\ backup.key = 1 /\ ~dest.empty
  BY DEF TreeDone, CommandsInv, KeyInv, CopyInv, Copying
<1>2. PICK d \in Nat \ {0} : d = backup.dir + 1
  BY BackupFields
<1>3. PICK pc : pc = IF backup.dir = Len(Folders) THEN "keys" ELSE "dir"
  OBVIOUS
<1>4. backup' = [backup EXCEPT !.dir = d, !.pc = pc]
  BY <1>2, <1>3 DEF TreeDone
<1>5. /\ backup' \in BackupType /\ backup'.pc = pc /\ backup'.dir = d /\ backup'.todo = {}
      /\ backup'.key = 1
  BY <1>1, <1>3, <1>4, BackupFields DEF BackupType
<1>6. PICK m \in BOOLEAN : m = (backup.dir = Len(Folders) /\ changing # 0)
  OBVIOUS
<1>7. dest' = [dest EXCEPT !.mixed = m]
  BY <1>6 DEF TreeDone
<1>8. /\ dest' \in DestType /\ dest'.db = dest.db /\ dest'.tar = dest.tar
      /\ dest'.keys = dest.keys /\ dest'.manifest = dest.manifest /\ dest'.empty = dest.empty
      /\ dest'.touched = dest.touched /\ dest'.mixed = m
  BY <1>7, BackupFields DEF DestType
<1>9. /\ Typed' /\ IndexInv' /\ ArchiveInv' /\ JobsInv'
      /\ UNCHANGED <<rows, files, server, store, changing>>
  BY <1>1, <1>5, <1>8, BackupFrame
<1>10. KeyInv'
  <2>1. backup'.pc = "keys" /\ ~dest'.mixed => changing = 0
    BY <1>3, <1>5, <1>6, <1>8
  <2> QED BY <1>5, <1>9, <2>1 DEF CommandsInv, KeyInv
<1>11. CopyInv'
  <2>1. ASSUME NEW r \in dest.db, Copied(r) PROVE Copied(r)'
    <3>1. CASE \E f \in dest.tar : FileFor(f, r)
      BY <1>8, <3>1 DEF Copied, FileFor
    <3>2. CASE \E f \in files : FileFor(f, r) /\ Ahead(f)
      <4>1. PICK f \in files : FileFor(f, r) /\ Ahead(f)
        BY <3>2
      <4>2. PICK k \in DOMAIN Folders : Folders[k] = f.dir /\ k > backup.dir
        BY <1>1, <4>1 DEF Ahead
      <4>3. k \in Nat /\ k <= Len(Folders) /\ Len(Folders) \in Nat
        BY CommandsAssumption
      <4>4. pc = "dir" /\ k >= d
        BY <1>2, <1>3, <4>2, <4>3, BackupFields
      <4>5. Ahead(f)'
        BY <1>5, <4>2, <4>4 DEF Ahead
      <4> QED BY <1>9, <4>1, <4>5 DEF Copied, FileFor
    <3> QED BY <2>1, <3>1, <3>2 DEF Copied
  <2>2. backup'.pc # "db"
    BY <1>3, <1>5
  <2> QED BY <1>1, <1>5, <1>8, <1>9, <2>1, <2>2 DEF CommandsInv, CopyInv, Copying, Busy
<1>12. SealInv'
  BY <1>1, <1>8 DEF CommandsInv, SealInv
<1> QED BY <1>9, <1>10, <1>11, <1>12 DEF CommandsInv

LEMMA CopyKeyKeeps ==
  ASSUME CommandsInv, CopyKey
  PROVE  CommandsInv'
<1>1. PICK k : k = KeyFiles[backup.key]
  OBVIOUS
<1>2. BackupStep /\ backup.pc = "keys" /\ backup.key <= 3 /\ backup.key \in Nat \ {0} /\ ~dest.empty
  BY KeyOrder, BackupFields DEF CopyKey, CommandsInv, CopyInv, Copying, BackupType
<1>3. /\ backup.key = 1 => k = "salt"
      /\ backup.key = 2 => k = "verify"
      /\ backup.key = 3 => k = "dek"
      /\ backup.key \in {1, 2, 3}
  BY <1>1, <1>2, KeyOrder
<1>4. k \in KeyNames
  BY <1>3 DEF KeyNames
<1>5. PICK keys : keys = [dest.keys EXCEPT ![k] = store[k]]
  OBVIOUS
<1>6. keys \in [KeyNames -> Nat] /\ keys[k] = store[k] /\ \A l \in KeyNames : l # k => keys[l] = dest.keys[l]
  BY <1>4, <1>5, BackupFields
<1>7. dest' = [dest EXCEPT !.keys = keys]
  BY <1>1, <1>5 DEF CopyKey
<1>8. /\ dest' \in DestType /\ dest'.db = dest.db /\ dest'.tar = dest.tar
      /\ dest'.keys = keys /\ dest'.manifest = dest.manifest /\ dest'.empty = dest.empty
      /\ dest'.touched = dest.touched /\ dest'.mixed = dest.mixed
  BY <1>6, <1>7, BackupFields DEF DestType
<1>9. PICK next \in Nat \ {0} : next = backup.key + 1
  BY BackupFields
<1>10. backup' = [backup EXCEPT !.key = next]
  BY <1>9 DEF CopyKey
<1>11. /\ backup' \in BackupType /\ backup'.pc = backup.pc /\ backup'.dir = backup.dir
       /\ backup'.todo = backup.todo /\ backup'.key = next
  BY <1>10, BackupFields DEF BackupType
<1>12. /\ Typed' /\ IndexInv' /\ ArchiveInv' /\ JobsInv'
       /\ UNCHANGED <<rows, files, server, store, changing>>
  BY <1>2, <1>8, <1>11, BackupFrame
<1>13. KeyInv'
  <2>1. "dek" \in KeyNames /\ "verify" \in KeyNames /\ "salt" \in KeyNames
    BY DEF KeyNames
  <2>2. ASSUME ~dest.mixed
        PROVE  /\ changing = 0
               /\ next > 1 => keys["salt"] = store["salt"]
               /\ next > 2 => keys["verify"] = store["verify"]
               /\ next > 3 => keys["dek"] = store["dek"]
    BY <1>2, <1>3, <1>6, <1>9, <2>1, <2>2 DEF CommandsInv, KeyInv
  <2> QED BY <1>2, <1>8, <1>11, <1>12, <2>2 DEF CommandsInv, KeyInv
<1>14. CopyInv'
  <2>1. ASSUME NEW r \in dest.db, Copied(r) PROVE Copied(r)'
    BY <1>8, <1>11, <1>12, <2>1 DEF Copied, Ahead, FileFor
  <2> QED BY <1>2, <1>8, <1>11, <1>12, <2>1 DEF CommandsInv, CopyInv, Copying, Busy
<1>15. SealInv'
  BY <1>2, <1>8, <1>11 DEF CommandsInv, SealInv
<1> QED BY <1>12, <1>13, <1>14, <1>15 DEF CommandsInv

LEMMA ManifestKeeps ==
  ASSUME CommandsInv, WriteManifest
  PROVE  CommandsInv'
<1>1. BackupStep /\ backup.pc = "keys" /\ backup.key > 3 /\ backup.key \in Nat /\ ~dest.empty
  BY KeyOrder, BackupFields DEF WriteManifest, CommandsInv, CopyInv, Copying
<1>2. PICK c : c = Content
  OBVIOUS
<1>3. c \in CopyType /\ c.db = dest.db /\ c.tar = dest.tar /\ c.keys = dest.keys
  BY <1>2, BackupFields DEF Content, CopyType
<1>4. /\ dest' \in DestType /\ dest'.db = dest.db /\ dest'.tar = dest.tar
      /\ dest'.keys = dest.keys /\ dest'.manifest = c /\ dest'.empty = dest.empty
      /\ dest'.touched = dest.touched /\ dest'.mixed = dest.mixed
  BY <1>2, <1>3, BackupFields DEF WriteManifest, DestType
<1>5. backup' \in BackupType /\ backup'.pc = "idle"
  BY FreshIs DEF WriteManifest
<1>6. /\ Typed' /\ IndexInv' /\ ArchiveInv' /\ JobsInv'
      /\ UNCHANGED <<rows, files, server, store, changing>>
  BY <1>1, <1>4, <1>5, BackupFrame
<1>7. KeyInv'
  BY <1>5, <1>6 DEF CommandsInv, KeyInv
<1>8. CopyInv'
  BY <1>5 DEF CopyInv, Copying
<1>9. Restorable(c)
  <2>1. ASSUME NEW r \in c.db, r.local, r.name \notin dest.touched PROVE \E f \in c.tar : FileFor(f, r)
    <3>1. Copied(r)
      BY <1>1, <1>3, <2>1 DEF CommandsInv, CopyInv, Copying
    <3>2. \A f \in files : ~Ahead(f)
      BY <1>1 DEF Ahead
    <3> QED BY <1>3, <3>1, <3>2 DEF Copied
  <2>2. ASSUME ~dest.mixed, NEW k \in KeyNames, NEW l \in KeyNames PROVE c.keys[k] = c.keys[l]
    <3>1. /\ store["dek"] = store["verify"] /\ store["verify"] = store["salt"]
          /\ c.keys["salt"] = store["salt"] /\ c.keys["verify"] = store["verify"]
          /\ c.keys["dek"] = store["dek"]
      BY <1>1, <1>3, <2>2 DEF CommandsInv, KeyInv
    <3> QED BY <3>1 DEF KeyNames
  <2> QED BY <2>1, <2>2 DEF Restorable
<1>10. SealInv'
  <2>1. Restorable(c)'
    BY <1>4, <1>9 DEF Restorable, FileFor
  <2> QED BY <1>1, <1>4, <1>5, <2>1 DEF SealInv, Restorable
<1> QED BY <1>6, <1>7, <1>8, <1>10 DEF CommandsInv

LEMMA DamageKeeps ==
  ASSUME CommandsInv, Damage
  PROVE  CommandsInv'
<1>1. PICK f \in dest.tar : dest' = [dest EXCEPT !.tar = dest.tar \ {f}]
  BY DEF Damage
<1>2. /\ dest' \in DestType /\ dest'.keys = dest.keys /\ dest'.manifest = dest.manifest
      /\ dest'.empty = dest.empty /\ dest'.touched = dest.touched /\ dest'.mixed = dest.mixed
  BY <1>1, BackupFields DEF DestType
<1>3. /\ ArchiveSame /\ UNCHANGED <<account, index, import, store, changing, backup>>
      /\ backup.pc = "idle" /\ events' \in Nat
  BY BackupFields DEF Damage, archiveVars, serverVars, keyVars, ArchiveSame, Event
<1>4. BackupTyped'
  BY <1>2, <1>3, BackupFields DEF BackupTyped
<1>5. Typed' /\ IndexInv' /\ ArchiveInv' /\ JobsInv'
  BY <1>3, <1>4, Beside
<1>6. KeyInv' /\ CopyInv'
  BY <1>3 DEF CommandsInv, KeyInv, CopyInv, Copying
<1>7. SealInv'
  BY <1>2, <1>3 DEF CommandsInv, SealInv, Restorable
<1> QED BY <1>5, <1>6, <1>7 DEF CommandsInv

------------------------------------------------------------------------------
LEMMA InitInv == Init => CommandsInv
<1> SUFFICES ASSUME Init PROVE CommandsInv
  OBVIOUS
<1>1. /\ IdleServer \in RequestType /\ IdleServer.pc = "idle"
      /\ IdleBackup \in BackupType /\ IdleBackup.pc = "idle"
      /\ Fresh \in DestType /\ Fresh.manifest = None
  BY IdleServerIs, FreshIs
<1>2. \A i \in Imports : import[i] = IdleImport /\ import[i] \in JobType
  BY IdleIs DEF Init
<1>3. /\ account = "none" /\ rows = {} /\ files = {} /\ nextName = 1 /\ index = None /\ gone = {}
      /\ server = IdleServer /\ changing = 0 /\ backup = IdleBackup /\ dest = Fresh /\ events = 0
      /\ lastUid \in [Dirs -> Nat] /\ import \in [Imports -> JobType]
      /\ store \in [KeyNames -> Nat]
  BY IdleIs DEF Init, NoKeys
<1>4. Typed
  BY <1>1, <1>3 DEF Typed, ArchiveTyped, ImportTyped, BackupTyped
<1>5. IndexInv
  BY <1>2, IdleIs DEF IndexInv, Archiving
<1>6. ArchiveInv
  BY <1>1, <1>3 DEF ArchiveInv, NamesInv, RequestInv, FileInv, UidInv, ImportedOnce, Busy
<1>7. JobsInv
  BY <1>2, IdleIs DEF JobsInv
<1>8. KeyInv
  <2>1. "dek" \in KeyNames /\ "verify" \in KeyNames /\ "salt" \in KeyNames
    BY DEF KeyNames
  <2>2. store["dek"] = store["verify"] /\ store["verify"] = store["salt"]
    BY <2>1 DEF Init, NoKeys
  <2> QED BY <1>1, <1>3, <2>2 DEF KeyInv
<1>9. CopyInv /\ SealInv
  BY <1>1, <1>3 DEF CopyInv, SealInv, Copying
<1> QED BY <1>4, <1>5, <1>6, <1>7, <1>8, <1>9 DEF CommandsInv

LEMMA ImportKeeps ==
  ASSUME CommandsInv, NEW i \in Imports,
         \/ Resolve(i) \/ CreateAccount(i) \/ UpsertFolder(i) \/ OpenIndex(i) \/ OpenIndexFails(i)
         \/ CheckDuplicate(i) \/ WriteFile(i) \/ InsertRow(i) \/ InsertConflict(i)
         \/ MessageFails(i) \/ FinishImport(i) \/ WalkFails(i) \/ RunAgain(i) \/ KillImport(i)
  PROVE  CommandsInv'
<1>1. CASE Resolve(i) \/ CreateAccount(i)
  BY <1>1, QuietResolve, QuietKeeps
<1>2. CASE UpsertFolder(i)
  BY <1>2, QuietUpsert, QuietKeeps
<1>3. CASE OpenIndex(i)
  BY <1>3, QuietOpen, QuietKeeps
<1>4. CASE OpenIndexFails(i) \/ WalkFails(i) \/ RunAgain(i) \/ KillImport(i)
  BY <1>4, QuietStops, QuietKeeps
<1>5. CASE CheckDuplicate(i)
  BY <1>5, QuietCheck, QuietKeeps
<1>6. CASE WriteFile(i)
  BY <1>6, WriteKeeps
<1>7. CASE InsertRow(i)
  BY <1>7, InsertKeeps
<1>8. CASE InsertConflict(i) \/ MessageFails(i)
  BY <1>8, QuietFails, QuietKeeps
<1>9. CASE FinishImport(i)
  BY <1>9, QuietFinish, QuietKeeps
<1> QED BY <1>1, <1>2, <1>3, <1>4, <1>5, <1>6, <1>7, <1>8, <1>9

LEMMA ServerKeeps ==
  ASSUME CommandsInv, ServerNext
  PROVE  CommandsInv'
<1>1. CASE AddAccount
  BY <1>1, AddKeeps
<1>2. ASSUME NEW r \in rows, NEW kind \in {"delete", "evict"}, StartRequest(kind, r, None)
      PROVE  CommandsInv'
  <2>1. kind \in {"delete", "evict", "move"} /\ kind # "move"
    OBVIOUS
  <2> QED BY <1>2, <2>1, StartKeeps
<1>3. ASSUME NEW r \in rows, NEW to \in Dirs \ {r.dir}, StartRequest("move", r, to)
      PROVE  CommandsInv'
  BY <1>3, StartKeeps
<1>4. CASE DeleteRow
  BY <1>4, DeleteKeeps
<1>5. CASE EvictRow
  BY <1>5, EvictKeeps
<1>6. CASE RemoveFile
  BY <1>6, RemoveKeeps
<1>7. CASE RenameFile
  BY <1>7, RenameKeeps
<1>8. CASE AssignFolder
  BY <1>8, AssignKeeps
<1>9. CASE ReplaceKey
  BY <1>9, KeyKeeps
<1> QED BY <1>1, <1>2, <1>3, <1>4, <1>5, <1>6, <1>7, <1>8, <1>9 DEF ServerNext

LEMMA BackupKeeps ==
  ASSUME CommandsInv, BackupNext
  PROVE  CommandsInv'
  BY StartBackupKeeps, DatabaseKeeps, ReadDirKeeps, TarKeeps, TreeKeeps, AbortKeeps, CopyKeyKeeps,
     ManifestKeeps, DamageKeeps DEF BackupNext

LEMMA StutterKeeps ==
  ASSUME CommandsInv, UNCHANGED vars
  PROVE  CommandsInv'
<1>1. /\ ArchiveSame /\ BackupSame /\ UNCHANGED <<account, index, import, events>>
  BY DEF vars, archiveVars, serverVars, keyVars, backupVars, ArchiveSame, BackupSame
<1>2. BackupTyped' /\ events' \in Nat
  BY <1>1 DEF CommandsInv, Typed, ImportTyped, BackupTyped, BackupSame
<1>3. Typed' /\ IndexInv' /\ ArchiveInv' /\ JobsInv'
  BY <1>1, <1>2, Beside
<1>4. KeyInv' /\ SealInv'
  BY <1>1, SameSeal DEF CommandsInv
<1>5. CopyInv'
  BY <1>1, SameCopy DEF CommandsInv, ArchiveSame, Busy
<1> QED BY <1>3, <1>4, <1>5 DEF CommandsInv

(* The inductive invariant of the commands beside the server. *)
THEOREM CommandsInvariant == Spec => []CommandsInv
<1>1. CommandsInv /\ [Next]_vars => CommandsInv'
  <2> SUFFICES ASSUME CommandsInv, [Next]_vars PROVE CommandsInv'
    OBVIOUS
  <2>1. CASE ImportNext
    BY <2>1, ImportKeeps DEF ImportNext
  <2>2. CASE ServerNext
    BY <2>2, ServerKeeps
  <2>3. CASE BackupNext
    BY <2>3, BackupKeeps
  <2>4. CASE UNCHANGED vars
    BY <2>4, StutterKeeps
  <2> QED BY <2>1, <2>2, <2>3, <2>4 DEF Next
<1> QED BY InitInv, <1>1, PTL DEF Spec

(* marchi import (cmd_import.go newImportCmd): a Message-ID is archived     *)
(* once, a report of no failure is true, and what was exported and imported *)
(* again is the exported message in the file its row names.                *)
THEOREM ImportsAreFaithful == Spec => []ImportFaithful
<1>1. CommandsInv => ImportFaithful
  <2> SUFFICES ASSUME CommandsInv PROVE ImportFaithful
    OBVIOUS
  <2>1. ImportedOnce
    BY DEF CommandsInv, ArchiveInv
  <2>2. ReportTrue
    <3>1. ASSUME NEW i \in Imports, ImportAt(i, "done"), import[i].failed = {}, NEW t \in Wanted[i]
          PROVE  MessageId(t) \in {r.id : r \in rows} \cup gone
      <4>1. PICK k \in DOMAIN Walked[i] : Walked[i][k] = t
        <5>1. ~Walk[i].failed
          BY <3>1, JobOf DEF CommandsInv, JobInv, ImportAt
        <5> QED BY <3>1, <5>1, WalkFaithful, WalkedIs
      <4>2. Known(Walked[i][k])
        BY <3>1, JobOf DEF CommandsInv, JobInv, ImportAt
      <4> QED BY <4>1, <4>2 DEF Known
    <3>2. ASSUME NEW i \in Imports, import[i].failed # {} PROVE import[i].excused
      BY <3>2, JobOf DEF CommandsInv, JobInv
    <3> QED BY <3>1, <3>2 DEF ReportTrue
  <2>3. ContentKept
    <3>1. ASSUME NEW r \in rows, r.local, r # server.row
          PROVE  \E f \in FileOf(r) : MessageId(f.text) = r.id /\ \E i \in Imports : f.text \in Wanted[i]
      <4>1. PICK f \in files : Holds(f, r) /\ f.dir = r.dir
        BY <3>1 DEF CommandsInv, ArchiveInv, FileInv, Place
      <4> QED BY <4>1 DEF Holds, Imported, FileOf
    <3> QED BY <3>1 DEF ContentKept
  <2> QED BY <2>1, <2>2, <2>3 DEF ImportFaithful
<1> QED BY <1>1, CommandsInvariant, PTL

(* marchi backup (backup.go Run, verify.go Verify): a backup that verifies *)
(* has the file of every local email of its database and the keys of one   *)
(* password, but for what requests and a password change touched meanwhile. *)
THEOREM BackupsRestore == Spec => []BackupRestorable
<1>1. CommandsInv => BackupRestorable
  <2> SUFFICES ASSUME CommandsInv, Verify PROVE BackupRestorable
    BY DEF BackupRestorable
  <2>1. PICK c : c = Content
    OBVIOUS
  <2>2. c \in CopyType /\ c.db = dest.db /\ c.tar = dest.tar /\ c.keys = dest.keys
    BY <2>1, BackupFields DEF Content, CopyType
  <2>3. dest.manifest = c /\ c # None
    BY <2>1, <2>2, CommandsAssumption DEF Verify
  <2>4. Restorable(c)
    BY <2>3 DEF CommandsInv, SealInv, Restorable
  <2>5. DOMAIN dest.keys = KeyNames
    BY BackupFields
  <2> QED BY <2>2, <2>4, <2>5 DEF BackupRestorable, Restorable, FileFor
<1> QED BY <1>1, CommandsInvariant, PTL

------------------------------------------------------------------------------
(* The cache's list: its bytes, and what its operations do to them.        *)
IsBytesFold(list, g) ==
    g = [s \in SUBSET DOMAIN list |->
            IF s = {} THEN 0 ELSE g[s \ {Max(s)}] + Size[list[Max(s)]]]

Sums(list, h) ==
    /\ h[0] = 0 /\ Bytes(list) = h[Len(list)]
    /\ \A k \in 0 .. Len(list) : h[k] \in Nat
    /\ \A k \in 1 .. Len(list) : h[k] = h[k - 1] + Size[list[k]]

LEMMA BytesFold ==
  ASSUME NEW list \in Seq(Emails)
  PROVE  \E h : Sums(list, h)
<1>1. PICK n \in Nat : n = Len(list) /\ DOMAIN list = 1 .. n /\ \A k \in 1 .. n : list[k] \in Emails
  OBVIOUS
<1>2. \A k \in 1 .. n : Size[list[k]] \in Nat
  BY <1>1, RestoreAssumption
<1>3. PICK F : F = [p \in (1 .. n) \X Nat |-> p[2] + Size[list[p[1]]]]
  OBVIOUS
<1>4. \A k \in 1 .. n, a \in Nat : F[<<k, a>>] = a + Size[list[k]]
  BY <1>3
<1>5. F \in [(1 .. n) \X Nat -> Nat]
  <2>1. \A p \in (1 .. n) \X Nat : p[2] + Size[list[p[1]]] \in Nat
    BY <1>2
  <2> QED BY <1>3, <2>1
<1>6. PICK g \in [SUBSET (1 .. n) -> Nat] : IsFold(g, n, 0, F)
  BY <1>5, FoldExists DEF HasFold
<1>7. ASSUME NEW s \in SUBSET (1 .. n)
      PROVE  g[s] = IF s = {} THEN 0 ELSE g[s \ {Max(s)}] + Size[list[Max(s)]]
  <2>1. s # {} => Max(s) \in 1 .. n /\ s \ {Max(s)} \in SUBSET (1 .. n)
    BY MaxIn
  <2>2. s # {} => g[s] = F[<<Max(s), g[s \ {Max(s)}]>>]
    BY <1>6 DEF IsFold
  <2>3. s = {} => g[s] = 0
    BY <1>6 DEF IsFold
  <2> QED BY <1>4, <1>6, <2>1, <2>2, <2>3
<1>8. IsBytesFold(list, g)
  BY <1>1, <1>6, <1>7 DEF IsBytesFold
<1>9. PICK f : f = CHOOSE x : IsBytesFold(list, x)
  OBVIOUS
<1>10. IsBytesFold(list, f)
  BY <1>8, <1>9
<1>11. Bytes(list) = f[DOMAIN list]
  BY <1>9 DEF Bytes, FoldLeft, MapThenFoldSet, Max, IsBytesFold
<1>12. \A s \in SUBSET (1 .. n) :
          f[s] = IF s = {} THEN 0 ELSE f[s \ {Max(s)}] + Size[list[Max(s)]]
  BY <1>1, <1>10 DEF IsBytesFold
<1>13. PICK h : h = [k \in 0 .. n |-> f[1 .. k]]
  OBVIOUS
<1>14. h[0] = 0
  <2>1. 0 \in 0 .. n /\ 1 .. 0 = {} /\ {} \in SUBSET (1 .. n)
    OBVIOUS
  <2>2. f[{}] = 0
    BY <1>12, <2>1
  <2> QED BY <1>13, <2>1, <2>2
<1>15. ASSUME NEW k \in 1 .. n PROVE h[k] = h[k - 1] + Size[list[k]]
  <2>1. 1 .. k \in SUBSET (1 .. n) /\ k \in 0 .. n /\ k - 1 \in 0 .. n
    OBVIOUS
  <2>2. f[1 .. k] = f[1 .. k - 1] + Size[list[k]]
    <3>1. k \in Nat /\ k # 0
      OBVIOUS
    <3>2. Max(1 .. k) = k /\ (1 .. k) \ {k} = 1 .. k - 1 /\ 1 .. k # {}
      BY <3>1, MaxRange
    <3> QED BY <1>12, <2>1, <3>2
  <2> QED BY <1>13, <2>1, <2>2
<1>16. Bytes(list) = h[n]
  BY <1>1, <1>11, <1>13
<1>17. \A k \in 0 .. n : h[k] \in Nat
  <2> DEFINE T == {k \in Nat : k <= n => h[k] \in Nat}
  <2>1. 0 \in T
    BY <1>14
  <2>2. \A k \in Nat : k \in T => k + 1 \in T
    <3>1. ASSUME NEW k \in Nat, k <= n => h[k] \in Nat, k + 1 <= n PROVE h[k + 1] \in Nat
      <4>1. k + 1 \in 1 .. n /\ (k + 1) - 1 = k /\ k <= n
        BY <3>1
      <4> QED BY <1>2, <1>15, <3>1, <4>1
    <3> QED BY <3>1
  <2>3. Nat \subseteq T
    <3> HIDE DEF T
    <3> QED BY <2>1, <2>2, Induction
  <2> QED BY <2>3
<1> QED BY <1>1, <1>14, <1>15, <1>16, <1>17 DEF Sums

LEMMA BytesJoin ==
  ASSUME NEW a \in Seq(Emails), NEW b \in Seq(Emails)
  PROVE  /\ Bytes(a \o b) = Bytes(a) + Bytes(b)
         /\ Bytes(a) \in Nat /\ Bytes(b) \in Nat
<1>1. PICK m \in Nat, n \in Nat : m = Len(a) /\ n = Len(b)
  OBVIOUS
<1>2. PICK c : c = a \o b
  OBVIOUS
<1>3. /\ c \in Seq(Emails) /\ Len(c) = m + n
      /\ \A k \in 1 .. m : c[k] = a[k]
      /\ \A k \in 1 .. n : c[m + k] = b[k]
  BY <1>1, <1>2
<1>4. PICK f, g, h : Sums(a, f) /\ Sums(b, g) /\ Sums(c, h)
  BY <1>3, BytesFold
<1>5. /\ f[0] = 0 /\ Bytes(a) = f[m] /\ \A k \in 0 .. m : f[k] \in Nat
      /\ \A k \in 1 .. m : f[k] = f[k - 1] + Size[a[k]]
  BY <1>1, <1>4 DEF Sums
<1>6. /\ g[0] = 0 /\ Bytes(b) = g[n] /\ \A k \in 0 .. n : g[k] \in Nat
      /\ \A k \in 1 .. n : g[k] = g[k - 1] + Size[b[k]]
  BY <1>1, <1>4 DEF Sums
<1>7. /\ h[0] = 0 /\ Bytes(c) = h[m + n]
      /\ \A k \in 1 .. m + n : h[k] = h[k - 1] + Size[c[k]]
  BY <1>3, <1>4 DEF Sums
<1>8. \A k \in 0 .. m : h[k] = f[k]
  <2> DEFINE T == {k \in Nat : k <= m => h[k] = f[k]}
  <2>1. 0 \in T
    BY <1>5, <1>7
  <2>2. \A k \in Nat : k \in T => k + 1 \in T
    <3>1. ASSUME NEW k \in Nat, k <= m => h[k] = f[k], k + 1 <= m PROVE h[k + 1] = f[k + 1]
      <4>1. k + 1 \in 1 .. m /\ k + 1 \in 1 .. m + n /\ (k + 1) - 1 = k /\ k <= m
        BY <3>1
      <4>2. h[k + 1] = h[k] + Size[c[k + 1]] /\ f[k + 1] = f[k] + Size[a[k + 1]]
        BY <1>5, <1>7, <4>1
      <4> QED BY <1>3, <3>1, <4>1, <4>2
    <3> QED BY <3>1
  <2>3. Nat \subseteq T
    <3> HIDE DEF T
    <3> QED BY <2>1, <2>2, Induction
  <2> QED BY <2>3
<1>9. \A k \in 0 .. n : h[m + k] = f[m] + g[k]
  <2> DEFINE T == {k \in Nat : k <= n => h[m + k] = f[m] + g[k]}
  <2>1. 0 \in T
    BY <1>5, <1>6, <1>8
  <2>2. \A k \in Nat : k \in T => k + 1 \in T
    <3>1. ASSUME NEW k \in Nat, k <= n => h[m + k] = f[m] + g[k], k + 1 <= n
          PROVE  h[m + (k + 1)] = f[m] + g[k + 1]
      <4>1. k + 1 \in 1 .. n /\ m + (k + 1) \in 1 .. m + n /\ (k + 1) - 1 = k /\ k <= n
            /\ (m + (k + 1)) - 1 = m + k /\ m \in 0 .. m /\ k \in 0 .. n
        BY <3>1
      <4>2. h[m + (k + 1)] = (f[m] + g[k]) + Size[b[k + 1]]
        BY <1>3, <1>7, <3>1, <4>1
      <4>3. g[k + 1] = g[k] + Size[b[k + 1]]
        BY <1>6, <4>1
      <4>4. f[m] \in Nat /\ g[k] \in Nat /\ Size[b[k + 1]] \in Nat
        BY <1>1, <1>5, <1>6, <4>1, RestoreAssumption
      <4> QED BY <4>2, <4>3, <4>4
    <3> QED BY <3>1
  <2>3. Nat \subseteq T
    <3> HIDE DEF T
    <3> QED BY <2>1, <2>2, Induction
  <2> QED BY <2>3
<1>10. n \in 0 .. n /\ m \in 0 .. m
  OBVIOUS
<1> QED BY <1>2, <1>5, <1>6, <1>7, <1>9, <1>10

LEMMA BytesOne ==
  /\ Bytes(<<>>) = 0
  /\ \A e \in Emails : Bytes(<<e>>) = Size[e]
<1>1. Bytes(<<>>) = 0
  <2>0. <<>> \in Seq(Emails) /\ Len(<<>>) = 0
    OBVIOUS
  <2>1. PICK list \in Seq(Emails) : list = <<>> /\ Len(list) = 0
    BY <2>0
  <2>2. PICK h : Sums(list, h)
    BY BytesFold
  <2> QED BY <2>1, <2>2 DEF Sums
<1>2. ASSUME NEW e \in Emails PROVE Bytes(<<e>>) = Size[e]
  <2>1. <<e>> \in Seq(Emails) /\ Len(<<e>>) = 1 /\ <<e>>[1] = e
    OBVIOUS
  <2>2. PICK h : Sums(<<e>>, h)
    BY <2>1, BytesFold
  <2>3. h[0] = 0 /\ Bytes(<<e>>) = h[1] /\ h[1] = h[1 - 1] + Size[e]
    BY <2>1, <2>2 DEF Sums
  <2>4. Size[e] \in Nat
    BY RestoreAssumption
  <2> QED BY <2>3, <2>4
<1> QED BY <1>1, <1>2

\* c is a followed by b, of m and n elements.
Joined(a, b, c, m, n) ==
    /\ c \in Seq(Emails) /\ Len(c) = m + n
    /\ \A k \in 1 .. m : c[k] = a[k]
    /\ \A k \in 1 .. n : c[m + k] = b[k]

LEMMA JoinIs ==
  ASSUME NEW a \in Seq(Emails), NEW b \in Seq(Emails)
  PROVE  Joined(a, b, a \o b, Len(a), Len(b))
<1>1. PICK m \in Nat, n \in Nat : m = Len(a) /\ n = Len(b)
  OBVIOUS
<1>0. PICK c : c = a \o b
  OBVIOUS
<1>2. c \in Seq(Emails)
  BY <1>0
<1>3. Len(c) = m + n
  BY <1>0, <1>1
<1>4. ASSUME NEW k \in 1 .. m PROVE c[k] = a[k]
  BY <1>0, <1>1
<1>5. ASSUME NEW k \in 1 .. n PROVE c[m + k] = b[k]
  BY <1>0, <1>1
<1>6. Joined(a, b, c, m, n)
  BY <1>2, <1>3, <1>4, <1>5 DEF Joined
<1> QED BY <1>0, <1>1, <1>6

LEMMA ListsEqual ==
  ASSUME NEW S, NEW a \in Seq(S), NEW b \in Seq(S), Len(a) = Len(b), \A k \in 1 .. Len(a) : a[k] = b[k]
  PROVE  a = b
  OBVIOUS

(* What becomes of the list when the entry of an email is dropped.         *)
LEMMA RemoveIs ==
  ASSUME NEW list \in Seq(Emails), IsInjective(list), NEW e \in Emails,
         NEW new, new = RemoveFirst(list, e)
  PROVE  /\ new \in Seq(Emails) /\ IsInjective(new)
         /\ \A i \in 1 .. Len(new) : new[i] # e
         /\ Bytes(list) = Bytes(new) + (IF e \in ToSet(list) THEN Size[e] ELSE 0)
<1>1. PICK n \in Nat : n = Len(list) /\ DOMAIN list = 1 .. n /\ \A k \in 1 .. n : list[k] \in Emails
  OBVIOUS
<1>2. \A i, j \in 1 .. n : list[i] = list[j] => i = j
  BY <1>1 DEF IsInjective
<1>3. e \in ToSet(list) <=> \E i \in 1 .. n : list[i] = e
  BY <1>1 DEF ToSet
<1>4. CASE \A i \in 1 .. n : list[i] # e
  <2>1. new = list
    BY <1>1, <1>4 DEF RemoveFirst
  <2>2. Bytes(list) \in Nat
    BY BytesJoin
  <2> QED BY <1>1, <1>3, <1>4, <2>1, <2>2
<1>5. CASE \E i \in 1 .. n : list[i] = e
  <2>1. PICK i \in 1 .. n : list[i] = e
    BY <1>5
  <2>2. {k \in 1 .. n : list[k] = e} = {i}
    BY <1>2, <2>1
  <2>3. Min({i}) = i
    BY DEF Min
  <2>4. new = SubSeq(list, 1, i - 1) \o SubSeq(list, i + 1, n)
    BY <1>1, <1>5, <2>2, <2>3 DEF RemoveFirst, SelectInSeq, RemoveAt
  <2>5. PICK a, b : a = SubSeq(list, 1, i - 1) /\ b = SubSeq(list, i + 1, n)
    OBVIOUS
  <2>6. /\ a \in Seq(Emails) /\ Len(a) = i - 1 /\ \A k \in 1 .. i - 1 : a[k] = list[k]
        /\ b \in Seq(Emails) /\ Len(b) = n - i /\ \A k \in 1 .. n - i : b[k] = list[i + k]
    <3>1. i - 1 \in Nat /\ n - i \in Nat /\ 1 .. i - 1 \subseteq 1 .. n
          /\ \A k \in 1 .. n - i : i + k \in 1 .. n
      OBVIOUS
    <3>2. a = [k \in 1 .. i - 1 |-> list[k]]
      BY <1>1, <2>5, <3>1
    <3>3. b = [k \in 1 .. n - i |-> list[i + k]]
      BY <1>1, <2>5, <3>1
    <3> QED BY <1>1, <3>1, <3>2, <3>3
  <2>7. /\ new \in Seq(Emails) /\ Len(new) = n - 1
        /\ \A k \in 1 .. n - 1 : new[k] = IF k < i THEN list[k] ELSE list[k + 1]
    <3>1. new = a \o b
      BY <2>4, <2>5
    <3>2. /\ new \in Seq(Emails) /\ Len(new) = (i - 1) + (n - i)
          /\ \A k \in 1 .. i - 1 : new[k] = a[k]
          /\ \A k \in 1 .. n - i : new[(i - 1) + k] = b[k]
      <4>1. PICK x \in Nat, y \in Nat : x = i - 1 /\ y = n - i
        OBVIOUS
      <4>2. a \in Seq(Emails) /\ Len(a) = x /\ b \in Seq(Emails) /\ Len(b) = y
        BY <2>6, <4>1
      <4>3. Joined(a, b, new, x, y)
        BY <3>1, <4>2, JoinIs
      <4> QED BY <4>1, <4>3 DEF Joined
    <3>3. ASSUME NEW k \in 1 .. n - 1 PROVE new[k] = IF k < i THEN list[k] ELSE list[k + 1]
      <4>1. k < i => k \in 1 .. i - 1
        OBVIOUS
      <4>2. PICK l : l = k - (i - 1)
        OBVIOUS
      <4>3. ~(k < i) => l \in 1 .. n - i /\ i + l = k + 1 /\ (i - 1) + l = k
        BY <4>2
      <4>4. ~(k < i) => new[k] = b[l] /\ b[l] = list[k + 1]
        BY <2>6, <3>2, <4>3
      <4> QED BY <2>6, <3>2, <4>1, <4>4
    <3>4. (i - 1) + (n - i) = n - 1
      OBVIOUS
    <3> QED BY <3>2, <3>3, <3>4
  <2>8. IsInjective(new)
    <3>1. ASSUME NEW k \in 1 .. n - 1, NEW l \in 1 .. n - 1, new[k] = new[l] PROVE k = l
      <4>1. k \in 1 .. n /\ k + 1 \in 1 .. n /\ l \in 1 .. n /\ l + 1 \in 1 .. n
        OBVIOUS
      <4>2. PICK x \in 1 .. n, y \in 1 .. n :
                /\ x = (IF k < i THEN k ELSE k + 1) /\ y = (IF l < i THEN l ELSE l + 1)
        BY <4>1
      <4>3. new[k] = list[x] /\ new[l] = list[y]
        BY <2>7, <4>2
      <4>4. x = y
        BY <1>2, <3>1, <4>3
      <4> QED BY <4>2, <4>4
    <3> QED BY <2>7, <3>1 DEF IsInjective
  <2>9. \A k \in 1 .. Len(new) : new[k] # e
    <3>1. ASSUME NEW k \in 1 .. n - 1 PROVE new[k] # e
      <4>1. k \in 1 .. n /\ k + 1 \in 1 .. n
        OBVIOUS
      <4> QED BY <1>2, <2>1, <2>7, <4>1
    <3> QED BY <2>7, <3>1
  <2>10. Bytes(list) = Bytes(new) + Size[e]
    <3>1. <<e>> \in Seq(Emails) /\ Len(<<e>>) = 1 /\ <<e>>[1] = e
      OBVIOUS
    <3>2. PICK c : c = <<e>> \o b
      OBVIOUS
    <3>3. c \in Seq(Emails) /\ Len(c) = 1 + (n - i) /\ c[1] = e /\ \A k \in 1 .. n - i : c[1 + k] = b[k]
      <4>1. PICK y \in Nat : y = n - i
        OBVIOUS
      <4>2. <<e>> \in Seq(Emails) /\ Len(<<e>>) = 1 /\ b \in Seq(Emails) /\ Len(b) = y /\ 1 \in Nat
        BY <2>6, <3>1, <4>1
      <4>3. Joined(<<e>>, b, c, 1, y)
        BY <3>2, <4>2, JoinIs
      <4> QED BY <3>1, <4>1, <4>3 DEF Joined
    <3>4. list = a \o c
      <4>1. PICK d : d = a \o c
        OBVIOUS
      <4>2. PICK m : m = 1 + (n - i)
        OBVIOUS
      <4>3. /\ d \in Seq(Emails) /\ Len(d) = (i - 1) + m
            /\ \A k \in 1 .. i - 1 : d[k] = a[k]
            /\ \A k \in 1 .. m : d[(i - 1) + k] = c[k]
        <5>1. PICK x \in Nat, y \in Nat : x = i - 1 /\ y = m
          BY <4>2
        <5>2. a \in Seq(Emails) /\ Len(a) = x /\ c \in Seq(Emails) /\ Len(c) = y
          BY <2>6, <3>3, <4>2, <5>1
        <5>3. Joined(a, c, d, x, y)
          BY <4>1, <5>2, JoinIs
        <5> QED BY <5>1, <5>3 DEF Joined
      <4>4. (i - 1) + m = n
        BY <4>2
      <4>5. ASSUME NEW k \in 1 .. n PROVE list[k] = d[k]
        <5>1. CASE k < i
          <6>1. k \in 1 .. i - 1
            BY <5>1
          <6> QED BY <2>6, <4>3, <6>1
        <5>2. CASE k = i
          <6>1. 1 \in 1 .. m /\ (i - 1) + 1 = i
            BY <4>2
          <6> QED BY <2>1, <3>3, <4>3, <5>2, <6>1
        <5>3. CASE k > i
          <6>1. PICK l : l = k - i
            OBVIOUS
          <6>2. l \in 1 .. n - i /\ 1 + l \in 1 .. m /\ (i - 1) + (1 + l) = k /\ i + l = k
            BY <4>2, <5>3, <6>1
          <6>3. d[k] = c[1 + l] /\ c[1 + l] = b[l] /\ b[l] = list[k]
            BY <2>6, <3>3, <4>3, <6>2
          <6> QED BY <6>3
        <5> QED BY <5>1, <5>2, <5>3
      <4> QED BY <1>1, <4>1, <4>3, <4>4, <4>5, ListsEqual
    <3>5. Bytes(list) = Bytes(a) + Bytes(c) /\ Bytes(c) = Bytes(<<e>>) + Bytes(b)
      BY <2>6, <3>1, <3>2, <3>3, <3>4, BytesJoin
    <3>6. Bytes(new) = Bytes(a) + Bytes(b) /\ Bytes(a) \in Nat /\ Bytes(b) \in Nat
      BY <2>4, <2>5, <2>6, BytesJoin
    <3>7. Bytes(<<e>>) = Size[e] /\ Size[e] \in Nat
      BY BytesOne, RestoreAssumption
    <3> QED BY <3>5, <3>6, <3>7
  <2> QED BY <1>3, <1>5, <2>7, <2>8, <2>9, <2>10
<1> QED BY <1>4, <1>5

(* The entry of an email is put to the front.                              *)
LEMMA FrontIs ==
  ASSUME entries \in Seq(Emails), IsInjective(entries), NEW e \in Emails,
         NEW order, order = ToFront(e)
  PROVE  /\ order \in Seq(Emails) /\ IsInjective(order) /\ order # <<>>
         /\ Bytes(order) = Bytes(entries) + Size[e] - (IF e \in Cached THEN Size[e] ELSE 0)
<1>1. PICK new : new = RemoveFirst(entries, e)
  OBVIOUS
<1>2. /\ new \in Seq(Emails) /\ IsInjective(new)
      /\ \A i \in 1 .. Len(new) : new[i] # e
      /\ Bytes(entries) = Bytes(new) + (IF e \in Cached THEN Size[e] ELSE 0)
  BY <1>1, RemoveIs DEF Cached
<1>3. <<e>> \in Seq(Emails) /\ Len(<<e>>) = 1 /\ <<e>>[1] = e
  OBVIOUS
<1>4. order = <<e>> \o new
  BY <1>1 DEF ToFront
<1>5. PICK n \in Nat : n = Len(new) /\ DOMAIN new = 1 .. n
  BY <1>2
<1>6. /\ order \in Seq(Emails) /\ Len(order) = n + 1 /\ order[1] = e
      /\ \A k \in 1 .. n : order[k + 1] = new[k]
  BY <1>2, <1>3, <1>4, <1>5
<1>7. \A k, l \in 1 .. n : new[k] = new[l] => k = l
  BY <1>2, <1>5 DEF IsInjective
<1>8. ASSUME NEW k \in 1 .. n + 1, NEW l \in 1 .. n + 1, order[k] = order[l] PROVE k = l
  <2>1. \A j \in 1 .. n + 1 : j # 1 => j - 1 \in 1 .. n /\ order[j] = new[j - 1]
    <3>1. \A j \in 1 .. n + 1 : j # 1 => j - 1 \in 1 .. n /\ (j - 1) + 1 = j
      OBVIOUS
    <3> QED BY <1>6, <3>1
  <2>2. CASE k = 1 \/ l = 1
    BY <1>2, <1>5, <1>6, <1>8, <2>1, <2>2
  <2>3. CASE k # 1 /\ l # 1
    <3>1. k - 1 = l - 1
      BY <1>7, <1>8, <2>1, <2>3
    <3> QED BY <3>1
  <2> QED BY <2>2, <2>3
<1>9. IsInjective(order)
  BY <1>6, <1>8 DEF IsInjective
<1>10. Bytes(order) = Size[e] + Bytes(new) /\ Bytes(new) \in Nat /\ Size[e] \in Nat
  BY <1>2, <1>3, <1>4, BytesJoin, BytesOne, RestoreAssumption
<1>11. order # <<>>
  BY <1>6
<1> QED BY <1>2, <1>6, <1>9, <1>10, <1>11

(* A list cut in two: what is kept and what is evicted from the back.      *)
SplitAt(list, k, a, b) == a = SubSeq(list, 1, k) /\ b = SubSeq(list, k + 1, Len(list))

LEMMA SplitAtIs ==
  ASSUME NEW list \in Seq(Emails), IsInjective(list), NEW k \in 0 .. Len(list),
         NEW a, NEW b, SplitAt(list, k, a, b)
  PROVE  /\ a \in Seq(Emails) /\ IsInjective(a) /\ b \in Seq(Emails)
         /\ Bytes(list) = Bytes(a) + Bytes(b)
         /\ Bytes(a) \in Nat /\ Bytes(b) \in Nat
         /\ k = 0 => a = <<>>
<1>1. PICK n \in Nat : n = Len(list) /\ DOMAIN list = 1 .. n /\ \A i \in 1 .. n : list[i] \in Emails
  OBVIOUS
<1>2. k \in Nat /\ n - k \in Nat /\ 1 .. k \subseteq 1 .. n /\ \A i \in 1 .. n - k : k + i \in 1 .. n
  BY <1>1
<1>3. a = [i \in 1 .. k |-> list[i]]
  BY <1>1, <1>2 DEF SplitAt
<1>4. b = [i \in 1 .. n - k |-> list[k + i]]
  BY <1>1, <1>2 DEF SplitAt
<1>5. a \in Seq(Emails) /\ Len(a) = k /\ b \in Seq(Emails) /\ Len(b) = n - k
  BY <1>1, <1>2, <1>3, <1>4
<1>6. IsInjective(a)
  BY <1>1, <1>2, <1>3 DEF IsInjective
<1>7. list = a \o b
  <2>1. PICK d : d = a \o b
    OBVIOUS
  <2>2. /\ d \in Seq(Emails) /\ Len(d) = k + (n - k)
        /\ \A i \in 1 .. k : d[i] = a[i]
        /\ \A i \in 1 .. n - k : d[k + i] = b[i]
    <3>1. PICK y \in Nat : y = n - k
      BY <1>2
    <3>2. k \in Nat /\ a \in Seq(Emails) /\ Len(a) = k /\ b \in Seq(Emails) /\ Len(b) = y
      BY <1>2, <1>5, <3>1
    <3>3. Joined(a, b, d, k, y)
      BY <2>1, <3>2, JoinIs
    <3> QED BY <3>1, <3>3 DEF Joined
  <2>3. k + (n - k) = n
    BY <1>2
  <2>4. ASSUME NEW i \in 1 .. n PROVE list[i] = d[i]
    <3>1. CASE i <= k
      <4>1. i \in 1 .. k
        BY <1>2, <3>1
      <4> QED BY <1>3, <2>2, <4>1
    <3>2. CASE i > k
      <4>1. PICK l : l = i - k
        OBVIOUS
      <4>2. l \in 1 .. n - k /\ k + l = i
        BY <1>2, <3>2, <4>1
      <4>3. d[i] = b[l] /\ b[l] = list[i]
        BY <1>4, <2>2, <4>2
      <4> QED BY <4>3
    <3> QED BY <1>2, <3>1, <3>2
  <2> QED BY <1>1, <2>1, <2>2, <2>3, <2>4, ListsEqual
<1>8. k = 0 => a = <<>>
  BY <1>5
<1> QED BY <1>5, <1>6, <1>7, <1>8, BytesJoin

------------------------------------------------------------------------------
(* The inductive invariant of Restore.                                     *)
ReaderOk(rd, r) ==
    /\ rd \in ReaderType
    /\ (rd.todo = <<>>) <=> (rd.pc = "idle")
    /\ rd.pc \in {"append", "smtp", "entry", "open", "write", "enter"} => rd.content # "none"
    /\ rd.pc \in {"append", "smtp", "record"} => r \in Batches
    /\ rd.pc = "record" => rd.outcome # "none"

ReadersOk ==
    /\ reader \in [Readers -> ReaderType]
    /\ \A r \in Readers : ReaderOk(reader[r], r)

EmailsOk ==
    /\ email \in [Emails -> {"local", "s3", "gone"}] /\ file \subseteq Emails
    /\ object \subseteq Emails /\ target \in BOOLEAN

CacheOk ==
    /\ entries \in Seq(Emails) /\ IsInjective(entries) /\ disk \in [Emails -> {"none", "partial", "whole"}]
    /\ curBytes \in Nat /\ curBytes = Bytes(entries) /\ curBytes <= MaxBytes

TargetOk ==
    /\ mailbox \in [Emails -> Nat] /\ lost \in [Emails -> Nat]
    /\ logs \in [Emails -> [completed : Nat, failed : Nat]]

BoundsOk == starts \in 0 .. MaxStarts /\ changes \in 0 .. MaxChanges /\ faults \in 0 .. MaxFaults

RestoreInv ==
    ReadersOk /\ EmailsOk /\ CacheOk /\ TargetOk /\ BoundsOk /\ CopiesAccounted

LEMMA RestoreInvIs ==
  ASSUME RestoreInv
  PROVE  TypeOK /\ BudgetKept /\ CopiesAccounted
<1>1. BudgetKept
  BY DEF RestoreInv, CacheOk, BudgetKept
<1>2. TypeOK
  BY DEF RestoreInv, ReadersOk, ReaderOk, EmailsOk, CacheOk, TargetOk, BoundsOk, TypeOK
<1> QED BY <1>1, <1>2 DEF RestoreInv

------------------------------------------------------------------------------
(* Outcomes about to be written, and what one reader's step does to them.  *)
Carries(rd, e) == rd.pc = "record" /\ Head(rd.todo) = e /\ rd.outcome = "completed"

Flying(e) == Cardinality(InFlight(e))

LEMMA FlightIs ==
  ASSUME ReadersOk, NEW e
  PROVE  /\ InFlight(e) = {q \in Readers : Carries(reader[q], e)}
         /\ IsFiniteSet(InFlight(e)) /\ Flying(e) = Cardinality(InFlight(e)) /\ Flying(e) \in Nat
<1>1. InFlight(e) = {q \in Readers : Carries(reader[q], e)}
  BY DEF InFlight, Sits, At, Carries
<1>2. InFlight(e) \in SUBSET Batches
  BY <1>1 DEF ReadersOk, ReaderOk, Carries
<1>3. IsFiniteSet(InFlight(e))
  BY <1>2, RestoreAssumption, FS_Subset
<1>4. Flying(e) = Cardinality(InFlight(e))
  BY DEF Flying
<1> QED BY <1>1, <1>3, <1>4, FS_CardinalityType

LEMMA FlightStep ==
  ASSUME ReadersOk, ReadersOk', NEW r \in Readers, NEW rd,
         reader' = [reader EXCEPT ![r] = rd], NEW e
  PROVE  /\ Flying(e) \in Nat
         /\ Carries(reader[r], e) /\ ~Carries(rd, e) => Flying(e)' = Flying(e) - 1
         /\ ~Carries(reader[r], e) /\ Carries(rd, e) => Flying(e)' = Flying(e) + 1
         /\ (Carries(reader[r], e) <=> Carries(rd, e)) => Flying(e)' = Flying(e)
<1>1. PICK old, new : old = InFlight(e) /\ new = InFlight(e)'
  OBVIOUS
<1>2. /\ old = {q \in Readers : Carries(reader[q], e)}
      /\ IsFiniteSet(old) /\ Flying(e) = Cardinality(old) /\ Flying(e) \in Nat
  BY <1>1, FlightIs
<1>3. ReadersOk' => /\ InFlight(e)' = {q \in Readers : Carries(reader'[q], e)}
                    /\ Flying(e)' = Cardinality(InFlight(e)')
  <2>1. InFlight(e)' = {q \in Readers : Carries(reader'[q], e)}
    BY DEF InFlight, Sits, At, Carries
  <2>2. Flying(e)' = Cardinality(InFlight(e)')
    BY DEF Flying
  <2> QED BY <2>1, <2>2
<1>4. new = {q \in Readers : Carries(reader'[q], e)} /\ Flying(e)' = Cardinality(new)
  BY <1>1, <1>3
<1>5. reader'[r] = rd /\ \A q \in Readers : q # r => reader'[q] = reader[q]
  BY DEF ReadersOk
<1>6. Carries(reader[r], e) /\ ~Carries(rd, e) => r \in old /\ new = old \ {r}
  BY <1>2, <1>4, <1>5
<1>7. ~Carries(reader[r], e) /\ Carries(rd, e) => r \notin old /\ new = old \cup {r}
  BY <1>2, <1>4, <1>5
<1>8. (Carries(reader[r], e) <=> Carries(rd, e)) => new = old
  BY <1>2, <1>4, <1>5
<1>9. /\ Cardinality(old \cup {r}) = IF r \in old THEN Cardinality(old) ELSE Cardinality(old) + 1
      /\ Cardinality(old \ {r}) = IF r \in old THEN Cardinality(old) - 1 ELSE Cardinality(old)
  BY <1>2, FS_AddElement, FS_RemoveElement
<1> QED BY <1>2, <1>4, <1>6, <1>7, <1>8, <1>9

------------------------------------------------------------------------------
(* One reader's step.                                                      *)
LEMMA StepKeeps ==
  ASSUME ReadersOk, NEW r \in Readers, NEW rd, ReaderOk(rd, r), reader' = [reader EXCEPT ![r] = rd]
  PROVE  ReadersOk'
<1>1. rd \in ReaderType
  BY DEF ReaderOk
<1>2. reader' \in [Readers -> ReaderType]
  BY <1>1 DEF ReadersOk
<1>3. ASSUME NEW q \in Readers PROVE ReaderOk(reader'[q], q)
  <2>1. CASE q = r
    BY <2>1 DEF ReadersOk
  <2>2. CASE q # r
    BY <2>2 DEF ReadersOk
  <2> QED BY <2>1, <2>2
<1>4. \A q \in Readers : ReaderOk(reader'[q], q)
  BY <1>3
<1> QED BY <1>2, <1>4 DEF ReadersOk, ReaderOk, ReaderType, Readers

\* A step of a reader that neither takes nor writes a "completed" outcome.
Turn(r, rd) ==
    /\ ReaderOk(rd, r) /\ reader' = [reader EXCEPT ![r] = rd] /\ reader[r].pc # "record"
    /\ rd.pc = "record" => rd.outcome # "completed"

Quietly(r) == \E rd : Turn(r, rd)

LEMMA QuietStepKeeps ==
  ASSUME RestoreInv, NEW r \in Readers, Quietly(r)
  PROVE  ReadersOk' /\ \A e : Flying(e)' = Flying(e)
<1>1. PICK rd : Turn(r, rd)
  BY DEF Quietly
<1>2. ReadersOk /\ ReadersOk'
  BY <1>1, StepKeeps DEF Turn, RestoreInv
<1>3. ASSUME NEW e PROVE Flying(e)' = Flying(e)
  <2>1. ~Carries(reader[r], e) /\ ~Carries(rd, e)
    BY <1>1 DEF Turn, Carries
  <2> QED BY <1>1, <1>2, <2>1, FlightStep DEF Turn
<1> QED BY <1>2, <1>3

LEMMA SameCounts ==
  ASSUME RestoreInv, UNCHANGED <<target, email, mailbox, logs, lost>>, \A e : Flying(e)' = Flying(e)
  PROVE  CopiesAccounted'
<1>1. CopiesAccounted
  BY DEF RestoreInv
<1> QED BY <1>1 DEF CopiesAccounted, Flying

LEMMA LoadKeeps ==
  ASSUME RestoreInv, NEW r \in Readers, Quietly(r),
         UNCHANGED <<email, file, object, target, mailbox, logs, lost>>, CacheOk', BoundsOk'
  PROVE  RestoreInv'
<1>1. ReadersOk' /\ \A e : Flying(e)' = Flying(e)
  BY QuietStepKeeps
<1>2. CopiesAccounted'
  BY <1>1, SameCounts
<1>3. EmailsOk' /\ TargetOk'
  BY DEF RestoreInv, EmailsOk, TargetOk
<1> QED BY <1>1, <1>2, <1>3 DEF RestoreInv

LEMMA ItemHeld ==
  ASSUME ReadersOk, NEW r \in Readers, reader[r].pc # "idle"
  PROVE  /\ reader[r] \in ReaderType /\ ReaderOk(reader[r], r) /\ reader[r].todo # <<>>
         /\ reader[r].todo \in Seq(Emails) /\ At(r) \in Emails
<1>1. /\ reader[r] \in ReaderType /\ ReaderOk(reader[r], r) /\ reader[r].todo # <<>>
      /\ reader[r].todo \in Seq(Emails)
  BY DEF ReadersOk, ReaderOk, ReaderType
<1>2. PICK list \in Seq(Emails) : list = reader[r].todo /\ list # <<>>
  BY <1>1
<1>3. Head(list) \in Emails
  BY <1>2
<1> QED BY <1>1, <1>2, <1>3 DEF At

\* The places a step without an outcome goes to, and what they need.
Reaches(r, pc, content) ==
    /\ pc \in {"local", "lookup", "hit", "forget", "download", "open", "write", "enter",
               "append", "smtp", "entry"}
    /\ pc \in {"append", "smtp", "entry", "open", "write", "enter"} => content # "none"
    /\ pc \in {"append", "smtp"} => r \in Batches

LEMMA TurnsTo ==
  ASSUME ReadersOk, NEW r \in Readers, reader[r].pc \notin {"idle", "record"},
         NEW pc, NEW content \in {"none", "whole", "broken"}, NEW attached \in BOOLEAN, Reaches(r, pc, content),
         NEW rd, rd = [reader[r] EXCEPT !.pc = pc, !.content = content, !.attached = attached],
         reader' = [reader EXCEPT ![r] = rd]
  PROVE  Quietly(r)
<1>1. /\ reader[r] \in ReaderType /\ reader[r].todo # <<>>
  BY ItemHeld
<1>2. /\ rd \in ReaderType /\ rd.pc = pc /\ rd.todo = reader[r].todo /\ rd.content = content
  BY <1>1 DEF ReaderType, Reaches
<1>3. ReaderOk(rd, r)
  BY <1>1, <1>2 DEF ReaderOk, Reaches
<1> QED BY <1>2, <1>3 DEF Quietly, Turn, Reaches

LEMMA GoesQuietly ==
  ASSUME ReadersOk, NEW r \in Readers, reader[r].pc \notin {"idle", "record"},
         NEW pc, Reaches(r, pc, reader[r].content), Goes(r, pc)
  PROVE  Quietly(r)
<1>1. reader[r] \in ReaderType
  BY ItemHeld
<1>2. PICK content \in {"none", "whole", "broken"}, attached \in BOOLEAN :
          content = reader[r].content /\ attached = reader[r].attached
  BY <1>1 DEF ReaderType
<1>3. PICK rd : rd = [reader[r] EXCEPT !.pc = pc, !.content = content, !.attached = attached]
  OBVIOUS
<1>4. rd = [reader[r] EXCEPT !.pc = pc]
  BY <1>1, <1>2, <1>3 DEF ReaderType
<1>5. reader' = [reader EXCEPT ![r] = rd]
  BY <1>4 DEF Goes
<1> QED BY <1>2, <1>3, <1>5, TurnsTo

LEMMA GoesWithQuietly ==
  ASSUME ReadersOk, NEW r \in Readers, reader[r].pc \notin {"idle", "record"},
         NEW pc, NEW content \in {"whole", "broken"}, Reaches(r, pc, content), GoesWith(r, pc, content)
  PROVE  Quietly(r)
<1>1. reader[r] \in ReaderType
  BY ItemHeld
<1>2. PICK attached \in BOOLEAN : attached = reader[r].attached
  BY <1>1 DEF ReaderType
<1>3. PICK rd : rd = [reader[r] EXCEPT !.pc = pc, !.content = content, !.attached = attached]
  OBVIOUS
<1>4. rd = [[reader[r] EXCEPT !.pc = pc] EXCEPT !.content = content]
  BY <1>1, <1>2, <1>3 DEF ReaderType
<1>5. reader' = [reader EXCEPT ![r] = rd]
  BY <1>4 DEF GoesWith, ReadersOk
<1> QED BY <1>2, <1>3, <1>5, TurnsTo

\* An outcome reached by a batch.
LEMMA Concluded ==
  ASSUME ReadersOk, NEW r \in Readers, reader[r].pc # "idle", r \in Batches,
         NEW outcome \in {"completed", "failed"}, Concludes(r, outcome)
  PROVE  \E rd : /\ ReaderOk(rd, r) /\ reader' = [reader EXCEPT ![r] = rd] /\ rd.pc = "record"
                 /\ rd.outcome = outcome /\ Head(rd.todo) = At(r)
<1>1. reader[r] \in ReaderType /\ reader[r].todo # <<>>
  BY ItemHeld
<1>2. PICK rd : rd = [[reader[r] EXCEPT !.pc = "record"] EXCEPT !.outcome = outcome]
  OBVIOUS
<1>3. /\ rd \in ReaderType /\ rd.pc = "record" /\ rd.todo = reader[r].todo /\ rd.outcome = outcome
  BY <1>1, <1>2 DEF ReaderType
<1>4. reader' = [reader EXCEPT ![r] = rd]
  BY <1>2 DEF Concludes, ReadersOk
<1>5. ReaderOk(rd, r)
  BY <1>1, <1>3 DEF ReaderOk
<1> QED BY <1>3, <1>4, <1>5 DEF At

LEMMA AdvancedIs ==
  ASSUME ReadersOk, NEW r \in Readers, reader[r].pc # "idle"
  PROVE  ReaderOk(Advanced(r), r) /\ Advanced(r).pc # "record"
<1>1. PICK list \in Seq(Emails) : list = reader[r].todo
  BY ItemHeld
<1>2. CASE Len(list) > 1
  <2>1. Tail(list) \in Seq(Emails) /\ Tail(list) # <<>>
    <3>0. PICK n \in Nat : n = Len(list)
      OBVIOUS
    <3>1. n > 1 /\ n - 1 # 0 /\ list # <<>>
      <4>1. Len(<<>>) = 0
        OBVIOUS
      <4> QED BY <1>2, <3>0, <4>1
    <3>2. Tail(list) \in Seq(Emails) /\ Len(Tail(list)) = Len(list) - 1
      BY <3>1, HeadTailProperties
    <3>3. Len(Tail(list)) = n - 1 /\ Len(<<>>) = 0
      BY <3>0, <3>2
    <3> QED BY <3>1, <3>2, <3>3
  <2>2. Advanced(r) = [Idle EXCEPT !.pc = "row", !.todo = Tail(list)]
    BY <1>1, <1>2 DEF Advanced
  <2> QED BY <2>1, <2>2 DEF Idle, ReaderOk, ReaderType
<1>3. CASE ~(Len(list) > 1)
  <2>1. Advanced(r) = Idle
    BY <1>1, <1>3 DEF Advanced
  <2> QED BY <2>1 DEF Idle, ReaderOk, ReaderType
<1> QED BY <1>2, <1>3

LEMMA AdvancesQuietly ==
  ASSUME ReadersOk, NEW r \in Readers, reader[r].pc \notin {"idle", "record"}, Advances(r)
  PROVE  Quietly(r)
  BY AdvancedIs DEF Advances, Quietly, Turn

LEMMA LoadFailsQuietly ==
  ASSUME ReadersOk, NEW r \in Readers, reader[r].pc \notin {"idle", "record"}, LoadFails(r)
  PROVE  Quietly(r)
<1>1. CASE r \in Batches
  <2>1. Concludes(r, "failed")
    BY <1>1 DEF LoadFails
  <2>2. PICK rd : /\ ReaderOk(rd, r) /\ reader' = [reader EXCEPT ![r] = rd] /\ rd.pc = "record"
                  /\ rd.outcome = "failed"
    BY <1>1, <2>1, Concluded
  <2> QED BY <2>2 DEF Quietly, Turn
<1>2. CASE r \notin Batches
  BY <1>2, AdvancesQuietly DEF LoadFails
<1> QED BY <1>1, <1>2

LEMMA ServedIs ==
  ASSUME NEW r \in Readers, NEW content \in {"whole", "broken"}
  PROVE  Reaches(r, Served[r], content)
  BY DEF Served, Reaches

------------------------------------------------------------------------------
(* The steps of a load.                                                    *)
LEMMA SameCache ==
  ASSUME RestoreInv, UNCHANGED <<entries, curBytes, disk>>
  PROVE  CacheOk'
  BY DEF RestoreInv, CacheOk

LEMMA SameBounds ==
  ASSUME RestoreInv, UNCHANGED <<starts, changes, faults>>
  PROVE  BoundsOk'
  BY DEF RestoreInv, BoundsOk

LEMMA FaultBounds ==
  ASSUME RestoreInv, Fault, UNCHANGED <<starts, changes>>
  PROVE  BoundsOk'
  BY RestoreAssumption DEF RestoreInv, BoundsOk, Fault

LEMMA ChangeBounds ==
  ASSUME RestoreInv, Change, UNCHANGED <<starts, faults>>
  PROVE  BoundsOk'
  BY RestoreAssumption DEF RestoreInv, BoundsOk, Change

LEMMA PrivateKeeps ==
  ASSUME RestoreInv, NEW r \in Readers, Quietly(r), Private
  PROVE  RestoreInv'
<1>1. UNCHANGED <<email, file, object, target, mailbox, logs, lost, entries, curBytes, disk, starts, changes, faults>>
  BY DEF Private, emailVars, cacheVars, targetVars
<1> QED BY <1>1, LoadKeeps, SameCache, SameBounds

LEMMA RowKeeps ==
  ASSUME RestoreInv, NEW r \in Readers, LoadRow(r)
  PROVE  RestoreInv'
<1>1. ReadersOk /\ reader[r].pc = "row"
  BY DEF RestoreInv, LoadRow, Sits
<1>2. Advances(r) \/ Goes(r, "local") \/ Goes(r, "lookup")
  BY DEF LoadRow
<1>3. Reaches(r, "local", reader[r].content) /\ Reaches(r, "lookup", reader[r].content)
  BY DEF Reaches
<1>4. Quietly(r)
  BY <1>1, <1>2, <1>3, AdvancesQuietly, GoesQuietly
<1> QED BY <1>4, PrivateKeeps DEF LoadRow

LEMMA LocalKeeps ==
  ASSUME RestoreInv, NEW r \in Readers, ReadLocal(r)
  PROVE  RestoreInv'
<1>1. ReadersOk /\ reader[r].pc = "local"
  BY DEF RestoreInv, ReadLocal, Sits
<1>2. GoesWith(r, Served[r], "whole") \/ LoadFails(r)
  BY DEF ReadLocal
<1>3. Quietly(r)
  BY <1>1, <1>2, ServedIs, GoesWithQuietly, LoadFailsQuietly
<1> QED BY <1>3, PrivateKeeps DEF ReadLocal

LEMMA CachedKeeps ==
  ASSUME RestoreInv, NEW r \in Readers, ReadCached(r)
  PROVE  RestoreInv'
<1>1. ReadersOk /\ reader[r].pc = "hit" /\ disk \in [Emails -> {"none", "partial", "whole"}]
  BY DEF RestoreInv, ReadCached, Sits, CacheOk
<1>2. disk[At(r)] \in {"none", "partial", "whole"}
  BY <1>1, ItemHeld
<1>3. \/ GoesWith(r, Served[r], "whole") \/ GoesWith(r, Served[r], "broken")
      \/ Goes(r, "forget")
  BY <1>2 DEF ReadCached
<1>4. Reaches(r, "forget", reader[r].content)
  BY DEF Reaches
<1>5. Quietly(r)
  BY <1>1, <1>3, <1>4, ServedIs, GoesWithQuietly, GoesQuietly
<1> QED BY <1>5, PrivateKeeps DEF ReadCached

LEMMA DownloadKeeps ==
  ASSUME RestoreInv, NEW r \in Readers, Download(r)
  PROVE  RestoreInv'
<1>1. ReadersOk /\ reader[r].pc = "download"
  BY DEF RestoreInv, Download, Sits
<1>2. GoesWith(r, "open", "whole") \/ LoadFails(r)
  BY DEF Download
<1>3. Reaches(r, "open", "whole")
  BY DEF Reaches
<1>4. Quietly(r)
  BY <1>1, <1>2, <1>3, GoesWithQuietly, LoadFailsQuietly
<1> QED BY <1>4, PrivateKeeps DEF Download

LEMMA DownloadFailsKeeps ==
  ASSUME RestoreInv, NEW r \in Readers, DownloadFails(r)
  PROVE  RestoreInv'
<1>1. ReadersOk /\ reader[r].pc = "download" /\ LoadFails(r) /\ Fault
  BY DEF RestoreInv, DownloadFails, Sits
<1>2. UNCHANGED <<email, file, object, target, mailbox, logs, lost, entries, curBytes, disk, starts, changes>>
  BY DEF DownloadFails, emailVars, cacheVars, targetVars
<1>3. Quietly(r)
  BY <1>1, LoadFailsQuietly
<1> QED BY <1>1, <1>2, <1>3, LoadKeeps, SameCache, FaultBounds

LEMMA EntryKeeps ==
  ASSUME RestoreInv, NEW r \in Readers, ExportEntry(r)
  PROVE  RestoreInv'
<1>1. ReadersOk /\ reader[r].pc = "entry" /\ Advances(r)
  BY DEF RestoreInv, ExportEntry, Sits
<1>2. Quietly(r)
  BY <1>1, AdvancesQuietly
<1> QED BY <1>2, PrivateKeeps DEF ExportEntry

------------------------------------------------------------------------------
(* The steps of the cache.                                                 *)
LEMMA GreatestIs ==
  ASSUME NEW n \in Nat, NEW s \in SUBSET (0 .. n), s # {}
  PROVE  Max(s) \in s
<1> DEFINE gaps == {d \in Nat : n - d \in s}
<1>1. gaps \subseteq Nat /\ gaps # {}
  <2>1. PICK x \in s : TRUE
    OBVIOUS
  <2>2. n - x \in Nat /\ n - (n - x) = x
    OBVIOUS
  <2> QED BY <2>1, <2>2
<1>2. PICK d \in gaps : \A c \in gaps : <<c, d>> \notin OpToRel(<, Nat)
  BY <1>1, NatLessThanWellFounded, WFMin
<1>3. ASSUME NEW y \in s PROVE n - d >= y
  <2>1. n - y \in gaps
    <3>1. n - y \in Nat /\ n - (n - y) = y
      OBVIOUS
    <3> QED BY <3>1
  <2>2. ~(n - y < d) /\ d \in Nat
    BY <1>1, <1>2, <2>1 DEF OpToRel
  <2> QED BY <2>2
<1>4. n - d \in s /\ \A y \in s : n - d >= y
  BY <1>2, <1>3
<1>5. PICK m \in s : m = n - d /\ \A y \in s : m >= y
  BY <1>4
<1> HIDE DEF gaps
<1> QED BY <1>5 DEF Max

LEMMA LookupKeeps ==
  ASSUME RestoreInv, NEW r \in Readers, Lookup(r)
  PROVE  RestoreInv'
<1>1. ReadersOk /\ CacheOk /\ reader[r].pc = "lookup" /\ At(r) \in Emails
  BY ItemHeld DEF RestoreInv, Lookup, Sits
<1>2. UNCHANGED <<email, file, object, target, mailbox, logs, lost, curBytes, disk, starts, changes, faults>>
  BY DEF Lookup, emailVars, targetVars
<1>3. Reaches(r, "hit", reader[r].content) /\ Reaches(r, "download", reader[r].content)
  BY DEF Reaches
<1>4. CASE At(r) \in Cached
  <2>1. entries' = ToFront(At(r)) /\ Goes(r, "hit")
    BY <1>4 DEF Lookup
  <2>2. /\ entries' \in Seq(Emails) /\ IsInjective(entries')
        /\ Bytes(entries') = Bytes(entries) + Size[At(r)] - Size[At(r)]
    BY <1>1, <1>4, <2>1, FrontIs DEF CacheOk
  <2>3. Size[At(r)] \in Nat /\ Bytes(entries) \in Nat
    BY <1>1, RestoreAssumption DEF CacheOk
  <2>4. Bytes(entries') = Bytes(entries)
    BY <2>2, <2>3
  <2>5. CacheOk'
    BY <1>1, <1>2, <2>2, <2>4 DEF CacheOk
  <2> QED BY <1>1, <1>2, <1>3, <2>1, <2>5, GoesQuietly, LoadKeeps, SameBounds
<1>5. CASE At(r) \notin Cached
  <2>1. entries' = entries /\ Goes(r, "download")
    BY <1>5 DEF Lookup
  <2> QED BY <1>1, <1>2, <1>3, <2>1, GoesQuietly, LoadKeeps, SameBounds, SameCache
<1> QED BY <1>4, <1>5

LEMMA ForgetKeeps ==
  ASSUME RestoreInv, NEW r \in Readers, Forget(r)
  PROVE  RestoreInv'
<1>1. ReadersOk /\ CacheOk /\ reader[r].pc = "forget" /\ At(r) \in Emails /\ Goes(r, "download")
  BY ItemHeld DEF RestoreInv, Forget, Sits
<1>2. UNCHANGED <<email, file, object, target, mailbox, logs, lost, disk, starts, changes, faults>>
  BY DEF Forget, emailVars, targetVars
<1>3. /\ entries' = RemoveFirst(entries, At(r))
      /\ curBytes' = IF At(r) \in Cached THEN curBytes - Size[At(r)] ELSE curBytes
  BY DEF Forget
<1>4. PICK new : new = entries'
  OBVIOUS
<1>5. /\ new \in Seq(Emails) /\ IsInjective(new)
      /\ Bytes(entries) = Bytes(new) + (IF At(r) \in Cached THEN Size[At(r)] ELSE 0)
  <2>1. entries \in Seq(Emails) /\ IsInjective(entries) /\ new = RemoveFirst(entries, At(r))
    BY <1>1, <1>3, <1>4 DEF CacheOk
  <2> QED BY <1>1, <2>1, RemoveIs DEF Cached
<1>6. Size[At(r)] \in Nat /\ Bytes(new) \in Nat /\ MaxBytes \in Nat
  BY <1>1, <1>5, RestoreAssumption, BytesJoin
<1>7. curBytes' = Bytes(new) /\ curBytes' \in Nat /\ curBytes' <= MaxBytes
  BY <1>1, <1>3, <1>5, <1>6 DEF CacheOk
<1>8. CacheOk'
  BY <1>1, <1>2, <1>4, <1>5, <1>7 DEF CacheOk
<1>9. Reaches(r, "download", reader[r].content)
  BY DEF Reaches
<1>10. Quietly(r)
  BY <1>1, <1>9, GoesQuietly
<1> QED BY <1>2, <1>8, <1>10, LoadKeeps, SameBounds

LEMMA PutOpenKeeps ==
  ASSUME RestoreInv, NEW r \in Readers, PutOpen(r)
  PROVE  RestoreInv'
<1>1. ReadersOk /\ CacheOk /\ reader[r].pc = "open" /\ At(r) \in Emails /\ reader[r] \in ReaderType
  BY ItemHeld DEF RestoreInv, PutOpen, Sits
<1>2. UNCHANGED <<email, file, object, target, mailbox, logs, lost, entries, curBytes, starts, changes, faults>>
  BY DEF PutOpen, emailVars, targetVars
<1>3. CacheOk'
  BY <1>1, <1>2 DEF CacheOk, PutOpen
<1>4. Quietly(r)
  <2>1. PICK content \in {"none", "whole", "broken"} : content = reader[r].content /\ content # "none"
    BY <1>1 DEF ReaderType, ReadersOk, ReaderOk
  <2>2. PICK rd : rd = [reader[r] EXCEPT !.pc = "write", !.content = content, !.attached = TRUE]
    OBVIOUS
  <2>3. rd = [[reader[r] EXCEPT !.pc = "write"] EXCEPT !.attached = TRUE]
    BY <1>1, <2>1, <2>2 DEF ReaderType
  <2>4. reader' = [reader EXCEPT ![r] = rd]
    BY <1>1, <2>3 DEF PutOpen, ReadersOk
  <2>5. Reaches(r, "write", content)
    BY <2>1 DEF Reaches
  <2> QED BY <1>1, <2>1, <2>2, <2>4, <2>5, TurnsTo
<1> QED BY <1>2, <1>3, <1>4, LoadKeeps, SameBounds

LEMMA PutWriteKeeps ==
  ASSUME RestoreInv, NEW r \in Readers, PutWrite(r)
  PROVE  RestoreInv'
<1>1. ReadersOk /\ CacheOk /\ reader[r].pc = "write" /\ At(r) \in Emails /\ reader[r].content # "none"
      /\ Goes(r, "enter")
  BY ItemHeld DEF RestoreInv, PutWrite, Sits, ReaderOk
<1>2. UNCHANGED <<email, file, object, target, mailbox, logs, lost, entries, curBytes, starts, changes, faults>>
  BY DEF PutWrite, emailVars, targetVars
<1>3. disk' = disk \/ disk' = [disk EXCEPT ![At(r)] = "whole"]
  BY DEF PutWrite
<1>4. CacheOk'
  BY <1>1, <1>2, <1>3 DEF CacheOk
<1>5. Reaches(r, "enter", reader[r].content)
  BY <1>1 DEF Reaches
<1>6. Quietly(r)
  BY <1>1, <1>5, GoesQuietly
<1> QED BY <1>2, <1>4, <1>6, LoadKeeps, SameBounds

LEMMA PutFailsKeeps ==
  ASSUME RestoreInv, NEW r \in Readers, PutFails(r)
  PROVE  RestoreInv'
<1>1. /\ ReadersOk /\ reader[r].pc = "write" /\ reader[r].content \in {"whole", "broken"}
      /\ Goes(r, Served[r]) /\ Fault
  BY ItemHeld DEF RestoreInv, PutFails, Sits, ReaderOk, ReaderType
<1>2. UNCHANGED <<email, file, object, target, mailbox, logs, lost, entries, curBytes, disk, starts, changes>>
  BY DEF PutFails, emailVars, cacheVars, targetVars
<1>3. Quietly(r)
  BY <1>1, ServedIs, GoesQuietly
<1> QED BY <1>1, <1>2, <1>3, LoadKeeps, SameCache, FaultBounds

\* The list and the bytes an entry leaves: Put with evictLocked.
Puts(e, order, grown, kept, rest, evicted) ==
    /\ order = ToFront(e)
    /\ grown = curBytes + Size[e] - (IF e \in Cached THEN Size[e] ELSE 0)
    /\ kept = Max({k \in 0 .. Len(order) :
                       k = 0 \/ grown - Bytes(SubSeq(order, k + 1, Len(order))) <= MaxBytes})
    /\ SplitAt(order, kept, rest, evicted)

LEMMA EvictionFits ==
  ASSUME CacheOk, NEW e \in Emails, NEW order, NEW grown, NEW kept, NEW rest, NEW evicted,
         Puts(e, order, grown, kept, rest, evicted)
  PROVE  /\ rest \in Seq(Emails) /\ IsInjective(rest)
         /\ grown - Bytes(evicted) = Bytes(rest)
         /\ Bytes(rest) \in Nat /\ Bytes(rest) <= MaxBytes
<1>1. /\ order \in Seq(Emails) /\ IsInjective(order) /\ grown = Bytes(order)
  <2>1. order = ToFront(e) /\ entries \in Seq(Emails) /\ IsInjective(entries) /\ curBytes = Bytes(entries)
        /\ grown = curBytes + Size[e] - (IF e \in Cached THEN Size[e] ELSE 0)
    BY DEF Puts, CacheOk
  <2> QED BY <2>1, FrontIs
<1>2. PICK n \in Nat : n = Len(order)
  BY <1>1
<1>3. PICK s : s = {k \in 0 .. n : k = 0 \/ grown - Bytes(SubSeq(order, k + 1, n)) <= MaxBytes}
  OBVIOUS
<1>4. s \in SUBSET (0 .. n) /\ s # {}
  <2>1. s \in SUBSET (0 .. n) /\ 0 \in s
    BY <1>3
  <2> QED BY <2>1
<1>5. kept = Max(s) /\ SplitAt(order, kept, rest, evicted)
  BY <1>2, <1>3 DEF Puts
<1>6. kept \in s
  BY <1>4, <1>5, GreatestIs
<1>7. /\ kept \in 0 .. n /\ evicted = SubSeq(order, kept + 1, n)
      /\ kept = 0 \/ grown - Bytes(evicted) <= MaxBytes
  BY <1>2, <1>3, <1>5, <1>6 DEF SplitAt
<1>8. kept \in 0 .. Len(order)
  BY <1>2, <1>7
<1>9. /\ rest \in Seq(Emails) /\ IsInjective(rest)
      /\ Bytes(order) = Bytes(rest) + Bytes(evicted)
      /\ Bytes(rest) \in Nat /\ Bytes(evicted) \in Nat
      /\ kept = 0 => rest = <<>>
  BY <1>1, <1>5, <1>8, SplitAtIs
<1>10. grown - Bytes(evicted) = Bytes(rest)
  BY <1>1, <1>9
<1>11. Bytes(rest) <= MaxBytes
  <2>1. CASE kept = 0
    <3>1. Bytes(rest) = 0 /\ MaxBytes \in Nat
      BY <1>9, <2>1, BytesOne, RestoreAssumption
    <3> QED BY <3>1
  <2>2. CASE kept # 0
    BY <1>7, <1>10, <2>2
  <2> QED BY <2>1, <2>2
<1> QED BY <1>9, <1>10, <1>11

LEMMA EnterKeeps ==
  ASSUME RestoreInv, NEW r \in Readers, PutEntry(r)
  PROVE  RestoreInv'
<1>1. /\ ReadersOk /\ CacheOk /\ reader[r].pc = "enter" /\ At(r) \in Emails
      /\ reader[r].content \in {"whole", "broken"} /\ reader[r] \in ReaderType
  BY ItemHeld DEF RestoreInv, PutEntry, Sits, ReaderOk, ReaderType
<1>2. UNCHANGED <<email, file, object, target, mailbox, logs, lost, starts, changes, faults>>
  BY DEF PutEntry, emailVars, targetVars
<1>3. PICK e \in Emails : e = At(r)
  BY <1>1
<1>4. PICK order : order = ToFront(e)
  OBVIOUS
<1>5. PICK grown : grown = curBytes + Size[e] - (IF e \in Cached THEN Size[e] ELSE 0)
  OBVIOUS
<1>6. PICK kept : kept = Max({k \in 0 .. Len(order) :
                             k = 0 \/ grown - Bytes(SubSeq(order, k + 1, Len(order))) <= MaxBytes})
  OBVIOUS
<1>7. PICK rest, evicted : rest = SubSeq(order, 1, kept) /\ evicted = SubSeq(order, kept + 1, Len(order))
  OBVIOUS
<1>8. /\ entries' = rest /\ curBytes' = grown - Bytes(evicted)
      /\ disk' = [d \in Emails |-> IF d \in ToSet(evicted) THEN "none" ELSE disk[d]]
      /\ reader' = [q \in Readers |->
            IF q = r THEN [reader[q] EXCEPT !.pc = Served[r], !.attached = FALSE]
            ELSE IF reader[q].todo # <<>> /\ At(q) \in ToSet(evicted)
            THEN [reader[q] EXCEPT !.attached = FALSE] ELSE reader[q]]
  BY <1>3, <1>4, <1>5, <1>6, <1>7 DEF PutEntry
<1>9. /\ rest \in Seq(Emails) /\ IsInjective(rest)
      /\ grown - Bytes(evicted) = Bytes(rest)
      /\ Bytes(rest) \in Nat /\ Bytes(rest) <= MaxBytes
  <2>1. Puts(e, order, grown, kept, rest, evicted)
    BY <1>4, <1>5, <1>6, <1>7 DEF Puts, SplitAt
  <2> QED BY <1>1, <2>1, EvictionFits
<1>10. disk' \in [Emails -> {"none", "partial", "whole"}]
  BY <1>1, <1>8 DEF CacheOk
<1>11. CacheOk'
  BY <1>8, <1>9, <1>10 DEF CacheOk
<1>12. ASSUME NEW q \in Readers
       PROVE  /\ reader'[q] \in ReaderType /\ ReaderOk(reader'[q], q)
              /\ \A d : Carries(reader'[q], d) <=> Carries(reader[q], d)
  <2>1. reader[q] \in ReaderType /\ ReaderOk(reader[q], q)
    BY <1>1 DEF ReadersOk
  <2>2. CASE q = r
    <3>1. reader'[q] = [reader[q] EXCEPT !.pc = Served[r], !.attached = FALSE]
      BY <1>8, <2>2
    <3>2. Served[r] \in {"append", "entry"} /\ (Served[r] = "append" => r \in Batches)
      BY DEF Served
    <3>3. /\ reader'[q] \in ReaderType /\ reader'[q].pc = Served[r]
          /\ reader'[q].todo = reader[q].todo /\ reader'[q].content = reader[q].content
      BY <2>1, <3>1, <3>2 DEF ReaderType
    <3> QED BY <1>1, <2>1, <2>2, <3>2, <3>3 DEF ReaderOk, Carries
  <2>3. CASE reader'[q] = [reader[q] EXCEPT !.attached = FALSE]
    <3>1. /\ reader'[q] \in ReaderType /\ reader'[q].pc = reader[q].pc /\ reader'[q].todo = reader[q].todo
          /\ reader'[q].content = reader[q].content /\ reader'[q].outcome = reader[q].outcome
      BY <2>1, <2>3 DEF ReaderType
    <3> QED BY <2>1, <3>1 DEF ReaderOk, Carries
  <2>4. CASE reader'[q] = reader[q]
    BY <2>1, <2>4
  <2> QED BY <1>8, <2>2, <2>3, <2>4
<1>13. ReadersOk'
  <2>1. \A q \in Readers : reader'[q] \in ReaderType /\ ReaderOk(reader'[q], q)
    BY <1>12
  <2>2. reader' \in [Readers -> ReaderType]
    BY <1>8, <2>1
  <2> QED BY <2>1, <2>2 DEF ReadersOk, ReaderOk, ReaderType, Readers
<1>14. ASSUME NEW d PROVE Flying(d)' = Flying(d)
  <2>1. InFlight(d)' = {q \in Readers : Carries(reader'[q], d)}
    BY DEF InFlight, Sits, At, Carries
  <2>2. InFlight(d) = {q \in Readers : Carries(reader[q], d)}
    BY <1>1, FlightIs
  <2>3. InFlight(d)' = InFlight(d)
    BY <1>12, <2>1, <2>2
  <2> QED BY <2>3 DEF Flying
<1>15. CopiesAccounted'
  BY <1>2, <1>14, SameCounts
<1>16. EmailsOk' /\ TargetOk' /\ BoundsOk'
  BY <1>2, SameBounds DEF RestoreInv, EmailsOk, TargetOk
<1> QED BY <1>11, <1>13, <1>15, <1>16 DEF RestoreInv

------------------------------------------------------------------------------
(* What happens to the archive and the target account, and requests.       *)
LEMMA ArchiveKeeps ==
  ASSUME RestoreInv,
         UNCHANGED <<entries, curBytes, disk, reader, mailbox, lost, starts, faults>>,
         EmailsOk', logs' \in [Emails -> [completed : Nat, failed : Nat]], BoundsOk',
         target' => /\ target
                    /\ \A e \in Emails : email'[e] # "gone" => email[e] # "gone" /\ logs'[e] = logs[e]
  PROVE  RestoreInv'
<1>1. CacheOk'
  BY SameCache
<1>2. ReadersOk'
  BY DEF RestoreInv, ReadersOk, ReaderOk, ReaderType, Readers
<1>3. TargetOk'
  BY DEF RestoreInv, TargetOk
<1>4. \A e : Flying(e)' = Flying(e)
  BY DEF Flying, InFlight, Sits, At
<1>5. CopiesAccounted
  BY DEF RestoreInv
<1>6. CopiesAccounted'
  <2>1. ASSUME target', NEW e \in Emails, email'[e] # "gone"
        PROVE  mailbox'[e] = logs'[e].completed + lost'[e] + Flying(e)'
    <3>1. mailbox[e] = logs[e].completed + lost[e] + Flying(e)
      BY <1>5, <2>1 DEF CopiesAccounted, Flying
    <3> QED BY <1>4, <2>1, <3>1
  <2> QED BY <2>1 DEF CopiesAccounted, Flying
<1> QED BY <1>1, <1>2, <1>3, <1>6 DEF RestoreInv

LEMMA RetentionKeeps ==
  ASSUME RestoreInv, NEW e \in Emails, EvictToS3Only(e)
  PROVE  RestoreInv'
<1>1. UNCHANGED <<entries, curBytes, disk, reader, mailbox, lost, starts, faults, file, object, target, logs>>
  BY DEF EvictToS3Only, Others, cacheVars
<1>2. email' = [email EXCEPT ![e] = "s3"] /\ email[e] = "local" /\ Change
  BY DEF EvictToS3Only
<1>3. EmailsOk' /\ \A d \in Emails : email'[d] # "gone" => email[d] # "gone"
  BY <1>1, <1>2 DEF RestoreInv, EmailsOk
<1>4. logs' \in [Emails -> [completed : Nat, failed : Nat]]
  BY <1>1 DEF RestoreInv, TargetOk
<1> QED BY <1>1, <1>2, <1>3, <1>4, ChangeBounds, ArchiveKeeps

LEMMA RemoveFileKeeps ==
  ASSUME RestoreInv, NEW e \in Emails, RemoveLocalFile(e)
  PROVE  RestoreInv'
<1>1. UNCHANGED <<entries, curBytes, disk, reader, mailbox, lost, starts, faults, email, object, target, changes, logs>>
  BY DEF RemoveLocalFile, Others, cacheVars
<1>2. EmailsOk' /\ \A d \in Emails : email'[d] # "gone" => email[d] # "gone"
  BY <1>1 DEF RestoreInv, EmailsOk, RemoveLocalFile
<1>3. logs' \in [Emails -> [completed : Nat, failed : Nat]]
  BY <1>1 DEF RestoreInv, TargetOk
<1> QED BY <1>1, <1>2, <1>3, SameBounds, ArchiveKeeps

LEMMA ObjectKeeps ==
  ASSUME RestoreInv, NEW e \in Emails, DeleteObject(e)
  PROVE  RestoreInv'
<1>1. UNCHANGED <<entries, curBytes, disk, reader, mailbox, lost, starts, faults, email, file, target, logs>>
  BY DEF DeleteObject, Others, cacheVars
<1>2. EmailsOk' /\ \A d \in Emails : email'[d] # "gone" => email[d] # "gone"
  BY <1>1 DEF RestoreInv, EmailsOk, DeleteObject
<1>3. logs' \in [Emails -> [completed : Nat, failed : Nat]] /\ Change
  BY <1>1 DEF RestoreInv, TargetOk, DeleteObject
<1> QED BY <1>1, <1>2, <1>3, ChangeBounds, ArchiveKeeps

LEMMA RowDeletionKeeps ==
  ASSUME RestoreInv, NEW e \in Emails, DeleteEmailRow(e)
  PROVE  RestoreInv'
<1>1. UNCHANGED <<entries, curBytes, disk, reader, mailbox, lost, starts, faults, file, object, target>>
  BY DEF DeleteEmailRow, Others, cacheVars
<1>2. email' = [email EXCEPT ![e] = "gone"] /\ logs' = [logs EXCEPT ![e] = NoLogs] /\ Change
  BY DEF DeleteEmailRow
<1>3. EmailsOk'
  BY <1>1, <1>2 DEF RestoreInv, EmailsOk
<1>4. logs' \in [Emails -> [completed : Nat, failed : Nat]]
  BY <1>2 DEF RestoreInv, TargetOk, NoLogs
<1>5. \A d \in Emails : email'[d] # "gone" => email[d] # "gone" /\ logs'[d] = logs[d]
  BY <1>2 DEF RestoreInv, EmailsOk, TargetOk
<1> QED BY <1>1, <1>2, <1>3, <1>4, <1>5, ChangeBounds, ArchiveKeeps

LEMMA AccountDeletionKeeps ==
  ASSUME RestoreInv, DeleteAccount
  PROVE  RestoreInv'
<1>1. UNCHANGED <<entries, curBytes, disk, reader, mailbox, lost, starts, faults, email, file, object>>
  BY DEF DeleteAccount, Others, cacheVars
<1>2. target' = FALSE /\ logs' = [e \in Emails |-> NoLogs] /\ Change
  BY DEF DeleteAccount
<1>3. EmailsOk'
  BY <1>1, <1>2 DEF RestoreInv, EmailsOk
<1>4. logs' \in [Emails -> [completed : Nat, failed : Nat]]
  BY <1>2 DEF NoLogs
<1> QED BY <1>1, <1>2, <1>3, <1>4, ChangeBounds, ArchiveKeeps

LEMMA StartsKeeps ==
  ASSUME RestoreInv, NEW r \in Readers, NEW list \in Seq(Emails), Starts(r, list)
  PROVE  RestoreInv'
<1>1. UNCHANGED <<email, file, object, target, mailbox, logs, lost, entries, curBytes, disk, changes, faults>>
  BY DEF Starts, emailVars, cacheVars, targetVars
<1>2. BoundsOk'
  BY <1>1, RestoreAssumption DEF RestoreInv, BoundsOk, Starts
<1>3. PICK rd : rd = [Idle EXCEPT !.pc = "row", !.todo = list]
  OBVIOUS
<1>4. reader' = [reader EXCEPT ![r] = rd] /\ list # <<>> /\ reader[r].pc = "idle"
  BY <1>3 DEF Starts, Sits
<1>5. ReaderOk(rd, r) /\ rd.pc = "row"
  BY <1>3, <1>4 DEF Idle, ReaderOk, ReaderType
<1>6. Quietly(r)
  BY <1>4, <1>5 DEF Quietly, Turn
<1> QED BY <1>1, <1>2, <1>6, LoadKeeps, SameCache

LEMMA RequestKeeps ==
  ASSUME RestoreInv,
         \/ \E r \in Batches, list \in Lists : StartRestore(r, list) \/ StartBulkRestore(r, list)
         \/ \E r \in Exports, list \in Lists : StartExport(r, list)
         \/ \E r \in Exports, e \in Emails :
                StartDownload(r, e) \/ StartAttachment(r, e) \/ StartViewer(r, e)
  PROVE  RestoreInv'
<1>1. ASSUME NEW r \in Readers, NEW list \in Lists, Starts(r, list) PROVE RestoreInv'
  <2>1. list \in Seq(Emails)
    BY RestoreAssumption
  <2> QED BY <1>1, <2>1, StartsKeeps
<1>2. ASSUME NEW r \in Readers, NEW e \in Emails, Starts(r, <<e>>) PROVE RestoreInv'
  <2>1. <<e>> \in Seq(Emails)
    OBVIOUS
  <2> QED BY <1>2, <2>1, StartsKeeps
<1>3. Batches \subseteq Readers /\ Exports \subseteq Readers
  BY DEF Readers
<1> QED
  BY <1>1, <1>2, <1>3
  DEF StartRestore, StartBulkRestore, StartExport, StartDownload, StartAttachment, StartViewer

------------------------------------------------------------------------------
(* Deliveries and their records.                                           *)
\* A delivery or record: what the target and the histories hold afterwards.
LEMMA DeliveryKeeps ==
  ASSUME RestoreInv, ReadersOk', TargetOk', BoundsOk',
         UNCHANGED <<email, file, object, target, entries, curBytes, disk>>,
         \A e \in Emails : target /\ email[e] # "gone" =>
             mailbox'[e] = logs'[e].completed + lost'[e] + Flying(e)'
  PROVE  RestoreInv'
<1>1. CacheOk'
  BY SameCache
<1>2. EmailsOk'
  BY DEF RestoreInv, EmailsOk
<1>3. CopiesAccounted'
  BY DEF CopiesAccounted, Flying
<1> QED BY <1>1, <1>2, <1>3 DEF RestoreInv

LEMMA Accounted ==
  ASSUME RestoreInv, NEW e \in Emails, target, email[e] # "gone"
  PROVE  mailbox[e] = logs[e].completed + lost[e] + Flying(e)
<1>1. CopiesAccounted
  BY DEF RestoreInv
<1> QED BY <1>1 DEF CopiesAccounted, Flying

LEMMA Delivering ==
  ASSUME RestoreInv, NEW r \in Readers, reader[r].pc \in {"append", "smtp"},
         Outgoing, BoundsOk'
  PROVE  /\ mailbox' = mailbox /\ lost' = lost /\ Quietly(r) => RestoreInv'
         /\ Delivered(At(r)) /\ lost' = lost /\ Concludes(r, "completed") => RestoreInv'
         /\ Delivered(At(r)) /\ Lost(At(r)) /\ Quietly(r) => RestoreInv'
<1>1. UNCHANGED <<email, file, object, target, entries, curBytes, disk, logs>>
  BY DEF Outgoing, emailVars, cacheVars
<1>2. ReadersOk /\ TargetOk /\ r \in Batches
  BY DEF RestoreInv, ReadersOk, ReaderOk
<1>3. PICK d \in Emails : d = At(r)
  BY <1>2, ItemHeld
<1>4. CASE mailbox' = mailbox /\ lost' = lost /\ Quietly(r)
  <2>1. CacheOk'
    BY <1>1, SameCache
  <2> QED BY <1>1, <1>4, <2>1, LoadKeeps
<1>5. CASE Delivered(d) /\ lost' = lost /\ Concludes(r, "completed")
  <2>1. mailbox' = [mailbox EXCEPT ![d] = mailbox[d] + 1]
    BY <1>5 DEF Delivered
  <2>2. PICK rd : /\ ReaderOk(rd, r) /\ reader' = [reader EXCEPT ![r] = rd] /\ rd.pc = "record"
                  /\ rd.outcome = "completed" /\ Head(rd.todo) = d
    BY <1>2, <1>3, <1>5, Concluded
  <2>3. ReadersOk'
    BY <1>2, <2>2, StepKeeps
  <2>4. TargetOk'
    BY <1>1, <1>2, <1>5, <2>1 DEF TargetOk
  <2>5. ASSUME NEW e \in Emails, target, email[e] # "gone"
        PROVE  mailbox'[e] = logs'[e].completed + lost'[e] + Flying(e)'
    <3>1. ~Carries(reader[r], e) /\ (Carries(rd, e) <=> e = d)
      BY <2>2 DEF Carries
    <3>2. Flying(e) \in Nat /\ Flying(e)' = IF e = d THEN Flying(e) + 1 ELSE Flying(e)
      BY <1>2, <2>2, <2>3, <3>1, FlightStep
    <3>3. mailbox[e] = logs[e].completed + lost[e] + Flying(e)
      BY <2>5, Accounted
    <3>4. mailbox[e] \in Nat /\ logs[e].completed \in Nat /\ lost[e] \in Nat
      BY <1>2 DEF TargetOk
    <3>5. mailbox'[e] = IF e = d THEN mailbox[e] + 1 ELSE mailbox[e]
      BY <1>2, <2>1 DEF TargetOk
    <3>6. logs'[e].completed = logs[e].completed /\ lost'[e] = lost[e]
      BY <1>1, <1>5
    <3>7. CASE e = d
      BY <3>2, <3>3, <3>4, <3>5, <3>6, <3>7
    <3>8. CASE e # d
      BY <3>2, <3>3, <3>4, <3>5, <3>6, <3>8
    <3> QED BY <3>7, <3>8
  <2> QED BY <1>1, <2>3, <2>4, <2>5, DeliveryKeeps
<1>6. CASE Delivered(d) /\ Lost(d) /\ Quietly(r)
  <2>1. /\ mailbox' = [mailbox EXCEPT ![d] = mailbox[d] + 1]
        /\ lost' = [lost EXCEPT ![d] = lost[d] + 1]
    BY <1>6 DEF Delivered, Lost
  <2>2. ReadersOk' /\ \A e : Flying(e)' = Flying(e)
    BY <1>6, QuietStepKeeps
  <2>3. TargetOk'
    BY <1>1, <1>2, <2>1 DEF TargetOk
  <2>4. ASSUME NEW e \in Emails, target, email[e] # "gone"
        PROVE  mailbox'[e] = logs'[e].completed + lost'[e] + Flying(e)'
    <3>1. mailbox[e] = logs[e].completed + lost[e] + Flying(e)
      BY <2>4, Accounted
    <3>2. mailbox[e] \in Nat /\ logs[e].completed \in Nat /\ lost[e] \in Nat /\ Flying(e) \in Nat
      BY <1>2, FlightIs DEF TargetOk
    <3>3. /\ mailbox'[e] = IF e = d THEN mailbox[e] + 1 ELSE mailbox[e]
          /\ lost'[e] = IF e = d THEN lost[e] + 1 ELSE lost[e]
      BY <1>2, <2>1 DEF TargetOk
    <3> QED BY <1>1, <2>2, <3>1, <3>2, <3>3
  <2> QED BY <1>1, <2>2, <2>3, <2>4, DeliveryKeeps
<1> QED BY <1>3, <1>4, <1>5, <1>6

LEMMA DeliversKeep ==
  ASSUME RestoreInv, NEW r \in Readers,
         \/ AuthFails(r) \/ AppendAccepted(r) \/ AppendRefused(r) \/ AppendAnswerLost(r)
         \/ SMTPAccepted(r) \/ SMTPRefused(r) \/ SMTPAnswerLost(r)
  PROVE  RestoreInv'
<1>1. ReadersOk /\ reader[r].pc \in {"append", "smtp"} /\ Outgoing
  BY DEF RestoreInv, Sits, AuthFails, AppendAccepted, AppendRefused, AppendAnswerLost,
         SMTPAccepted, SMTPRefused, SMTPAnswerLost
<1>2. starts' = starts /\ changes' = changes
  BY <1>1 DEF Outgoing, emailVars
<1>3. Fault \/ faults' = faults
  BY DEF AuthFails, AppendAccepted, AppendRefused, AppendAnswerLost,
         SMTPAccepted, SMTPRefused, SMTPAnswerLost
<1>4. BoundsOk'
  BY <1>2, <1>3, FaultBounds, SameBounds
<1>5. r \in Batches /\ reader[r].content # "none"
  BY <1>1 DEF ReadersOk, ReaderOk
<1>6. Concludes(r, "failed") => Quietly(r)
  <2>1. SUFFICES ASSUME Concludes(r, "failed") PROVE Quietly(r)
    OBVIOUS
  <2>2. PICK rd : /\ ReaderOk(rd, r) /\ reader' = [reader EXCEPT ![r] = rd] /\ rd.pc = "record"
                  /\ rd.outcome = "failed"
    BY <1>1, <1>5, <2>1, Concluded
  <2> QED BY <1>1, <2>2 DEF Quietly, Turn
<1>7. Goes(r, "smtp") => Quietly(r)
  <2>1. Reaches(r, "smtp", reader[r].content)
    BY <1>5 DEF Reaches
  <2> QED BY <1>1, <2>1, GoesQuietly
<1>8. \/ mailbox' = mailbox /\ lost' = lost /\ (Concludes(r, "failed") \/ Goes(r, "smtp"))
      \/ Delivered(At(r)) /\ lost' = lost /\ Concludes(r, "completed")
      \/ Delivered(At(r)) /\ Lost(At(r)) /\ (Concludes(r, "failed") \/ Goes(r, "smtp"))
  BY DEF AuthFails, AppendAccepted, AppendRefused, AppendAnswerLost,
         SMTPAccepted, SMTPRefused, SMTPAnswerLost
<1> QED BY <1>1, <1>4, <1>6, <1>7, <1>8, Delivering

\* The outcome a reader has recorded, or failed to.
LEMMA RecordsIs ==
  ASSUME RestoreInv, NEW r \in Readers, reader[r].pc = "record", Advances(r)
  PROVE  /\ ReadersOk' /\ At(r) \in Emails /\ reader[r].outcome \in {"completed", "failed"}
         /\ \A e : /\ Flying(e) \in Nat
                   /\ Flying(e)' = IF e = At(r) /\ reader[r].outcome = "completed"
                                   THEN Flying(e) - 1 ELSE Flying(e)
<1>1. ReadersOk
  BY DEF RestoreInv
<1>2. At(r) \in Emails /\ reader[r].outcome \in {"completed", "failed"}
  BY <1>1, ItemHeld DEF ReaderOk, ReaderType
<1>3. PICK rd : rd = Advanced(r)
  OBVIOUS
<1>4. ReaderOk(rd, r) /\ rd.pc # "record" /\ reader' = [reader EXCEPT ![r] = rd]
  BY <1>1, <1>3, AdvancedIs DEF Advances
<1>5. ReadersOk'
  BY <1>1, <1>4, StepKeeps
<1>6. ASSUME NEW e
      PROVE  /\ Flying(e) \in Nat
             /\ Flying(e)' = IF e = At(r) /\ reader[r].outcome = "completed"
                             THEN Flying(e) - 1 ELSE Flying(e)
  <2>1. ~Carries(rd, e) /\ (Carries(reader[r], e) <=> e = At(r) /\ reader[r].outcome = "completed")
    BY <1>4 DEF Carries, At
  <2> QED BY <1>1, <1>4, <1>5, <2>1, FlightStep
<1> QED BY <1>2, <1>5, <1>6

LEMMA RecordKeeps ==
  ASSUME RestoreInv, NEW r \in Readers, Record(r)
  PROVE  RestoreInv'
<1>1. UNCHANGED <<email, file, object, target, entries, curBytes, disk, mailbox, lost, starts, changes, faults>>
  BY DEF Record, emailVars, cacheVars
<1>2. reader[r].pc = "record" /\ Advances(r)
  BY DEF Record, Sits
<1>3. PICK d \in Emails, outcome \in {"completed", "failed"} : d = At(r) /\ outcome = reader[r].outcome
  BY <1>2, RecordsIs
<1>4. /\ ReadersOk'
      /\ \A e : /\ Flying(e) \in Nat
                /\ Flying(e)' = IF e = d /\ outcome = "completed" THEN Flying(e) - 1 ELSE Flying(e)
  BY <1>2, <1>3, RecordsIs
<1>5. BoundsOk' /\ TargetOk
  BY <1>1, SameBounds DEF RestoreInv
<1>6. logs' = IF email[d] = "gone" \/ ~target THEN logs
              ELSE [logs EXCEPT ![d] = [logs[d] EXCEPT ![outcome] = logs[d][outcome] + 1]]
  BY <1>3 DEF Record
<1>7. /\ logs[d] \in [completed : Nat, failed : Nat] /\ logs[d][outcome] \in Nat
      /\ logs[d].completed \in Nat
  BY <1>5 DEF TargetOk
<1>8. PICK row : row = [logs[d] EXCEPT ![outcome] = logs[d][outcome] + 1]
  OBVIOUS
<1>9. /\ row \in [completed : Nat, failed : Nat]
      /\ row.completed = IF outcome = "completed" THEN logs[d].completed + 1 ELSE logs[d].completed
  BY <1>7, <1>8
<1>10. logs' = IF email[d] = "gone" \/ ~target THEN logs ELSE [logs EXCEPT ![d] = row]
  BY <1>6, <1>8
<1>11. TargetOk'
  BY <1>1, <1>5, <1>9, <1>10 DEF TargetOk
<1>12. ASSUME NEW e \in Emails, target, email[e] # "gone"
       PROVE  mailbox'[e] = logs'[e].completed + lost'[e] + Flying(e)'
  <2>1. mailbox[e] = logs[e].completed + lost[e] + Flying(e)
    BY <1>12, Accounted
  <2>2. logs[e].completed \in Nat /\ lost[e] \in Nat /\ Flying(e) \in Nat
    BY <1>4, <1>5 DEF TargetOk
  <2>3. mailbox'[e] = mailbox[e] /\ lost'[e] = lost[e]
    BY <1>1
  <2>4. CASE e = d
    <3>1. logs'[e] = row
      BY <1>5, <1>10, <1>12, <2>4 DEF TargetOk
    <3>2. CASE outcome = "completed"
      <4>1. Flying(e)' = Flying(e) - 1
        BY <1>4, <2>4, <3>2
      <4>2. logs'[e].completed = logs[e].completed + 1
        BY <1>9, <2>4, <3>1, <3>2
      <4> QED BY <2>1, <2>2, <2>3, <4>1, <4>2
    <3>3. CASE outcome # "completed"
      BY <1>4, <1>9, <2>1, <2>2, <2>3, <2>4, <3>1, <3>3
    <3> QED BY <3>2, <3>3
  <2>5. CASE e # d
    <3>1. logs'[e] = logs[e]
      BY <1>5, <1>10, <2>5 DEF TargetOk
    <3> QED BY <1>4, <2>1, <2>2, <2>3, <2>5, <3>1
  <2> QED BY <2>4, <2>5
<1> QED BY <1>1, <1>4, <1>5, <1>11, <1>12, DeliveryKeeps

LEMMA RecordFailsKeeps ==
  ASSUME RestoreInv, NEW r \in Readers, RecordFails(r)
  PROVE  RestoreInv'
<1>1. UNCHANGED <<email, file, object, target, entries, curBytes, disk, mailbox, logs, starts, changes>>
  BY DEF RecordFails, emailVars, cacheVars
<1>2. reader[r].pc = "record" /\ Advances(r) /\ Fault
  BY DEF RecordFails, Sits
<1>3. PICK d \in Emails, outcome \in {"completed", "failed"} : d = At(r) /\ outcome = reader[r].outcome
  BY <1>2, RecordsIs
<1>4. /\ ReadersOk'
      /\ \A e : /\ Flying(e) \in Nat
                /\ Flying(e)' = IF e = d /\ outcome = "completed" THEN Flying(e) - 1 ELSE Flying(e)
  BY <1>2, <1>3, RecordsIs
<1>5. BoundsOk' /\ TargetOk
  BY <1>1, <1>2, FaultBounds DEF RestoreInv
<1>6. lost' = IF outcome = "completed" THEN [lost EXCEPT ![d] = lost[d] + 1] ELSE lost
  BY <1>3 DEF RecordFails, Lost
<1>7. TargetOk'
  BY <1>1, <1>5, <1>6 DEF TargetOk
<1>8. ASSUME NEW e \in Emails, target, email[e] # "gone"
      PROVE  mailbox'[e] = logs'[e].completed + lost'[e] + Flying(e)'
  <2>1. mailbox[e] = logs[e].completed + lost[e] + Flying(e)
    BY <1>8, Accounted
  <2>2. logs[e].completed \in Nat /\ lost[e] \in Nat /\ Flying(e) \in Nat
    BY <1>4, <1>5 DEF TargetOk
  <2>3. mailbox'[e] = mailbox[e] /\ logs'[e].completed = logs[e].completed
    BY <1>1
  <2>4. lost'[e] = IF e = d /\ outcome = "completed" THEN lost[e] + 1 ELSE lost[e]
    BY <1>5, <1>6 DEF TargetOk
  <2>5. CASE e = d /\ outcome = "completed"
    <3>1. Flying(e)' = Flying(e) - 1 /\ lost'[e] = lost[e] + 1
      BY <1>4, <2>4, <2>5
    <3>2. PICK f \in Nat, l \in Nat, c \in Nat :
              f = Flying(e) /\ l = lost[e] /\ c = logs[e].completed
      BY <2>2
    <3>3. c + l + f = c + (l + 1) + (f - 1)
      OBVIOUS
    <3> QED BY <2>1, <2>3, <3>1, <3>2, <3>3
  <2>6. CASE ~(e = d /\ outcome = "completed")
    BY <1>4, <2>1, <2>2, <2>3, <2>4, <2>6
  <2> QED BY <2>5, <2>6
<1> QED BY <1>1, <1>4, <1>5, <1>7, <1>8, DeliveryKeeps

------------------------------------------------------------------------------
(* The process ends.                                                       *)
LEMMA CrashKeeps ==
  ASSUME RestoreInv, Crash
  PROVE  RestoreInv'
<1>1. UNCHANGED <<email, file, object, target, mailbox, logs, starts, changes>> /\ Fault
  BY DEF Crash, emailVars
<1>2. /\ reader' = [r \in Readers |-> Idle]
      /\ entries' = <<>> /\ curBytes' = 0 /\ disk' = [e \in Emails |-> "none"]
      /\ lost' = [e \in Emails |-> lost[e] + Flying(e)]
  BY DEF Crash, Flying
<1>3. ReadersOk /\ TargetOk
  BY DEF RestoreInv
<1>4. BoundsOk'
  BY <1>1, FaultBounds
<1>5. CacheOk'
  <2>1. <<>> \in Seq(Emails) /\ IsInjective(<<>>)
    BY DEF IsInjective
  <2>2. Bytes(<<>>) = 0 /\ MaxBytes \in Nat
    BY BytesOne, RestoreAssumption
  <2> QED BY <1>2, <2>1, <2>2 DEF CacheOk
<1>6. Idle \in ReaderType /\ \A r : ReaderOk(Idle, r)
  BY DEF Idle, ReaderOk, ReaderType
<1>7. ReadersOk'
  <2>1. reader' \in [Readers -> ReaderType] /\ \A r \in Readers : ReaderOk(reader'[r], r)
    BY <1>2, <1>6
  <2> QED BY <2>1 DEF ReadersOk, ReaderOk, ReaderType, Readers
<1>8. ASSUME NEW e PROVE Flying(e) \in Nat /\ Flying(e)' = 0
  <2>1. InFlight(e)' = {r \in Readers : Carries(reader'[r], e)}
    BY DEF InFlight, Sits, At, Carries
  <2>2. \A r \in Readers : reader'[r].pc = "idle"
    BY <1>2 DEF Idle
  <2>3. InFlight(e)' = {}
    BY <2>1, <2>2 DEF Carries
  <2>4. Flying(e)' = Cardinality(InFlight(e)')
    BY DEF Flying
  <2> QED BY <1>3, <2>3, <2>4, FlightIs, FS_EmptySet
<1>9. TargetOk'
  BY <1>1, <1>2, <1>3, <1>8 DEF TargetOk
<1>10. EmailsOk'
  BY <1>1 DEF RestoreInv, EmailsOk
<1>11. CopiesAccounted'
  <2>1. ASSUME NEW e \in Emails, target, email[e] # "gone"
        PROVE  mailbox'[e] = logs'[e].completed + lost'[e] + Flying(e)'
    <3>1. mailbox[e] = logs[e].completed + lost[e] + Flying(e)
      BY <2>1, Accounted
    <3>2. logs[e].completed \in Nat /\ lost[e] \in Nat /\ Flying(e) \in Nat
      BY <1>3, <1>8 DEF TargetOk
    <3>3. mailbox'[e] = mailbox[e] /\ logs'[e] = logs[e] /\ lost'[e] = lost[e] + Flying(e) /\ Flying(e)' = 0
      BY <1>1, <1>2, <1>8
    <3> QED BY <3>1, <3>2, <3>3
  <2> QED BY <1>1, <2>1 DEF CopiesAccounted, Flying
<1> QED BY <1>4, <1>5, <1>7, <1>9, <1>10, <1>11 DEF RestoreInv

------------------------------------------------------------------------------
LEMMA RestoreInitInv == ASSUME RestoreInit PROVE RestoreInv
<1>1. Idle \in ReaderType /\ \A r : ReaderOk(Idle, r)
  BY DEF Idle, ReaderOk, ReaderType
<1>2. reader = [r \in Readers |-> Idle]
  BY DEF RestoreInit
<1>3. ReadersOk
  BY <1>1, <1>2 DEF ReadersOk
<1>4. EmailsOk
  BY RestoreAssumption DEF RestoreInit, EmailsOk
<1>5. CacheOk
  <2>1. <<>> \in Seq(Emails) /\ IsInjective(<<>>)
    BY DEF IsInjective
  <2>2. Bytes(<<>>) = 0 /\ MaxBytes \in Nat
    BY BytesOne, RestoreAssumption
  <2>3. entries = <<>> /\ curBytes = 0 /\ disk = [e \in Emails |-> "none"]
    BY DEF RestoreInit
  <2> QED BY <2>1, <2>2, <2>3 DEF CacheOk
<1>6. TargetOk /\ BoundsOk
  BY RestoreAssumption DEF RestoreInit, TargetOk, BoundsOk, NoLogs
<1>7. CopiesAccounted
  <2>1. ASSUME NEW e \in Emails PROVE Flying(e) = 0
    <3>1. InFlight(e) = {}
      BY <1>2, <1>3, FlightIs DEF Idle, Carries
    <3> QED BY <1>3, <3>1, FlightIs, FS_EmptySet
  <2>2. \A e \in Emails : mailbox[e] = 0 /\ logs[e].completed = 0 /\ lost[e] = 0
    BY DEF RestoreInit, NoLogs
  <2> QED BY <2>1, <2>2 DEF CopiesAccounted, Flying
<1> QED BY <1>3, <1>4, <1>5, <1>6, <1>7 DEF RestoreInv

LEMMA RestoreStutterKeeps == ASSUME RestoreInv, UNCHANGED restoreVars PROVE RestoreInv'
<1>1. UNCHANGED <<email, file, object, target, changes, entries, curBytes, disk, reader, mailbox, logs, lost,
                  starts, faults>>
  BY DEF restoreVars, emailVars, cacheVars, targetVars
<1>2. EmailsOk' /\ logs' \in [Emails -> [completed : Nat, failed : Nat]]
  BY <1>1 DEF RestoreInv, EmailsOk, TargetOk
<1> QED BY <1>1, <1>2, SameBounds, ArchiveKeeps

THEOREM RestoreInvariant == RestoreSpec => []RestoreInv
<1>1. RestoreInv /\ [RestoreNext]_restoreVars => RestoreInv'
  <2> SUFFICES ASSUME RestoreInv, [RestoreNext]_restoreVars PROVE RestoreInv'
    OBVIOUS
  <2>1. ASSUME NEW e \in Emails, EvictToS3Only(e) \/ RemoveLocalFile(e) \/ DeleteObject(e) \/ DeleteEmailRow(e)
        PROVE  RestoreInv'
    BY <2>1, RetentionKeeps, RemoveFileKeeps, ObjectKeeps, RowDeletionKeeps
  <2>2. ASSUME NEW r \in Readers, Loads(r) PROVE RestoreInv'
    BY <2>2, RowKeeps, LocalKeeps, LookupKeeps, CachedKeeps, ForgetKeeps, DownloadKeeps, DownloadFailsKeeps,
       PutOpenKeeps, PutWriteKeeps, PutFailsKeeps, EnterKeeps DEF Loads
  <2>3. ASSUME NEW r \in Readers, Delivers(r) PROVE RestoreInv'
    BY <2>3, DeliversKeep, RecordKeeps, RecordFailsKeeps, EntryKeeps DEF Delivers
  <2> QED BY <2>1, <2>2, <2>3, AccountDeletionKeeps, RequestKeeps, CrashKeeps, RestoreStutterKeeps DEF RestoreNext
<1> QED BY RestoreInitInv, <1>1, PTL DEF RestoreSpec

(* Types of Restore: the tables, the cache's list without repetition, and  *)
(* readers that hold an item exactly while they work.                      *)
THEOREM RestoresTypeCorrect == RestoreSpec => []TypeOK
<1>1. RestoreInv => TypeOK
  BY RestoreInvIs
<1> QED BY <1>1, RestoreInvariant, PTL

(* Read cache (s3store/cache.go Put, removeLocked, evictLocked): its byte   *)
(* count is the sum of the entries it tracks and within the budget.        *)
THEOREM CacheKeepsBudget == RestoreSpec => []BudgetKept
<1>1. RestoreInv => BudgetKept
  BY RestoreInvIs
<1> QED BY <1>1, RestoreInvariant, PTL

(* Restore (restore.go RestoreOne): every copy in the target mailbox is     *)
(* accounted for by a "completed" row, an outcome about to be written or a  *)
(* fault that lost the answer or the record.                               *)
THEOREM EveryCopyAccounted == RestoreSpec => []CopiesAccounted
<1>1. RestoreInv => CopiesAccounted
  BY RestoreInvIs
<1> QED BY <1>1, RestoreInvariant, PTL
=============================================================================

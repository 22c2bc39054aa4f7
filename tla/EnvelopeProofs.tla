-------------------------- MODULE EnvelopeProofs ---------------------------
(***************************************************************************)
(* Theorems about what the library seals and signs (Contexts, Envelope):   *)
(* for any users, segments, aads and infos, and any number of calls.       *)
(*                                                                         *)
(* In order: a context's text tells its segments, and a binding tells its  *)
(* context and its aad; both halves of a double signature come from one    *)
(* call; every message on record has the parts that its call made          *)
(* (OpenInv); so what opens, whatever parts are put together, was sealed   *)
(* in one call with the same key, context, aad and info, and what was      *)
(* sealed opens.                                                           *)
(***************************************************************************)
EXTENDS Envelope, TLAPS

-----------------------------------------------------------------------------
(***************************************************************************)
(* Contexts and bindings are unambiguous.                                  *)
(***************************************************************************)
\* Sequences: what equality, concatenation and membership come down to.
LEMMA SeqEqual ==
    ASSUME NEW S, NEW s \in Seq(S), NEW t \in Seq(S), Len(s) = Len(t),
           \A i \in 1 .. Len(s) : s[i] = t[i]
    PROVE  s = t
<1>1. DOMAIN s = 1 .. Len(s) /\ DOMAIN t = 1 .. Len(t)
    OBVIOUS
<1>2. s = [i \in DOMAIN s |-> s[i]] /\ t = [i \in DOMAIN t |-> t[i]]
    OBVIOUS
<1> QED
    BY <1>1, <1>2

LEMMA ConcatProperties ==
    ASSUME NEW S, NEW s \in Seq(S), NEW t \in Seq(S)
    PROVE  /\ s \o t \in Seq(S)
           /\ Len(s \o t) = Len(s) + Len(t)
           /\ \A i \in 1 .. Len(s) + Len(t) :
                 (s \o t)[i] = IF i <= Len(s) THEN s[i] ELSE t[i - Len(s)]
    OBVIOUS

\* x is u, a separator and s, byte by byte.
Parts(x, u, sep, s) ==
    /\ x \in Seq(Nat)
    /\ Len(x) = Len(u) + 1 + Len(s) /\ Len(u) \in Nat /\ Len(s) \in Nat
    /\ \A i \in 1 .. Len(u) : x[i] = u[i]
    /\ x[Len(u) + 1] = sep
    /\ \A j \in 1 .. Len(s) : x[Len(u) + 1 + j] = s[j]

Without(s, sep) == \A k \in 1 .. Len(s) : s[k] # sep

LEMMA ConcatParts ==
    ASSUME NEW u \in Seq(Nat), NEW s \in Seq(Nat), NEW sep \in Nat
    PROVE  Parts(u \o <<sep>> \o s, u, sep, s)
<1>0. Len(u) \in Nat /\ Len(s) \in Nat
    OBVIOUS
<1>1. <<sep>> \in Seq(Nat) /\ Len(<<sep>>) = 1 /\ <<sep>>[1] = sep
    OBVIOUS
<1>2. /\ u \o <<sep>> \in Seq(Nat) /\ Len(u \o <<sep>>) = Len(u) + 1
      /\ \A i \in 1 .. Len(u) + 1 :
            (u \o <<sep>>)[i] = IF i <= Len(u) THEN u[i] ELSE <<sep>>[i - Len(u)]
    BY <1>1, ConcatProperties
<1>3. (\A i \in 1 .. Len(u) : (u \o <<sep>>)[i] = u[i]) /\ (u \o <<sep>>)[Len(u) + 1] = sep
    BY <1>0, <1>1, <1>2
<1> DEFINE v == u \o <<sep>>
<1>4. v \in Seq(Nat) /\ Len(v) = Len(u) + 1
    BY <1>2
<1> HIDE DEF v
<1>5. /\ v \o s \in Seq(Nat) /\ Len(v \o s) = Len(v) + Len(s)
      /\ \A i \in 1 .. Len(v) + Len(s) :
            (v \o s)[i] = IF i <= Len(v) THEN v[i] ELSE s[i - Len(v)]
    BY <1>4, ConcatProperties, ZenonT(30)
<1>l. Len(v \o s) = Len(u) + 1 + Len(s)
    BY <1>4, <1>5
<1>6. /\ \A i \in 1 .. Len(u) + 1 : (v \o s)[i] = v[i]
      /\ \A j \in 1 .. Len(s) : (v \o s)[Len(u) + 1 + j] = s[j]
  <2>1. \A i \in 1 .. Len(u) + 1 : i \in 1 .. Len(v) + Len(s) /\ i <= Len(v)
    BY <1>0, <1>4
  <2>2. \A j \in 1 .. Len(s) : /\ Len(u) + 1 + j \in 1 .. Len(v) + Len(s)
                              /\ ~(Len(u) + 1 + j <= Len(v))
                              /\ Len(u) + 1 + j - Len(v) = j
    BY <1>0, <1>4
  <2>3. ASSUME NEW i \in 1 .. Len(u) + 1 PROVE (v \o s)[i] = v[i]
    <3>1. i \in 1 .. Len(v) + Len(s) /\ i <= Len(v)
      BY <2>1
    <3> QED
      BY ONLY <1>5, <3>1
  <2>4. ASSUME NEW j \in 1 .. Len(s) PROVE (v \o s)[Len(u) + 1 + j] = s[j]
    <3> DEFINE k == Len(u) + 1 + j
    <3>1. k \in 1 .. Len(v) + Len(s) /\ ~(k <= Len(v)) /\ k - Len(v) = j
      BY <2>2
    <3> HIDE DEF k
    <3>2. (v \o s)[k] = s[j]
      BY ONLY <1>5, <3>1
    <3> QED
      BY <3>2 DEF k
  <2> QED
    BY <2>3, <2>4, ZenonT(30)
<1>7. /\ \A i \in 1 .. Len(u) : (v \o s)[i] = u[i]
      /\ (v \o s)[Len(u) + 1] = sep
  <2>1. Len(u) + 1 \in 1 .. Len(u) + 1 /\ \A i \in 1 .. Len(u) : i \in 1 .. Len(u) + 1
    BY <1>0
  <2> QED
    BY <1>3, <1>6, <2>1 DEF v
<1> QED
    BY <1>0, <1>5, <1>l, <1>6, <1>7 DEF v, Parts

\* The place of a separator within a longer text.
LEMMA Within == \A m, k \in Nat : m < k => m + 1 \in 1 .. k
    OBVIOUS

LEMMA Offset ==
    \A a, b, c, d \in Nat : a + 1 + c = b + 1 + d /\ a < b =>
        b - a \in 1 .. c /\ a + 1 + (b - a) = b + 1
    OBVIOUS

\* Two ways to split a length at one separator are the same if neither is shorter.
LEMMA SameLengths ==
    ASSUME NEW a \in Nat, NEW b \in Nat, NEW c \in Nat, NEW d \in Nat,
           a + 1 + c = b + 1 + d, ~(a < b), ~(b < a)
    PROVE  a = b /\ c = d
    OBVIOUS

\* A position in a joined text is before, at or after the separator.
LEMMA Position ==
    ASSUME NEW len, NEW a \in Nat, NEW k \in 1 .. len
    PROVE  k \in 1 .. a \/ k = a + 1 \/ k > a + 1
    OBVIOUS

\* The last separator is where it is, when what follows it cannot hold one.
LEMMA LastSlash ==
    ASSUME NEW u \in Seq(Nat), NEW v \in Seq(Nat), NEW s \in Seq(Nat), NEW t \in Seq(Nat),
           NEW sep \in Nat, NEW x, Parts(x, u, sep, s), Parts(x, v, sep, t),
           Without(s, sep), Without(t, sep)
    PROVE  u = v /\ s = t
<1>1. /\ Len(x) = Len(u) + 1 + Len(s) /\ Len(u) \in Nat /\ Len(s) \in Nat
      /\ \A i \in 1 .. Len(u) : x[i] = u[i]
      /\ x[Len(u) + 1] = sep
      /\ \A j \in 1 .. Len(s) : x[Len(u) + 1 + j] = s[j]
    BY DEF Parts
<1>2. /\ Len(x) = Len(v) + 1 + Len(t) /\ Len(v) \in Nat /\ Len(t) \in Nat
      /\ \A i \in 1 .. Len(v) : x[i] = v[i]
      /\ x[Len(v) + 1] = sep
      /\ \A j \in 1 .. Len(t) : x[Len(v) + 1 + j] = t[j]
    BY ZenonT(30) DEF Parts
<1>3. ~(Len(u) < Len(v))
  <2> SUFFICES ASSUME Len(u) < Len(v) PROVE FALSE
    OBVIOUS
  <2>0. /\ Len(u) \in Nat /\ Len(v) \in Nat /\ Len(s) \in Nat /\ Len(t) \in Nat
        /\ Len(u) + 1 + Len(s) = Len(v) + 1 + Len(t)
    BY <1>1, <1>2, ZenonT(30)
  <2>1. Len(v) - Len(u) \in 1 .. Len(s) /\ Len(u) + 1 + (Len(v) - Len(u)) = Len(v) + 1
    BY <2>0, Offset
  <2>2. s[Len(v) - Len(u)] = x[Len(v) + 1]
    BY <1>1, <2>1, ZenonT(30)
  <2> QED
    BY <1>2, <2>1, <2>2, ZenonT(30) DEF Without
<1>4. ~(Len(v) < Len(u))
  <2> SUFFICES ASSUME Len(v) < Len(u) PROVE FALSE
    OBVIOUS
  <2>0. /\ Len(v) \in Nat /\ Len(u) \in Nat /\ Len(t) \in Nat /\ Len(s) \in Nat
        /\ Len(v) + 1 + Len(t) = Len(u) + 1 + Len(s)
    BY <1>1, <1>2, ZenonT(30)
  <2>1. Len(u) - Len(v) \in 1 .. Len(t) /\ Len(v) + 1 + (Len(u) - Len(v)) = Len(u) + 1
    BY <2>0, Offset
  <2>2. t[Len(u) - Len(v)] = x[Len(u) + 1]
    BY <1>2, <2>1, ZenonT(30)
  <2> QED
    BY <1>1, <2>1, <2>2, ZenonT(30) DEF Without
<1>5. Len(u) = Len(v) /\ Len(s) = Len(t)
  <2>1. /\ Len(u) \in Nat /\ Len(v) \in Nat /\ Len(s) \in Nat /\ Len(t) \in Nat
        /\ Len(u) + 1 + Len(s) = Len(v) + 1 + Len(t)
    BY <1>1, <1>2, ZenonT(30)
  <2> QED
    BY <2>1, <1>3, <1>4, SameLengths
<1>6. \A i \in 1 .. Len(u) : u[i] = v[i]
    BY <1>1, <1>2, <1>5
<1>7. \A j \in 1 .. Len(s) : s[j] = t[j]
    BY <1>1, <1>2, <1>5
<1> QED
    BY <1>5, <1>6, <1>7, SeqEqual, ZenonT(30)

\* The first separator is where it is, when what precedes it cannot hold one.
LEMMA FirstNul ==
    ASSUME NEW u \in Seq(Nat), NEW v \in Seq(Nat), NEW s \in Seq(Nat), NEW t \in Seq(Nat),
           NEW sep \in Nat, NEW x, Parts(x, u, sep, s), Parts(x, v, sep, t),
           Without(u, sep), Without(v, sep)
    PROVE  u = v /\ s = t
<1>1. /\ Len(x) = Len(u) + 1 + Len(s) /\ Len(u) \in Nat /\ Len(s) \in Nat
      /\ \A i \in 1 .. Len(u) : x[i] = u[i]
      /\ x[Len(u) + 1] = sep
      /\ \A j \in 1 .. Len(s) : x[Len(u) + 1 + j] = s[j]
    BY DEF Parts
<1>2. /\ Len(x) = Len(v) + 1 + Len(t) /\ Len(v) \in Nat /\ Len(t) \in Nat
      /\ \A i \in 1 .. Len(v) : x[i] = v[i]
      /\ x[Len(v) + 1] = sep
      /\ \A j \in 1 .. Len(t) : x[Len(v) + 1 + j] = t[j]
    BY ZenonT(30) DEF Parts
<1>3. ~(Len(u) < Len(v))
  <2>1. Len(u) < Len(v) => Len(u) + 1 \in 1 .. Len(v)
    BY <1>1, <1>2, Within, ZenonT(30)
  <2> QED
    BY <1>1, <1>2, <2>1, ZenonT(30) DEF Without
<1>4. ~(Len(v) < Len(u))
  <2>1. Len(v) < Len(u) => Len(v) + 1 \in 1 .. Len(u)
    BY <1>1, <1>2, Within, ZenonT(30)
  <2> QED
    BY <1>1, <1>2, <2>1, ZenonT(30) DEF Without
<1>5. Len(u) = Len(v) /\ Len(s) = Len(t)
  <2>1. /\ Len(u) \in Nat /\ Len(v) \in Nat /\ Len(s) \in Nat /\ Len(t) \in Nat
        /\ Len(u) + 1 + Len(s) = Len(v) + 1 + Len(t)
    BY <1>1, <1>2, ZenonT(30)
  <2> QED
    BY <2>1, <1>3, <1>4, SameLengths
<1>6. \A i \in 1 .. Len(u) : u[i] = v[i]
    BY <1>1, <1>2, <1>5
<1>7. \A j \in 1 .. Len(s) : s[j] = t[j]
    BY <1>1, <1>2, <1>5
<1> QED
    BY <1>5, <1>6, <1>7, SeqEqual, ZenonT(30)

-----------------------------------------------------------------------------
\* A context is a segment, or a context already built with one more segment.
Root(c) == \E s \in Segments : validate_segment(s) /\ c.segs = <<s>> /\ c.text = s

Child(c, p, s) ==
    /\ validate_segment(s)
    /\ c.segs = Append(p.segs, s)
    /\ c.text = p.text \o <<Slash>> \o s

Grown(c) == Root(c) \/ \E p \in built : \E s \in Segments : Child(c, p, s)

\* A text of a context: label and bind_aad rely on its being free of 0 bytes.
Text(x) == x \in Seq(Nat) /\ x # << >> /\ Without(x, Nul)

ContextsInv ==
    /\ \A c \in built : Text(c.text) /\ Grown(c)
    /\ TextTellsSegments

LEMMA SegmentFacts ==
    ASSUME NEW s \in Segments, validate_segment(s)
    PROVE  Text(s) /\ Without(s, Slash)
    BY ContextsAssumption DEF validate_segment, Text, Without

\* What a separator and a text without 0 bytes add up to.
LEMMA JoinedText ==
    ASSUME NEW x, Text(x), NEW s \in Seq(Nat), Without(s, Nul)
    PROVE  Text(x \o <<Slash>> \o s) /\ Parts(x \o <<Slash>> \o s, x, Slash, s)
<1> DEFINE y == x \o <<Slash>> \o s
<1>1. Parts(y, x, Slash, s)
    BY ContextsAssumption, ConcatParts DEF Text
<1> HIDE DEF y
<1>2. y \in Seq(Nat) /\ Len(y) = Len(x) + 1 + Len(s) /\ Len(x) \in Nat /\ Len(s) \in Nat
    BY <1>1 DEF Parts
<1>3. ASSUME NEW k \in 1 .. Len(y) PROVE y[k] # Nul
  <2>1. CASE k \in 1 .. Len(x)
    BY <1>1, <2>1, ZenonT(30) DEF Parts, Text, Without
  <2>2. CASE k = Len(x) + 1
    BY <1>1, <2>2, ContextsAssumption DEF Parts
  <2>3. CASE k > Len(x) + 1
    <3>1. k - (Len(x) + 1) \in 1 .. Len(s) /\ Len(x) + 1 + (k - (Len(x) + 1)) = k
      BY <1>2, <2>3
    <3>2. y[k] = s[k - (Len(x) + 1)]
      BY <1>1, <3>1, ZenonT(30) DEF Parts
    <3> QED
      BY <3>1, <3>2 DEF Without
  <2>4. k \in 1 .. Len(x) \/ k = Len(x) + 1 \/ k > Len(x) + 1
    BY <1>2, Position, ZenonT(30)
  <2> QED
    BY <2>1, <2>2, <2>3, <2>4
<1>4. y # << >>
  <2>1. Len(y) # 0
    BY <1>2
  <2> QED
    BY <2>1
<1> QED
    BY <1>1, <1>2, <1>3, <1>4 DEF Text, Without, y

\* Two contexts with one text came from the same segments.
LEMMA OneOrigin ==
    ASSUME ContextsInv, NEW c, NEW d, Grown(c), Grown(d), c.text = d.text
    PROVE  c.segs = d.segs
<1>1. ASSUME NEW a, NEW b, Root(a), NEW p \in built, NEW s \in Segments, Child(b, p, s),
             a.text = b.text
      PROVE  FALSE
  <2>1. Without(a.text, Slash)
    BY <1>1, SegmentFacts DEF Root
  <2>2. Parts(b.text, p.text, Slash, s)
    BY <1>1, SegmentFacts, JoinedText, ZenonT(30) DEF ContextsInv, Child, Text
  <2>3. Len(p.text) + 1 \in 1 .. Len(b.text) /\ b.text[Len(p.text) + 1] = Slash
    BY <2>2 DEF Parts
  <2> QED
    BY <1>1, <2>1, <2>3 DEF Without
<1>2. CASE Root(c) /\ Root(d)
    BY <1>2, ZenonT(30) DEF Root
<1>3. ASSUME NEW p \in built, NEW s \in Segments, Child(c, p, s),
             NEW q \in built, NEW t \in Segments, Child(d, q, t)
      PROVE  c.segs = d.segs
  <2>1. Parts(c.text, p.text, Slash, s) /\ Parts(c.text, q.text, Slash, t)
    <3>1. Parts(c.text, p.text, Slash, s)
      BY <1>3, SegmentFacts, JoinedText, ZenonT(30) DEF ContextsInv, Child, Text
    <3>2. Parts(d.text, q.text, Slash, t)
      BY <1>3, SegmentFacts, JoinedText, ZenonT(30) DEF ContextsInv, Child, Text
    <3> QED
      BY <3>1, <3>2
  <2>2. /\ p.text \in Seq(Nat) /\ q.text \in Seq(Nat) /\ s \in Seq(Nat) /\ t \in Seq(Nat)
        /\ Slash \in Nat /\ Without(s, Slash) /\ Without(t, Slash)
    BY <1>3, SegmentFacts, ContextsAssumption, ZenonT(30) DEF ContextsInv, Child, Text
  <2>3. p.text = q.text /\ s = t
    BY <2>1, <2>2, LastSlash
  <2>4. p.segs = q.segs
    BY <2>3 DEF ContextsInv, TextTellsSegments
  <2> QED
    BY <1>3, <2>3, <2>4 DEF Child
<1> QED
    BY <1>1, <1>2, <1>3 DEF Grown

LEMMA NextContexts == ContextsInv /\ [BuildNext]_built => ContextsInv'
<1> SUFFICES ASSUME ContextsInv, [BuildNext]_built PROVE ContextsInv'
    OBVIOUS
<1>1. ASSUME NEW e, Grown(e), Text(e.text), built' = built \cup {e} PROVE ContextsInv'
  <2>1. \A c \in built' : Text(c.text) /\ Grown(c)
    BY <1>1 DEF ContextsInv
  <2>2. TextTellsSegments'
    <3> SUFFICES ASSUME NEW c \in built', NEW d \in built', c.text = d.text
                 PROVE  c.segs = d.segs
      BY DEF TextTellsSegments
    <3>1. Grown(c) /\ Grown(d)
      BY <2>1
    <3> QED
      BY <3>1, OneOrigin
  <2>3. \A c : Grown(c) => Grown(c)'
    BY <1>1, ZenonT(30) DEF Grown, Root, Child
  <2> QED
    BY <2>1, <2>2, <2>3 DEF ContextsInv
<1>2. ASSUME NEW seg \in Segments, Base(seg) PROVE ContextsInv'
  <2> DEFINE e == [segs |-> <<seg>>, text |-> base(seg)]
  <2>1. built' = built \cup {e} /\ base(seg) = seg /\ validate_segment(seg)
    BY <1>2 DEF Base, base
  <2>2. e.segs = <<seg>> /\ e.text = seg
    BY <2>1
  <2> HIDE DEF e
  <2>3. Text(e.text) /\ Grown(e)
    BY <2>1, <2>2, SegmentFacts DEF Grown, Root
  <2> QED
    BY <1>1, <2>1, <2>3
<1>3. ASSUME NEW seg \in Segments, NEW c \in built, Add(c, seg) PROVE ContextsInv'
  <2> DEFINE e == [segs |-> Append(c.segs, seg), text |-> add(c.text, seg)]
  <2>1. /\ built' = built \cup {e} /\ validate_segment(seg)
        /\ add(c.text, seg) = c.text \o <<Slash>> \o seg
    BY <1>3, ZenonT(30) DEF Add, add
  <2>2. e.segs = Append(c.segs, seg) /\ e.text = c.text \o <<Slash>> \o seg
    BY <2>1
  <2> HIDE DEF e
  <2>3. Grown(e)
    BY <2>1, <2>2, ZenonT(30) DEF Grown, Child
  <2>4. Text(e.text)
    BY <2>1, <2>2, SegmentFacts, JoinedText, ZenonT(30) DEF ContextsInv, Text
  <2> QED
    BY <1>1, <2>1, <2>3, <2>4, ZenonT(30)
<1>4. CASE UNCHANGED built
    BY <1>4 DEF ContextsInv, Grown, TextTellsSegments
<1> QED
    BY <1>2, <1>3, <1>4 DEF BuildNext

LEMMA BuiltContexts == BuildSpec => []ContextsInv
<1>1. BuildInit => ContextsInv
    BY DEF BuildInit, ContextsInv, TextTellsSegments
<1> QED
    BY <1>1, NextContexts, PTL DEF BuildSpec

(***************************************************************************)
(* Contexts built by base and add from different segments have different   *)
(* texts, whatever the segments and their lengths (context.rs:12-41).      *)
(***************************************************************************)
THEOREM ContextsAreUnambiguous == BuildSpec => []TextTellsSegments
<1>1. ContextsInv => TextTellsSegments
    BY DEF ContextsInv
<1> QED
    BY <1>1, BuiltContexts, PTL

-----------------------------------------------------------------------------
LEMMA VersionFacts ==
    /\ Version \in Seq(Nat) /\ Without(Version, Slash) /\ Without(Version, Nul)
    /\ Slash \in Nat /\ Nul \in Nat
<1>1. /\ Version \in Seq(Printable) /\ Printable \subseteq Nat
      /\ Slash \in Nat /\ Nul \in Nat /\ Slash \notin Printable /\ Nul \notin Printable
    BY ContextsAssumption
<1>2. Version \in Seq(Nat)
  <2>1. \A S, T : S \subseteq T => Seq(S) \subseteq Seq(T)
      OBVIOUS
  <2> QED
      BY <1>1, <2>1, ZenonT(30)
<1>3. \A k \in 1 .. Len(Version) : Version[k] \in Printable
    BY <1>1
<1> QED
    BY <1>1, <1>2, <1>3 DEF Without

\* A label is a text, and tells its context.
LEMMA LabelFacts ==
    ASSUME NEW x, Text(x)
    PROVE  Text(label(x)) /\ Parts(label(x), x, Slash, Version)
    BY VersionFacts, JoinedText DEF label

LEMMA LabelTellsText ==
    ASSUME NEW x, NEW y, Text(x), Text(y), label(x) = label(y)
    PROVE  x = y
<1>1. Parts(label(x), x, Slash, Version) /\ Parts(label(x), y, Slash, Version)
    BY LabelFacts
<1>2. x \in Seq(Nat) /\ y \in Seq(Nat)
    BY DEF Text
<1> QED
    BY <1>1, <1>2, VersionFacts, LastSlash

\* A label with an aad holds a 0 byte, a label alone does not.
LEMMA BareLabel ==
    ASSUME NEW x, NEW y, Text(x), Text(y), NEW b \in Seq(Nat)
    PROVE  label(x) # label(y) \o <<Nul>> \o b
<1> SUFFICES ASSUME label(x) = label(y) \o <<Nul>> \o b PROVE FALSE
    OBVIOUS
<1>1. Text(label(x)) /\ label(y) \in Seq(Nat)
    BY LabelFacts, ZenonT(30) DEF Text
<1>2. Parts(label(x), label(y), Nul, b)
    BY <1>1, VersionFacts, ConcatParts
<1>3. Len(label(y)) + 1 \in 1 .. Len(label(x)) /\ label(x)[Len(label(y)) + 1] = Nul
    BY <1>2 DEF Parts
<1> QED
    BY <1>1, <1>3 DEF Text, Without

LEMMA BindingTells ==
    ASSUME NEW x, NEW y, Text(x), Text(y), NEW a \in Seq(Nat), NEW b \in Seq(Nat),
           bind_aad(x, a) = bind_aad(y, b)
    PROVE  x = y /\ a = b
<1>1. CASE a = << >> /\ b = << >>
    BY <1>1, LabelTellsText DEF bind_aad
<1>2. CASE a = << >> /\ b # << >>
    BY <1>2, BareLabel, ZenonT(30) DEF bind_aad
<1>3. CASE a # << >> /\ b = << >>
    BY <1>3, BareLabel, ZenonT(30) DEF bind_aad
<1>4. CASE a # << >> /\ b # << >>
  <2>1. label(x) \o <<Nul>> \o a = label(y) \o <<Nul>> \o b
    BY <1>4, ZenonT(30) DEF bind_aad
  <2>2. /\ label(x) \in Seq(Nat) /\ label(y) \in Seq(Nat) /\ Nul \in Nat
        /\ Without(label(x), Nul) /\ Without(label(y), Nul)
    BY LabelFacts, VersionFacts DEF Text
  <2>3. Parts(label(x) \o <<Nul>> \o a, label(x), Nul, a)
    BY <2>2, ConcatParts
  <2>4. Parts(label(x) \o <<Nul>> \o a, label(y), Nul, b)
    <3>1. Parts(label(y) \o <<Nul>> \o b, label(y), Nul, b)
      BY <2>2, ConcatParts
    <3> QED
      BY <2>1, <3>1, ZenonT(30)
  <2>5. label(x) = label(y) /\ a = b
    BY <2>2, <2>3, <2>4, FirstNul
  <2> QED
    BY <2>5, LabelTellsText
<1> QED
    BY <1>1, <1>2, <1>3, <1>4

(***************************************************************************)
(* The bytes bind_aad makes determine the context's segments and the aad,  *)
(* for aads of any bytes and lengths (context.rs:43-54).                   *)
(***************************************************************************)
THEOREM BindingsAreUnambiguous == BuildSpec => []BindingIsUnique
<1>1. ContextsInv => BindingIsUnique
  <2> SUFFICES ASSUME ContextsInv, NEW c \in built, NEW d \in built,
                      NEW a \in Bindings, NEW b \in Bindings,
                      bind_aad(c.text, a) = bind_aad(d.text, b)
               PROVE  c.segs = d.segs /\ a = b
    BY DEF BindingIsUnique
  <2>1. Text(c.text) /\ Text(d.text) /\ a \in Seq(Nat) /\ b \in Seq(Nat)
    BY ContextsAssumption DEF ContextsInv
  <2>2. c.text = d.text /\ a = b
    BY <2>1, BindingTells
  <2> QED
    BY <2>2 DEF ContextsInv, TextTellsSegments
<1> QED
    BY <1>1, BuiltContexts, PTL

-----------------------------------------------------------------------------
(***************************************************************************)
(* Messages.  Whatever was sealed, a part that can pass for a signature (a *)
(* wrap of four fields, a ct that says so) is one, made by the call on     *)
(* record with it, in a context that was built; the rest follows from what *)
(* a binding tells.                                                        *)
(***************************************************************************)
PieceNames == {"reply", "x", "kem", "wrap", "ct"}

\* A part that has the shape of a signature is one, made by the call on record.
SignedHalves(m) ==
    /\ DOMAIN m.parts = PieceNames
    /\ Len(m.parts.wrap) = 4 =>
          /\ m.call.api \in {"ed", "double"}
          /\ m.call.ctx \in Texts /\ m.call.aad \in Aads
          /\ m.parts.wrap = sign_message(m.call.aad, m.call.to, m.call.ctx)
    /\ m.parts.ct[1] = "signature" =>
          /\ m.call.api \in {"dili", "double"}
          /\ m.call.ctx \in Texts /\ m.call.aad \in Aads
          /\ m.parts.ct = sign_message_dili(m.call.aad, m.call.to, m.call.ctx)

EnvelopeInv == ContextsInv /\ \A m \in sealed : SignedHalves(m)

\* What a call that seals keeps, given what it puts into the two places.
LEMMA SealedStep ==
    ASSUME EnvelopeInv, NEW made, NEW data, NEW parts, Sealed(made, data, parts),
           SignedHalves([call |-> made, parts |-> parts])
    PROVE  EnvelopeInv'
<1> DEFINE new == [n |-> n, call |-> made, data |-> data, parts |-> parts]
<1>1. sealed' = sealed \cup {new} /\ built' = built
    BY DEF Sealed
<1>2. new.call = made /\ new.parts = parts
    OBVIOUS
<1> HIDE DEF new
<1>3. Texts' = Texts
    BY <1>1 DEF Texts
<1>4. SignedHalves(new)
    BY <1>2 DEF SignedHalves
<1>5. \A m : SignedHalves(m) => SignedHalves(m)'
    BY <1>3 DEF SignedHalves
<1>6. ContextsInv'
    BY <1>1, NextContexts DEF EnvelopeInv
<1> QED
    BY <1>1, <1>4, <1>5, <1>6 DEF EnvelopeInv

\* A message with no signature in it.
LEMMA Unsigned ==
    ASSUME NEW made, NEW parts, DOMAIN parts = PieceNames,
           Len(parts.wrap) # 4, parts.ct[1] # "signature"
    PROVE  SignedHalves([call |-> made, parts |-> parts])
    BY DEF SignedHalves

LEMMA PartsOf ==
    /\ \A reply, x, kem, wrap, ct : LET p == Pieces(reply, x, kem, wrap, ct)
                                   IN  DOMAIN p = PieceNames /\ p.wrap = wrap /\ p.ct = ct
    /\ Len(None) = 1 /\ None[1] = "none" /\ Failed[1] = "failed"
    BY DEF Pieces, PieceNames, None, Failed

LEMMA UnsignedBlob ==
    ASSUME NEW data, NEW key, NEW ctx, NEW aad, NEW nonce
    PROVE  /\ encrypt(data, key, ctx, aad, nonce)[1] = "framed"
           /\ encrypt_raw(data, key, nonce, aad)[1] = "aead"
    BY DEF encrypt, encrypt_raw

\* The calls that seal, one by one: only the ones that sign put a signature into
\* a message, and the payload a keyfile keeps when it is rewrapped is none.
LEMMA SealingStep ==
    ASSUME EnvelopeInv, NEW ctx, NEW u, NEW info, NEW aad,
           \/ Encrypt(ctx, u, aad) \/ BoxSeal(ctx, u, aad) \/ SealWithReply(ctx, u, aad)
           \/ HpkeSeal(ctx, u, info, aad) \/ HpkeExport(ctx, u, info, aad)
           \/ WrapDek(u, aad) \/ WriteKeyfile(u, info)
    PROVE  EnvelopeInv'
<1>1. ASSUME NEW made, NEW data, NEW parts, Sealed(made, data, parts),
             DOMAIN parts = PieceNames, Len(parts.wrap) # 4, parts.ct[1] # "signature"
      PROVE  EnvelopeInv'
    BY <1>1, SealedStep, Unsigned, ZenonT(30)
<1>2. \A c, pk, a, d, k : seal(c, pk, a, d, k).ct[1] # "signature"
    BY UnsignedBlob, PartsOf, ZenonT(30) DEF seal
<1>3. CASE Encrypt(ctx, u, aad)
  <2> DEFINE ct == encrypt(Data, Symmetric(u), ctx, aad, Random(n, "nonce"))
             parts == Pieces(None, None, None, None, ct)
  <2>1. ct[1] # "signature"
      BY UnsignedBlob
  <2>2. DOMAIN parts = PieceNames /\ Len(parts.wrap) # 4 /\ parts.ct[1] # "signature"
      BY <2>1, PartsOf
  <2> QED
      BY <1>1, <1>3, <2>2, ZenonT(30) DEF Encrypt
<1>4. CASE BoxSeal(ctx, u, aad)
  <2> DEFINE s == seal(ctx, Public(KeyPair(u)), aad, Data, n)
             parts == Pieces(None, s.x, s.kem, None, s.ct)
  <2>1. DOMAIN parts = PieceNames /\ Len(parts.wrap) # 4 /\ parts.ct[1] # "signature"
      BY <1>2, PartsOf
  <2> QED
      BY <1>1, <1>4, <2>1, ZenonT(30) DEF BoxSeal
<1>5. CASE SealWithReply(ctx, u, aad)
  <2> DEFINE s == DualSeal(ctx, Public(KeyPair(u)), aad, Data, n)
             parts == Pieces(s.reply, s.x, s.kem, None, s.ct)
  <2>1. s.ct[1] # "signature"
      BY <1>2, ZenonT(30) DEF DualSeal
  <2>2. DOMAIN parts = PieceNames /\ Len(parts.wrap) # 4 /\ parts.ct[1] # "signature"
      BY <2>1, PartsOf
  <2> QED
      BY <1>1, <1>5, <2>2, ZenonT(30) DEF SealWithReply
<1>6. CASE HpkeSeal(ctx, u, info, aad)
  <2> DEFINE s == seal_base(ctx, Public(KeyPair(u)), info, aad, Data, n)
             parts == Pieces(None, s.x, s.kem, None, s.ct)
  <2>1. s.ct[1] # "signature"
      BY UnsignedBlob, PartsOf, ZenonT(30) DEF seal_base
  <2>2. DOMAIN parts = PieceNames /\ Len(parts.wrap) # 4 /\ parts.ct[1] # "signature"
      BY <2>1, PartsOf
  <2> QED
      BY <1>1, <1>6, <2>2, ZenonT(30) DEF HpkeSeal
<1>7. CASE HpkeExport(ctx, u, info, aad)
  <2> DEFINE enc == Enc(Public(KeyPair(u)), n)
             parts == Pieces(None, enc.x, enc.kem, None, None)
  <2>1. DOMAIN parts = PieceNames /\ Len(parts.wrap) # 4 /\ parts.ct[1] # "signature"
      BY PartsOf
  <2> QED
      BY <1>1, <1>7, <2>1, ZenonT(30) DEF HpkeExport
<1>8. CASE WrapDek(u, aad)
  <2> DEFINE ct == encrypt(Data, wrap_key(u, aad), dek_ctx, aad, Random(n, "nonce"))
             parts == Pieces(None, None, None, None, ct)
  <2>1. ct[1] # "signature"
      BY UnsignedBlob, ZenonT(30)
  <2>2. DOMAIN parts = PieceNames /\ Len(parts.wrap) # 4 /\ parts.ct[1] # "signature"
      BY <2>1, PartsOf
  <2> QED
      BY <1>1, <1>8, <2>2, ZenonT(30) DEF WrapDek
<1>9. CASE WriteKeyfile(u, info)
  <2> DEFINE wrap == wrap_dek(u, Random(n, "dek"), aad_for(info), n)
             ct == <<"payload", Random(n, "nonce"),
                     encrypt_raw(Data, Random(n, "dek"), Random(n, "nonce"), aad_for(info))>>
             parts == Pieces(None, None, None, wrap, ct)
  <2>1. Len(wrap) # 4 /\ ct[1] # "signature"
      BY DEF wrap_dek
  <2>2. DOMAIN parts = PieceNames /\ Len(parts.wrap) # 4 /\ parts.ct[1] # "signature"
      BY <2>1, PartsOf
  <2> QED
      BY <1>1, <1>9, <2>2, ZenonT(30) DEF WriteKeyfile
<1> QED
    BY <1>3, <1>4, <1>5, <1>6, <1>7, <1>8, <1>9

LEMMA RewrapStep ==
    ASSUME EnvelopeInv, NEW m \in sealed, NEW u, RewrapKeyfile(m, u)
    PROVE  EnvelopeInv'
<1> DEFINE aad == aad_for(m.call.info)
           wrap == wrap_dek(u, unwrap_dek(m.call.to, m.parts.wrap, aad), aad, n)
           parts == [m.parts EXCEPT !.wrap = wrap]
<1>1. /\ DOMAIN m.parts = PieceNames /\ m.call.api = "keyfile"
      /\ m.parts.ct[1] # "signature"
    BY DEF EnvelopeInv, SignedHalves, RewrapKeyfile
<1>2. Len(wrap) # 4
    BY DEF wrap_dek
<1>3. DOMAIN parts = PieceNames /\ Len(parts.wrap) # 4 /\ parts.ct[1] # "signature"
    BY <1>1, <1>2, PartsOf
<1> QED
    BY <1>3, SealedStep, Unsigned, ZenonT(30) DEF RewrapKeyfile

LEMMA SigningStep ==
    ASSUME EnvelopeInv, NEW ctx \in Texts, NEW u, NEW msg \in Aads,
           SignEd(ctx, u, msg) \/ SignDili(ctx, u, msg) \/ SignDouble(ctx, u, msg)
    PROVE  EnvelopeInv'
<1>1. /\ sign_message(msg, u, ctx)[1] = "signature"
      /\ sign_message_dili(msg, u, ctx)[1] = "signature"
    BY DEF sign_message, sign_message_dili, Signature
<1>2. CASE SignEd(ctx, u, msg)
  <2> DEFINE made == Call("ed", ctx, u, << >>, msg)
             parts == Pieces(None, None, None, sign_message(msg, u, ctx), None)
  <2>1. made.api = "ed" /\ made.ctx = ctx /\ made.to = u /\ made.aad = msg
      BY DEF Call
  <2>2. DOMAIN parts = PieceNames /\ parts.wrap = sign_message(msg, u, ctx) /\ parts.ct = None
      BY PartsOf
  <2>3. Sealed(made, None, parts)
      BY <1>2, ZenonT(30) DEF SignEd
  <2> HIDE DEF made, parts
  <2>4. SignedHalves([call |-> made, parts |-> parts])
      BY <1>1, <2>1, <2>2, PartsOf DEF SignedHalves
  <2> QED
      BY <2>3, <2>4, SealedStep
<1>3. CASE SignDili(ctx, u, msg)
  <2> DEFINE made == Call("dili", ctx, u, << >>, msg)
             parts == Pieces(None, None, None, None, sign_message_dili(msg, u, ctx))
  <2>1. made.api = "dili" /\ made.ctx = ctx /\ made.to = u /\ made.aad = msg
      BY ZenonT(30) DEF Call
  <2>2. DOMAIN parts = PieceNames /\ parts.wrap = None /\ parts.ct = sign_message_dili(msg, u, ctx)
      BY PartsOf
  <2>3. Sealed(made, None, parts)
      BY <1>3, ZenonT(30) DEF SignDili
  <2> HIDE DEF made, parts
  <2>4. SignedHalves([call |-> made, parts |-> parts])
      BY <1>1, <2>1, <2>2, PartsOf DEF SignedHalves
  <2> QED
      BY <2>3, <2>4, SealedStep
<1>4. CASE SignDouble(ctx, u, msg)
  <2> DEFINE made == Call("double", ctx, u, << >>, msg)
             parts == Pieces(None, None, None,
                             sign_message(msg, u, ctx), sign_message_dili(msg, u, ctx))
  <2>1. made.api = "double" /\ made.ctx = ctx /\ made.to = u /\ made.aad = msg
      BY DEF Call
  <2>2. DOMAIN parts = PieceNames /\ parts.wrap = sign_message(msg, u, ctx) /\ parts.ct = sign_message_dili(msg, u, ctx)
      BY PartsOf
  <2>3. Sealed(made, None, parts)
      BY <1>4, ZenonT(30) DEF SignDouble
  <2> HIDE DEF made, parts
  <2>4. SignedHalves([call |-> made, parts |-> parts])
      BY <1>1, <2>1, <2>2, PartsOf DEF SignedHalves
  <2> QED
      BY <2>3, <2>4, SealedStep
<1> QED
    BY <1>2, <1>3, <1>4

LEMMA EnvelopeStep == EnvelopeInv /\ [Next]_vars => EnvelopeInv'
<1> SUFFICES ASSUME EnvelopeInv, [Next]_vars PROVE EnvelopeInv'
    OBVIOUS
<1>1. CASE Build
    BY <1>1, NextContexts DEF Build, EnvelopeInv
<1>2. CASE UNCHANGED vars
  <2>1. UNCHANGED built /\ UNCHANGED sealed
      BY <1>2 DEF vars
  <2>2. \A m : SignedHalves(m) => SignedHalves(m)'
      BY <2>1 DEF SignedHalves, Texts
  <2> QED
      BY <2>1, <2>2, NextContexts DEF EnvelopeInv
<1> QED
    BY <1>1, <1>2, SealingStep, RewrapStep, SigningStep DEF Next

LEMMA EnvelopeInvariant == Spec => []EnvelopeInv
<1>1. Init => EnvelopeInv
    BY DEF Init, BuildInit, EnvelopeInv, ContextsInv, TextTellsSegments
<1> QED
    BY <1>1, EnvelopeStep, PTL DEF Spec

(***************************************************************************)
(* verify_double accepts only what the signer signed with both keys, for   *)
(* that message in that context: no half of another signature, and no      *)
(* other thing the library seals, can stand in for either half, in any     *)
(* number of calls.                                                        *)
(***************************************************************************)
THEOREM DoubleSignatures == Spec => []BothSignaturesNeeded
<1>1. ASSUME EnvelopeInv PROVE BothSignaturesNeeded
  <2> SUFFICES ASSUME NEW ed \in Seen("wrap"), NEW dili \in Cts, NEW ctx \in Texts,
                      NEW u \in Users, NEW msg \in Aads,
                      verify_double(msg, ed, dili, u, ctx)
               PROVE  /\ \E m \in sealed : /\ m.call.api \in {"ed", "double"}
                                           /\ m.call.ctx = ctx /\ m.call.to = u /\ m.call.aad = msg
                      /\ \E m \in sealed : /\ m.call.api \in {"dili", "double"}
                                           /\ m.call.ctx = ctx /\ m.call.to = u /\ m.call.aad = msg
      BY DEF BothSignaturesNeeded
  <2>1. \A c \in Texts : Text(c)
      BY <1>1 DEF EnvelopeInv, ContextsInv, Texts
  <2>2. \A c \in Texts, d \in Texts, a \in Aads, b \in Aads :
            bind_aad(c, a) = bind_aad(d, b) => c = d /\ a = b
      BY <2>1, BindingTells, EnvelopeAssumption
  <2>3. /\ ed = <<"signature", "ed25519", Static(u, "ed"), bind_aad(ctx, msg)>>
        /\ dili = <<"signature", "mldsa87", Static(u, "dili"), bind_aad(ctx, msg)>>
      BY DEF verify_double, verify_signature, verify_signature_dili, sign_message,
             sign_message_dili, Signature
  <2>4. PICK m \in sealed : m.parts.wrap = ed
      BY DEF Seen
  <2>5. PICK k \in sealed : k.parts.ct = dili
      BY ZenonT(30) DEF Cts, Seen
  <2>6. /\ m.call.api \in {"ed", "double"} /\ m.call.ctx \in Texts /\ m.call.aad \in Aads
        /\ ed = sign_message(m.call.aad, m.call.to, m.call.ctx)
      BY <1>1, <2>3, <2>4 DEF EnvelopeInv, SignedHalves
  <2>7. /\ k.call.api \in {"dili", "double"} /\ k.call.ctx \in Texts /\ k.call.aad \in Aads
        /\ dili = sign_message_dili(k.call.aad, k.call.to, k.call.ctx)
      BY <1>1, <2>3, <2>5 DEF EnvelopeInv, SignedHalves
  <2>8. u = m.call.to /\ bind_aad(ctx, msg) = bind_aad(m.call.ctx, m.call.aad)
      BY <2>3, <2>6 DEF sign_message, Signature, Static
  <2>9. u = k.call.to /\ bind_aad(ctx, msg) = bind_aad(k.call.ctx, k.call.aad)
      BY <2>3, <2>7 DEF sign_message_dili, Signature, Static
  <2>10. m.call.ctx = ctx /\ m.call.aad = msg
      BY <2>2, <2>6, <2>8
  <2>11. k.call.ctx = ctx /\ k.call.aad = msg
      BY <2>2, <2>7, <2>9
  <2> QED
      BY <2>6, <2>7, <2>8, <2>9, <2>10, <2>11, ZenonT(30)
<1> QED
    BY <1>1, EnvelopeInvariant, PTL

-----------------------------------------------------------------------------
\* A context that grew by one segment is a text, and tells what it grew from.
LEMMA AddFacts ==
    ASSUME NEW x, Text(x), NEW s \in Seq(Nat), add(x, s) # Invalid
    PROVE  Text(add(x, s)) /\ Parts(add(x, s), x, Slash, s) /\ Without(s, Slash)
<1>1. validate_segment(s) /\ add(x, s) = x \o <<Slash>> \o s
    BY ZenonT(30) DEF add
<1>2. Without(s, Nul) /\ Without(s, Slash)
    BY <1>1, ContextsAssumption, ZenonT(30) DEF validate_segment, Without
<1> QED
    BY <1>1, <1>2, JoinedText

LEMMA AddTells ==
    ASSUME NEW x, NEW y, Text(x), Text(y), NEW s \in Seq(Nat),
           add(x, s) = add(y, s), add(x, s) # Invalid
    PROVE  x = y
<1>1. Parts(add(x, s), x, Slash, s) /\ Parts(add(x, s), y, Slash, s) /\ Without(s, Slash)
    BY AddFacts, ZenonT(30)
<1>2. x \in Seq(Nat) /\ y \in Seq(Nat) /\ Slash \in Nat
    BY ContextsAssumption, ZenonT(30) DEF Text
<1> QED
    BY <1>1, <1>2, LastSlash

LEMMA Words ==
    /\ W.ecdh_key \in Seq(Nat) /\ W.base_key \in Seq(Nat) /\ W.data \in Seq(Nat)
    /\ W.hpke \in Seq(Nat) /\ W.kem \in Seq(Nat) /\ W.schedule \in Seq(Nat)
    /\ W.key \in Seq(Nat) /\ W.base_nonce \in Seq(Nat) /\ W.exporter_secret \in Seq(Nat)
    /\ W.export \in Seq(Nat) /\ W.derive_keypair \in Seq(Nat) /\ W.x25519_priv \in Seq(Nat)
    /\ W.lithium \in Seq(Nat) /\ W.opaque \in Seq(Nat) /\ W.dek_wrap \in Seq(Nat)
    BY DEF W

LEMMA HpkeFacts ==
    ASSUME NEW x, Text(x), NEW s \in Seq(Nat), Hpke(x, s) # Invalid
    PROVE  Text(add(x, W.hpke)) /\ add(x, W.hpke) # Invalid /\ Text(Hpke(x, s))
<1>1. add(x, W.hpke) # Invalid
    BY ZenonT(30) DEF Hpke, add
<1>2. Text(add(x, W.hpke))
    BY <1>1, Words, AddFacts, ZenonT(30)
<1> QED
    BY <1>1, <1>2, AddFacts DEF Hpke

LEMMA HpkeTells ==
    ASSUME NEW x, NEW y, Text(x), Text(y), NEW s \in Seq(Nat),
           Hpke(x, s) = Hpke(y, s), Hpke(x, s) # Invalid
    PROVE  x = y
<1>1. /\ Text(add(x, W.hpke)) /\ add(x, W.hpke) # Invalid
      /\ Text(add(y, W.hpke)) /\ add(y, W.hpke) # Invalid
    BY HpkeFacts, ZenonT(30)
<1>2. add(x, W.hpke) = add(y, W.hpke)
    BY <1>1, AddTells DEF Hpke
<1> QED
    BY <1>1, <1>2, Words, AddTells, ZenonT(30)

-----------------------------------------------------------------------------
\* Keys tell whose they are.
LEMMA PathFacts ==
    ASSUME NEW u \in Users
    PROVE  Text(KeyPath[u])
<1>1. /\ KeyPath[u] \in Seq(Printable \cup {Slash}) /\ KeyPath[u] # << >>
      /\ Printable \cup {Slash} \subseteq Nat /\ Nul \notin Printable \cup {Slash}
    BY EnvelopeAssumption, ContextsAssumption
<1>2. KeyPath[u] \in Seq(Nat)
  <2>1. \A S, T : S \subseteq T => Seq(S) \subseteq Seq(T)
      OBVIOUS
  <2> QED
      BY <1>1, <2>1, ZenonT(30)
<1>3. \A k \in 1 .. Len(KeyPath[u]) : KeyPath[u][k] \in Printable \cup {Slash}
    BY <1>1
<1> QED
    BY <1>1, <1>2, <1>3 DEF Text, Without

LEMMA KeyTells ==
    ASSUME NEW u \in Users, NEW v \in Users, KeyPair(u).x = KeyPair(v).x
    PROVE  u = v
<1> DEFINE kp(w) == Hpke(KeyPath[w], W.derive_keypair)
<1>1. ASSUME NEW w \in Users
      PROVE  /\ add(kp(w), W.x25519_priv) # Invalid
             /\ KeyPair(w).x = Hkdf(<<"ikm">>, None, <<"info", label(add(kp(w), W.x25519_priv))>>)
  <2>1. KeyPair(w).x = IF add(kp(w), W.x25519_priv) = Invalid THEN Failed
                       ELSE Hkdf(<<"ikm">>, None, <<"info", label(add(kp(w), W.x25519_priv))>>)
      BY DEF KeyPair, derive_keypair, derive32_raw
  <2>2. KeyPair(w).x # Failed
      BY KeysAssumption
  <2> QED
      BY <2>1, <2>2, ZenonT(30)
<1>2. ASSUME NEW w \in Users
      PROVE  Text(kp(w)) /\ kp(w) # Invalid /\ Text(add(kp(w), W.x25519_priv))
  <2>1. kp(w) # Invalid
      BY <1>1, ZenonT(30) DEF add
  <2>2. Text(kp(w))
      BY <2>1, PathFacts, Words, HpkeFacts, ZenonT(30)
  <2> QED
      BY <1>1, <2>1, <2>2, Words, AddFacts, ZenonT(30)
<1>3. label(add(kp(u), W.x25519_priv)) = label(add(kp(v), W.x25519_priv))
    BY <1>1 DEF Hkdf
<1>4. add(kp(u), W.x25519_priv) = add(kp(v), W.x25519_priv)
    BY <1>2, <1>3, LabelTellsText
<1>5. kp(u) = kp(v)
    BY <1>1, <1>2, <1>4, Words, AddTells, ZenonT(30)
<1>6. KeyPath[u] = KeyPath[v]
    BY <1>2, <1>5, PathFacts, Words, HpkeTells
<1> QED
    BY <1>6, EnvelopeAssumption

-----------------------------------------------------------------------------
\* The key of a box: what it is bound to, and that both sides arrive at it.
BoxKey(ctx, u, k) == prep_base_key_for_encryption(ctx, Random(k, "x"), Public(KeyPair(u)), k)

LEMMA CombineShape ==
    ASSUME NEW ctx, NEW e, NEW s, NEW ct_t, NEW ek_t, NEW ct_pq,
           Combine(ctx, e, s, ct_t, ek_t, ct_pq) # Failed
    PROVE  /\ add(ctx, W.base_key) # Invalid
           /\ Combine(ctx, e, s, ct_t, ek_t, ct_pq) =
                 <<"hkdf", e, s, <<"base", label(add(ctx, W.base_key)), ct_t, ek_t, Sha256(ct_pq)>>>>
    BY DEF Combine, derive_base_key, Hkdf

LEMMA BoxKeyTerm ==
    ASSUME NEW ctx, NEW u, NEW k, BoxKey(ctx, u, k) # Failed
    PROVE  /\ add(ctx, W.base_key) # Invalid
           /\ \E e, s, h : BoxKey(ctx, u, k) = <<"hkdf", e, s,
                 <<"base", label(add(ctx, W.base_key)), Pub(Random(k, "x")), Pub(KeyPair(u).x), h>>>>
<1> DEFINE e == EcdhKey(ctx, Random(k, "x"), Public(KeyPair(u)).x)
           s == KemSecret(Public(KeyPair(u)).k, Random(k, "coins"))
           ct == KemCt(Public(KeyPair(u)).k, Random(k, "coins"))
<1>1. BoxKey(ctx, u, k) = Combine(ctx, e, s, Pub(Random(k, "x")), Public(KeyPair(u)).x, ct)
    BY ZenonT(30) DEF BoxKey, prep_base_key_for_encryption
<1>2. Public(KeyPair(u)).x = Pub(KeyPair(u).x)
    BY DEF Public
<1> HIDE DEF e, s, ct
<1>3. /\ add(ctx, W.base_key) # Invalid
      /\ BoxKey(ctx, u, k) = <<"hkdf", e, s,
            <<"base", label(add(ctx, W.base_key)), Pub(Random(k, "x")), Pub(KeyPair(u).x), Sha256(ct)>>>>
    BY <1>1, <1>2, CombineShape, ZenonT(30)
<1> QED
    BY <1>3, ZenonT(30)

LEMMA OpenKeyTerm ==
    ASSUME NEW ctx, NEW me, NEW peer, NEW kem,
           prep_base_key_for_decryption(ctx, me, peer, kem) # Failed
    PROVE  /\ add(ctx, W.base_key) # Invalid
           /\ \E e, s, h : prep_base_key_for_decryption(ctx, me, peer, kem) =
                 <<"hkdf", e, s, <<"base", label(add(ctx, W.base_key)), peer, Pub(me.x), h>>>>
<1> DEFINE e == EcdhKey(ctx, me.x, peer)
           s == decapsulate_kem(me.k, kem)
<1>1. prep_base_key_for_decryption(ctx, me, peer, kem) = Combine(ctx, e, s, peer, Pub(me.x), kem[3])
    BY DEF prep_base_key_for_decryption
<1> HIDE DEF e, s
<1>2. /\ add(ctx, W.base_key) # Invalid
      /\ prep_base_key_for_decryption(ctx, me, peer, kem) =
            <<"hkdf", e, s, <<"base", label(add(ctx, W.base_key)), peer, Pub(me.x), Sha256(kem[3])>>>>
    BY <1>1, CombineShape, ZenonT(30)
<1> QED
    BY <1>2, ZenonT(30)

LEMMA BoxKeyShape ==
    ASSUME NEW ctx, NEW u, NEW k, BoxKey(ctx, u, k) # Failed
    PROVE  Len(BoxKey(ctx, u, k)) = 4 /\ Len(BoxKey(ctx, u, k)[4]) = 5
<1>1. PICK e, s, h : BoxKey(ctx, u, k) = <<"hkdf", e, s,
          <<"base", label(add(ctx, W.base_key)), Pub(Random(k, "x")), Pub(KeyPair(u).x), h>>>>
    BY BoxKeyTerm, ZenonT(30)
<1> QED
    BY <1>1

LEMMA BoxKeyTells ==
    ASSUME NEW x, NEW y, Text(x), Text(y), NEW u \in Users, NEW v \in Users,
           NEW peer, NEW kem, NEW k,
           prep_base_key_for_decryption(x, KeyPair(u), peer, kem) = BoxKey(y, v, k),
           BoxKey(y, v, k) # Failed
    PROVE  x = y /\ u = v
<1>1. PICK e, s, h : BoxKey(y, v, k) = <<"hkdf", e, s,
          <<"base", label(add(y, W.base_key)), Pub(Random(k, "x")), Pub(KeyPair(v).x), h>>>>
    BY BoxKeyTerm, ZenonT(30)
<1>2. PICK e2, s2, h2 : BoxKey(y, v, k) = <<"hkdf", e2, s2,
          <<"base", label(add(x, W.base_key)), peer, Pub(KeyPair(u).x), h2>>>>
    BY OpenKeyTerm, ZenonT(30)
<1>3. add(x, W.base_key) # Invalid /\ add(y, W.base_key) # Invalid
    BY BoxKeyTerm, OpenKeyTerm, ZenonT(30)
<1>5. label(add(x, W.base_key)) = label(add(y, W.base_key)) /\ Pub(KeyPair(u).x) = Pub(KeyPair(v).x)
    BY <1>1, <1>2
<1>6. KeyPair(u).x = KeyPair(v).x
    BY <1>5 DEF Pub
<1>7. Text(add(x, W.base_key)) /\ Text(add(y, W.base_key))
    BY <1>3, Words, AddFacts, ZenonT(30)
<1>8. add(x, W.base_key) = add(y, W.base_key)
    BY <1>5, <1>7, LabelTellsText, ZenonT(30)
<1>9. x = y
    BY <1>3, <1>8, Words, AddTells, ZenonT(30)
<1> QED
    BY <1>6, <1>9, KeyTells

LEMMA BoxKeysAgree ==
    ASSUME NEW x, NEW u, NEW k
    PROVE  prep_base_key_for_decryption(x, KeyPair(u), Pub(Random(k, "x")),
                                        encapsulate_kem(Pub(KeyPair(u).k), k)) = BoxKey(x, u, k)
<1> DEFINE kp == KeyPair(u)  r == Random(k, "x")  ct == KemCt(Pub(kp.k), Random(k, "coins"))
<1>1. Public(kp).x = Pub(kp.x) /\ Public(kp).k = Pub(kp.k)
    BY DEF Public
<1>2. /\ encapsulate_kem(Pub(kp.k), k)[1] = KYBER_BOX_VERSION
      /\ encapsulate_kem(Pub(kp.k), k)[2] = KYBER_KEM_ID
      /\ encapsulate_kem(Pub(kp.k), k)[3] = ct
    BY DEF encapsulate_kem
<1>3. ct[2] = Pub(kp.k) /\ ct[3] = Random(k, "coins")
    BY DEF KemCt
<1>4. decapsulate_kem(kp.k, encapsulate_kem(Pub(kp.k), k)) = KemSecret(Pub(kp.k), Random(k, "coins"))
    BY <1>2, <1>3, ZenonT(30) DEF decapsulate_kem, Decapsulate
<1>5. Pub(r) # LowOrder /\ Pub(kp.x) # LowOrder /\ Pub(r)[2] = r /\ Pub(kp.x)[2] = kp.x
  <2>1. kp.x = Failed \/ \E a, b, c : kp.x = <<"hkdf", a, b, c>>
      BY DEF KeyPair, derive_keypair, derive32_raw, Hkdf
  <2>2. kp.x # <<"zero">> /\ r # <<"zero">>
      BY <2>1 DEF Failed, Random
  <2> QED
      BY <2>2, ZenonT(30) DEF Pub, LowOrder
<1>6. Dh(kp.x, Pub(r)) = Dh(r, Pub(kp.x))
    BY <1>5, ZenonT(30) DEF Dh
<1>7. EcdhKey(x, kp.x, Pub(r)) = EcdhKey(x, r, Pub(kp.x))
    BY <1>5, <1>6 DEF EcdhKey, ecdh_kdf
<1> HIDE DEF kp, r, ct
<1> QED
    BY <1>1, <1>2, <1>4, <1>7, ZenonT(30) DEF BoxKey, prep_base_key_for_decryption,
       prep_base_key_for_encryption, kp, r, ct

-----------------------------------------------------------------------------
\* The fields of a call, the parts of a message, and the fields and parts of a
\* message on record.
Ctx(c) == c.ctx
To(c) == c.to
Aad(c) == c.aad
Info(c) == c.info

ReplyIn(p) == p.reply
XIn(p) == p.x
KemIn(p) == p.kem
WrapIn(p) == p.wrap
CtIn(p) == p.ct

NumOf(m) == m.n
DataOf(m) == m.data
CtxOf(m) == m.call.ctx
ToOf(m) == m.call.to
AadOf(m) == m.call.aad
InfoOf(m) == m.call.info
ReplyOf(m) == m.parts.reply
XOf(m) == m.parts.x
KemOf(m) == m.parts.kem
WrapOf(m) == m.parts.wrap
CtOf(m) == m.parts.ct

\* What a message on record holds, by the call that made it.
Datum(k) == <<"data", k>>

AeadMsg(m) ==
    /\ DataOf(m) = Datum(NumOf(m)) /\ ReplyOf(m) = None
    /\ CtOf(m) = encrypt(DataOf(m), Symmetric(ToOf(m)), CtxOf(m), AadOf(m),
                            Random(NumOf(m), "nonce"))

BoxMsg(m) ==
    LET s == seal(CtxOf(m), Public(KeyPair(ToOf(m))), AadOf(m), DataOf(m), NumOf(m))
    IN  /\ DataOf(m) = Datum(NumOf(m)) /\ ReplyOf(m) = None
        /\ XOf(m) = s.x /\ KemOf(m) = s.kem /\ CtOf(m) = s.ct /\ s.ct # Failed

DualMsg(m) ==
    LET s == DualSeal(CtxOf(m), Public(KeyPair(ToOf(m))), AadOf(m), DataOf(m), NumOf(m))
    IN  /\ DataOf(m) = Datum(NumOf(m)) /\ ReplyOf(m) = s.reply
        /\ XOf(m) = s.x /\ KemOf(m) = s.kem /\ CtOf(m) = s.ct /\ s.ct # Failed

HpkeMsg(m) ==
    LET s == seal_base(CtxOf(m), Public(KeyPair(ToOf(m))), InfoOf(m), AadOf(m),
                       DataOf(m), NumOf(m))
    IN  /\ DataOf(m) = Datum(NumOf(m)) /\ ReplyOf(m) = None
        /\ XOf(m) = s.x /\ KemOf(m) = s.kem /\ CtOf(m) = s.ct /\ s.ct # Failed

ExportMsg(m) ==
    LET peer == Public(KeyPair(ToOf(m)))
    IN  /\ DataOf(m) = setup_sender_and_export(CtxOf(m), peer, InfoOf(m), AadOf(m), NumOf(m))
        /\ DataOf(m) # Failed /\ ReplyOf(m) = None
        /\ XOf(m) = Enc(peer, NumOf(m)).x /\ KemOf(m) = Enc(peer, NumOf(m)).kem
        /\ CtOf(m) = None

DekMsg(m) ==
    /\ DataOf(m) = Datum(NumOf(m)) /\ ReplyOf(m) = None
    /\ CtOf(m) = encrypt(DataOf(m), wrap_key(ToOf(m), AadOf(m)), dek_ctx, AadOf(m),
                            Random(NumOf(m), "nonce"))

\* k is the call that wrote the payload; NumOf(m) may have wrapped its key anew.
KeyfileOf(m, k) ==
    LET aad == aad_for(InfoOf(m))  dek == Random(k, "dek")  nonce == Random(k, "nonce")
    IN  /\ DataOf(m) = Datum(k) /\ ReplyOf(m) = None
        /\ WrapOf(m) = wrap_dek(ToOf(m), dek, aad, NumOf(m))
        /\ CtOf(m) = <<"payload", nonce, encrypt_raw(DataOf(m), dek, nonce, aad)>>

SignMsg(m) ==
    /\ DataOf(m) = None /\ ReplyOf(m) = None
    /\ CtOf(m) = None \/ CtOf(m)[1] = "signature"

Recorded(m) ==
    \/ m.call \in Calls("aead") /\ AeadMsg(m)
    \/ m.call \in Calls("box") /\ BoxMsg(m)
    \/ m.call \in Calls("dual") /\ DualMsg(m)
    \/ m.call \in Calls("hpke") /\ HpkeMsg(m)
    \/ m.call \in Calls("export") /\ ExportMsg(m)
    \/ m.call \in Calls("dek") /\ DekMsg(m)
    \/ m.call \in Calls("keyfile") /\ \E k \in 1 .. MaxSeals : KeyfileOf(m, k)
    \/ m.call.api \in {"ed", "dili", "double"} /\ SignMsg(m)

OpenInv ==
    /\ EnvelopeInv
    /\ n \in Nat \ {0}
    /\ \A m \in sealed : NumOf(m) \in 1 .. MaxSeals /\ Recorded(m)

\* What the fields of a call are.
LEMMA CallFields ==
    ASSUME NEW c
    PROVE  /\ \A api \in {"aead", "box", "dual"} : c \in Calls(api) =>
                 /\ c.api = api /\ Ctx(c) \in Texts /\ To(c) \in Users /\ Aad(c) \in Aads
                 /\ c = Call(api, Ctx(c), To(c), << >>, Aad(c))
           /\ \A api \in {"hpke", "export"} : c \in Calls(api) =>
                 /\ c.api = api /\ Ctx(c) \in Texts /\ To(c) \in Users
                 /\ Info(c) \in Infos /\ Aad(c) \in Aads
                 /\ c = Call(api, Ctx(c), To(c), Info(c), Aad(c))
           /\ c \in Calls("dek") =>
                 /\ c.api = "dek" /\ To(c) \in Users /\ Aad(c) \in Aads
                 /\ c = Call("dek", dek_ctx, To(c), << >>, Aad(c))
           /\ c \in Calls("keyfile") =>
                 /\ c.api = "keyfile" /\ To(c) \in Users /\ Info(c) \in Infos
                 /\ c = Call("keyfile", << >>, To(c), Info(c), << >>)
<1>1. ASSUME NEW api \in {"aead", "box", "dual"}, c \in Calls(api)
      PROVE  /\ c.api = api /\ c.ctx \in Texts /\ c.to \in Users /\ c.aad \in Aads
             /\ c = Call(api, c.ctx, c.to, << >>, c.aad)
  <2>1. Calls(api) = {Call(api, ctx, u, << >>, aad) : ctx \in Texts, u \in Users, aad \in Aads}
      BY <1>1 DEF Calls
  <2> QED
      BY <1>1, <2>1 DEF Call
<1>2. ASSUME NEW api \in {"hpke", "export"}, c \in Calls(api)
      PROVE  /\ c.api = api /\ c.ctx \in Texts /\ c.to \in Users
             /\ c.info \in Infos /\ c.aad \in Aads
             /\ c = Call(api, c.ctx, c.to, c.info, c.aad)
  <2>1. Calls(api) = {Call(api, ctx, u, info, aad) :
                         ctx \in Texts, u \in Users, info \in Infos, aad \in Aads}
      BY <1>2 DEF Calls
  <2> QED
      BY <1>2, <2>1 DEF Call
<1>3. ASSUME c \in Calls("dek")
      PROVE  /\ c.api = "dek" /\ c.to \in Users /\ c.aad \in Aads
             /\ c = Call("dek", dek_ctx, c.to, << >>, c.aad)
  <2>1. Calls("dek") = {Call("dek", dek_ctx, u, << >>, aad) : u \in Users, aad \in Aads}
      BY DEF Calls
  <2> QED
      BY <1>3, <2>1 DEF Call
<1>4. ASSUME c \in Calls("keyfile")
      PROVE  /\ c.api = "keyfile" /\ c.to \in Users /\ c.info \in Infos
             /\ c = Call("keyfile", << >>, c.to, c.info, << >>)
  <2>1. Calls("keyfile") = {Call("keyfile", << >>, u, info, << >>) : u \in Users, info \in Infos}
      BY DEF Calls
  <2> QED
      BY <1>4, <2>1 DEF Call
<1> QED
    BY <1>1, <1>2, <1>3, <1>4, ZenonT(30) DEF Ctx, To, Aad, Info

\* The same of a message on record.
LEMMA RecordFields ==
    ASSUME NEW m
    PROVE  /\ \A api \in {"aead", "box", "dual"} : m.call \in Calls(api) =>
                 /\ CtxOf(m) \in Texts /\ ToOf(m) \in Users /\ AadOf(m) \in Aads
                 /\ m.call = Call(api, CtxOf(m), ToOf(m), << >>, AadOf(m))
           /\ \A api \in {"hpke", "export"} : m.call \in Calls(api) =>
                 /\ CtxOf(m) \in Texts /\ ToOf(m) \in Users
                 /\ InfoOf(m) \in Infos /\ AadOf(m) \in Aads
                 /\ m.call = Call(api, CtxOf(m), ToOf(m), InfoOf(m), AadOf(m))
           /\ m.call \in Calls("dek") =>
                 /\ ToOf(m) \in Users /\ AadOf(m) \in Aads
                 /\ m.call = Call("dek", dek_ctx, ToOf(m), << >>, AadOf(m))
           /\ m.call \in Calls("keyfile") =>
                 /\ ToOf(m) \in Users /\ InfoOf(m) \in Infos
                 /\ m.call = Call("keyfile", << >>, ToOf(m), InfoOf(m), << >>)
    BY CallFields, ZenonT(30) DEF CtxOf, ToOf, AadOf, InfoOf, Ctx, To, Aad, Info

-----------------------------------------------------------------------------
\* Every call keeps the record.
Message(k, c, d, parts) == [n |-> k, call |-> c, data |-> d, parts |-> parts]

LEMMA RecordStep ==
    ASSUME OpenInv, EnvelopeInv', NEW c, NEW d, NEW parts, Sealed(c, d, parts),
           Recorded(Message(n, c, d, parts))
    PROVE  OpenInv'
<1> DEFINE new == Message(n, c, d, parts)
<1>1. sealed' = sealed \cup {new} /\ built' = built /\ n <= MaxSeals /\ n' = n + 1
    BY DEF Sealed, Message
<1>2. NumOf(new) = n
    BY ZenonT(30) DEF Message, NumOf
<1>3. n \in 1 .. MaxSeals /\ n' \in Nat \ {0}
    BY <1>1, EnvelopeAssumption DEF OpenInv
<1> HIDE DEF new
<1>5. \A m : Recorded(m) => Recorded(m)'
  <2>1. Texts' = Texts
      BY <1>1 DEF Texts
  <2>2. \A api : Calls(api)' = Calls(api)
      BY <2>1 DEF Calls
  <2> QED
      BY <2>2, ZenonT(30) DEF Recorded
<1>6. Recorded(new)
    BY DEF new
<1>7. \A m \in sealed' : NumOf(m) \in 1 .. MaxSeals /\ Recorded(m)
    BY <1>1, <1>2, <1>3, <1>6, ZenonT(30) DEF OpenInv
<1> QED
    BY <1>3, <1>5, <1>7, ZenonT(30) DEF OpenInv

LEMMA MessageFields ==
    ASSUME NEW k, NEW c, NEW d, NEW parts
    PROVE  LET m == Message(k, c, d, parts)
           IN  NumOf(m) = k /\ m.call = c /\ DataOf(m) = d /\ m.parts = parts
    BY DEF Message, NumOf, DataOf



LEMMA PartFields ==
    ASSUME NEW reply, NEW x, NEW kem, NEW wrap, NEW ct
    PROVE  LET p == Pieces(reply, x, kem, wrap, ct)
           IN  p.reply = reply /\ p.x = x /\ p.kem = kem /\ p.wrap = wrap /\ p.ct = ct
    BY DEF Pieces

LEMMA SealsAreRecorded ==
    ASSUME OpenInv, EnvelopeInv', NEW ctx \in Texts, NEW u \in Users, NEW aad \in Aads,
           \/ Encrypt(ctx, u, aad) \/ BoxSeal(ctx, u, aad) \/ SealWithReply(ctx, u, aad)
    PROVE  OpenInv'
<1>1. CASE Encrypt(ctx, u, aad)
  <2> DEFINE c == Call("aead", ctx, u, << >>, aad)
             ct == encrypt(Data, Symmetric(u), ctx, aad, Random(n, "nonce"))
             parts == Pieces(None, None, None, None, ct)
             new == Message(n, c, Data, parts)
  <2>1. c \in Calls("aead") /\ c.ctx = ctx /\ c.to = u /\ c.aad = aad
      BY DEF Calls, Call
  <2>2. Sealed(c, Data, parts)
      BY <1>1, ZenonT(30) DEF Encrypt
  <2> HIDE DEF ct
  <2>3. parts.ct = ct /\ parts.reply = None
      BY PartFields
  <2> HIDE DEF parts, c
  <2>4. NumOf(new) = n /\ new.call = c /\ DataOf(new) = Data /\ new.parts = parts
      BY MessageFields
  <2>5. Data = Datum(n)
      BY DEF Data, Datum
  <2> HIDE DEF new
  <2>6. AeadMsg(new)
      BY <2>1, <2>3, <2>4, <2>5, ZenonT(30) DEF AeadMsg, CtxOf, ToOf, AadOf, ReplyOf, CtOf, ct
  <2>7. Recorded(new)
      BY <2>1, <2>4, <2>6, ZenonT(30) DEF Recorded
  <2> QED
      BY <2>2, <2>7, RecordStep DEF new
<1>2. CASE BoxSeal(ctx, u, aad)
  <2> DEFINE c == Call("box", ctx, u, << >>, aad)
             s == seal(ctx, Public(KeyPair(u)), aad, Data, n)
             parts == Pieces(None, s.x, s.kem, None, s.ct)
             new == Message(n, c, Data, parts)
  <2>1. c \in Calls("box") /\ c.ctx = ctx /\ c.to = u /\ c.aad = aad
      BY DEF Calls, Call
  <2>2. Sealed(c, Data, parts)
      BY <1>2, ZenonT(30) DEF BoxSeal
  <2> HIDE DEF s
  <2>3. /\ parts.reply = None
        /\ parts.x = s.x /\ parts.kem = s.kem /\ parts.ct = s.ct
      BY PartFields
  <2> HIDE DEF parts, c
  <2>4. NumOf(new) = n /\ new.call = c /\ DataOf(new) = Data /\ new.parts = parts
      BY MessageFields
  <2>5. Data = Datum(n) /\ parts.ct # Failed
      BY <2>2 DEF Data, Datum, Sealed
  <2> HIDE DEF new
  <2>6. BoxMsg(new)
      BY <2>1, <2>3, <2>4, <2>5, ZenonT(30) DEF BoxMsg, CtxOf, ToOf, AadOf, ReplyOf, XOf, KemOf, CtOf, s
  <2>7. Recorded(new)
      BY <2>1, <2>4, <2>6, ZenonT(30) DEF Recorded
  <2> QED
      BY <2>2, <2>7, RecordStep DEF new
<1>3. CASE SealWithReply(ctx, u, aad)
  <2> DEFINE c == Call("dual", ctx, u, << >>, aad)
             s == DualSeal(ctx, Public(KeyPair(u)), aad, Data, n)
             parts == Pieces(s.reply, s.x, s.kem, None, s.ct)
             new == Message(n, c, Data, parts)
  <2>1. c \in Calls("dual") /\ c.ctx = ctx /\ c.to = u /\ c.aad = aad
      BY DEF Calls, Call
  <2>2. Sealed(c, Data, parts)
      BY <1>3, ZenonT(30) DEF SealWithReply
  <2> HIDE DEF s
  <2>3. /\ parts.reply = s.reply
        /\ parts.x = s.x /\ parts.kem = s.kem /\ parts.ct = s.ct
      BY PartFields
  <2> HIDE DEF parts, c
  <2>4. NumOf(new) = n /\ new.call = c /\ DataOf(new) = Data /\ new.parts = parts
      BY MessageFields
  <2>5. Data = Datum(n) /\ parts.ct # Failed
      BY <2>2 DEF Data, Datum, Sealed
  <2> HIDE DEF new
  <2>6. DualMsg(new)
      BY <2>1, <2>3, <2>4, <2>5, ZenonT(30) DEF DualMsg, CtxOf, ToOf, AadOf, ReplyOf, XOf, KemOf, CtOf, s
  <2>7. Recorded(new)
      BY <2>1, <2>4, <2>6, ZenonT(30) DEF Recorded
  <2> QED
      BY <2>2, <2>7, RecordStep DEF new
<1> QED
    BY <1>1, <1>2, <1>3

LEMMA DekIsRecorded ==
    ASSUME OpenInv, EnvelopeInv', NEW u \in Users, NEW aad \in Aads, WrapDek(u, aad)
    PROVE  OpenInv'
<1> DEFINE c == Call("dek", dek_ctx, u, << >>, aad)
             ct == encrypt(Data, wrap_key(u, aad), dek_ctx, aad, Random(n, "nonce"))
             parts == Pieces(None, None, None, None, ct)
             new == Message(n, c, Data, parts)
<1>1. c \in Calls("dek") /\ c.to = u /\ c.aad = aad
    BY DEF Calls, Call
<1>2. Sealed(c, Data, parts)
    BY ZenonT(30) DEF WrapDek
<1> HIDE DEF ct
<1>3. parts.ct = ct /\ parts.reply = None
    BY PartFields
<1> HIDE DEF parts, c
<1>4. NumOf(new) = n /\ new.call = c /\ DataOf(new) = Data /\ new.parts = parts
    BY MessageFields
<1>5. Data = Datum(n)
    BY DEF Data, Datum
<1> HIDE DEF new
<1>6. DekMsg(new)
    BY <1>1, <1>3, <1>4, <1>5, ZenonT(30) DEF DekMsg, ToOf, AadOf, ReplyOf, CtOf, ct
<1>7. Recorded(new)
    BY <1>1, <1>4, <1>6, ZenonT(30) DEF Recorded
<1> QED
    BY <1>2, <1>7, RecordStep DEF new

LEMMA HpkeIsRecorded ==
    ASSUME OpenInv, EnvelopeInv', NEW ctx \in Texts, NEW u \in Users,
           NEW info \in Infos, NEW aad \in Aads,
           HpkeSeal(ctx, u, info, aad) \/ HpkeExport(ctx, u, info, aad)
    PROVE  OpenInv'
<1>1. CASE HpkeSeal(ctx, u, info, aad)
  <2> DEFINE c == Call("hpke", ctx, u, info, aad)
             s == seal_base(ctx, Public(KeyPair(u)), info, aad, Data, n)
             parts == Pieces(None, s.x, s.kem, None, s.ct)
             new == Message(n, c, Data, parts)
  <2>1. c \in Calls("hpke") /\ c.ctx = ctx /\ c.to = u /\ c.info = info /\ c.aad = aad
      BY DEF Calls, Call
  <2>2. Sealed(c, Data, parts)
      BY <1>1, ZenonT(30) DEF HpkeSeal
  <2> HIDE DEF s
  <2>3. /\ parts.reply = None
        /\ parts.x = s.x /\ parts.kem = s.kem /\ parts.ct = s.ct
      BY PartFields
  <2> HIDE DEF parts, c
  <2>4. NumOf(new) = n /\ new.call = c /\ DataOf(new) = Data /\ new.parts = parts
      BY MessageFields
  <2>5. Data = Datum(n) /\ parts.ct # Failed
      BY <2>2 DEF Data, Datum, Sealed
  <2> HIDE DEF new
  <2>6. HpkeMsg(new)
      BY <2>1, <2>3, <2>4, <2>5, ZenonT(30) DEF HpkeMsg, CtxOf, ToOf, AadOf, InfoOf, ReplyOf, XOf, KemOf,
         CtOf, s
  <2>7. Recorded(new)
      BY <2>1, <2>4, <2>6, ZenonT(30) DEF Recorded
  <2> QED
      BY <2>2, <2>7, RecordStep DEF new
<1>2. CASE HpkeExport(ctx, u, info, aad)
  <2> DEFINE c == Call("export", ctx, u, info, aad)
             enc == Enc(Public(KeyPair(u)), n)
             secret == setup_sender_and_export(ctx, Public(KeyPair(u)), info, aad, n)
             parts == Pieces(None, enc.x, enc.kem, None, None)
             new == Message(n, c, secret, parts)
  <2>1. c \in Calls("export") /\ c.ctx = ctx /\ c.to = u /\ c.info = info /\ c.aad = aad
      BY DEF Calls, Call
  <2>2. Sealed(c, secret, parts) /\ secret # Failed
      BY <1>2, ZenonT(30) DEF HpkeExport
  <2> HIDE DEF enc
  <2>3. /\ parts.reply = None /\ parts.ct = None
        /\ parts.x = enc.x /\ parts.kem = enc.kem
      BY PartFields
  <2> HIDE DEF parts, c
  <2>4. NumOf(new) = n /\ new.call = c /\ DataOf(new) = secret /\ new.parts = parts
      BY MessageFields
  <2> HIDE DEF new
  <2>5. ExportMsg(new)
      BY <2>1, <2>2, <2>3, <2>4, ZenonT(30) DEF ExportMsg, CtxOf, ToOf, AadOf, InfoOf, ReplyOf, XOf, KemOf,
         CtOf, enc
  <2>6. Recorded(new)
      BY <2>1, <2>4, <2>5, ZenonT(30) DEF Recorded
  <2> QED
      BY <2>2, <2>6, RecordStep DEF new
<1> QED
    BY <1>1, <1>2

\* A ciphertext opens only under its own key, nonce and aad.
LEMMA RawFacts ==
    ASSUME NEW ct, NEW d, NEW key, NEW nonce, NEW aad, ct = encrypt_raw(d, key, nonce, aad)
    PROVE  /\ decrypt_raw(ct, key, nonce, aad) = d
           /\ \A key2, nonce2, aad2 :
                 decrypt_raw(ct, key2, nonce2, aad2) # Failed =>
                    key2 = key /\ nonce2 = nonce /\ aad2 = aad
<1>1. ct[1] = "aead" /\ ct[2] = key /\ ct[3] = nonce /\ ct[4] = aad /\ ct[5] = d
    BY DEF encrypt_raw
<1> QED
    BY <1>1, ZenonT(30) DEF decrypt_raw

\* A wrapped key comes out only under the same master key and type.
LEMMA WrappedDek ==
    ASSUME NEW mk, NEW dek, NEW aad, NEW k, NEW mk2, NEW aad2
    PROVE  /\ unwrap_dek(mk, wrap_dek(mk, dek, aad, k), aad) = dek
           /\ unwrap_dek(mk2, wrap_dek(mk, dek, aad, k), aad2) # Failed =>
                 mk2 = mk /\ aad2 = aad
<1> DEFINE w == wrap_dek(mk, dek, aad, k)
           key == derive_kek(mk, Random(k, "salt"))
           ct == encrypt_raw(dek, key, Random(k, "nonce-wrap"), aad)
<1>1. w[1] = Random(k, "salt") /\ w[2] = Random(k, "nonce-wrap") /\ w[3] = ct
    BY DEF wrap_dek
<1>2. /\ ct[1] = "aead" /\ ct[2] = key /\ ct[3] = Random(k, "nonce-wrap")
      /\ ct[4] = aad /\ ct[5] = dek
    BY ZenonT(30) DEF encrypt_raw
<1> HIDE DEF w, ct
<1>3. unwrap_dek(mk, w, aad) = dek
    BY <1>1, <1>2, ZenonT(30) DEF unwrap_dek, decrypt_raw
<1>4. unwrap_dek(mk2, w, aad2) # Failed => derive_kek(mk2, Random(k, "salt")) = key /\ aad2 = aad
    BY <1>1, <1>2 DEF unwrap_dek, decrypt_raw
<1>5. derive_kek(mk2, Random(k, "salt")) = key => mk2 = mk
    BY DEF derive_kek, derive32_raw, Hkdf, Symmetric, Static
<1> QED
    BY <1>3, <1>4, <1>5, ZenonT(30) DEF w

\* The wrapped key and the payload of a keyfile on record.
LEMMA KeyfileWrap ==
    ASSUME NEW s, NEW j, KeyfileOf(s, j)
    PROVE  /\ unwrap_dek(ToOf(s), WrapOf(s), aad_for(InfoOf(s))) = Random(j, "dek")
           /\ \A mk, aad : unwrap_dek(mk, WrapOf(s), aad) # Failed =>
                 mk = ToOf(s) /\ aad = aad_for(InfoOf(s))
<1>1. WrapOf(s) = wrap_dek(ToOf(s), Random(j, "dek"), aad_for(InfoOf(s)), NumOf(s))
    BY ZenonT(30) DEF KeyfileOf
<1> QED
    BY <1>1, WrappedDek

LEMMA KeyfilePayload ==
    ASSUME NEW m, NEW k, KeyfileOf(m, k)
    PROVE  LET ct == CtOf(m)  dek == Random(k, "dek")
           IN  /\ ct[1] = "payload" /\ DataOf(m) = Datum(k)
               /\ decrypt_raw(ct[3], dek, ct[2], aad_for(InfoOf(m))) = DataOf(m)
               /\ \A key, aad : decrypt_raw(ct[3], key, ct[2], aad) # Failed =>
                     key = dek /\ aad = aad_for(InfoOf(m))
<1> DEFINE dek == Random(k, "dek")
           nonce == Random(k, "nonce")
           raw == encrypt_raw(DataOf(m), dek, nonce, aad_for(InfoOf(m)))
<1>1. CtOf(m) = <<"payload", nonce, raw>> /\ DataOf(m) = Datum(k)
    BY ZenonT(30) DEF KeyfileOf
<1>2. /\ decrypt_raw(raw, dek, nonce, aad_for(InfoOf(m))) = DataOf(m)
      /\ \A key, aad : decrypt_raw(raw, key, nonce, aad) # Failed =>
            key = dek /\ aad = aad_for(InfoOf(m))
    BY RawFacts
<1> HIDE DEF raw, nonce
<1>3. CtOf(m)[1] = "payload" /\ CtOf(m)[2] = nonce /\ CtOf(m)[3] = raw
    BY <1>1
<1> QED
    BY <1>1, <1>2, <1>3, ZenonT(30)

\* Values drawn in different calls differ.
LEMMA RandomTells == \A j, k, what : Random(j, what) = Random(k, what) => j = k
    BY DEF Random

LEMMA KeyfileIsRecorded ==
    ASSUME OpenInv, EnvelopeInv', NEW u \in Users, NEW key_type \in Infos,
           WriteKeyfile(u, key_type)
    PROVE  OpenInv'
<1> DEFINE c == Call("keyfile", << >>, u, key_type, << >>)
           dek == Random(n, "dek")
           nonce == Random(n, "nonce")
           aad == aad_for(key_type)
           wrap == wrap_dek(u, dek, aad, n)
           ct == <<"payload", nonce, encrypt_raw(Data, dek, nonce, aad)>>
           parts == Pieces(None, None, None, wrap, ct)
           new == Message(n, c, Data, parts)
<1>1. c \in Calls("keyfile") /\ c.to = u /\ c.info = key_type
    BY DEF Calls, Call
<1>2. Sealed(c, Data, parts)
    BY ZenonT(30) DEF WriteKeyfile
<1> HIDE DEF wrap, ct
<1>3. parts.reply = None /\ parts.wrap = wrap /\ parts.ct = ct
    BY PartFields
<1> HIDE DEF parts, c
<1>4. NumOf(new) = n /\ new.call = c /\ DataOf(new) = Data /\ new.parts = parts
    BY MessageFields
<1>5. Data = Datum(n)
    BY DEF Data, Datum
<1>6. n \in 1 .. MaxSeals
    BY <1>2, EnvelopeAssumption DEF OpenInv, Sealed
<1> HIDE DEF new
<1>7. KeyfileOf(new, n)
    BY <1>1, <1>3, <1>4, <1>5, ZenonT(30) DEF KeyfileOf, wrap, ct, ToOf, InfoOf, ReplyOf,
       WrapOf, CtOf
<1>8. Recorded(new)
    BY <1>1, <1>4, <1>6, <1>7, ZenonT(30) DEF Recorded
<1> QED
    BY <1>2, <1>8, RecordStep DEF new

LEMMA RewrapIsRecorded ==
    ASSUME OpenInv, EnvelopeInv', NEW m \in sealed, NEW u \in Users, RewrapKeyfile(m, u)
    PROVE  OpenInv'
<1>1. m.call \in Calls("keyfile") /\ \E k \in 1 .. MaxSeals : KeyfileOf(m, k)
  <2>1. m.call.api = "keyfile" /\ Recorded(m)
      BY DEF RewrapKeyfile, OpenInv
  <2> QED
      BY <2>1, CallFields, ZenonT(30) DEF Recorded
<1>2. PICK k \in 1 .. MaxSeals : KeyfileOf(m, k)
    BY <1>1, ZenonT(30)
<1> DEFINE c == [m.call EXCEPT !.to = u]
           aad == aad_for(InfoOf(m))
           wrap == wrap_dek(u, Random(k, "dek"), aad, n)
           parts == [m.parts EXCEPT !.wrap = wrap]
           new == Message(n, c, DataOf(m), parts)
<1>3. m.call = Call("keyfile", << >>, ToOf(m), InfoOf(m), << >>) /\ InfoOf(m) \in Infos
    BY <1>1, RecordFields
<1>4. c = Call("keyfile", << >>, u, InfoOf(m), << >>)
    BY <1>3 DEF Call
<1>5. c \in Calls("keyfile") /\ c.to = u /\ c.info = InfoOf(m)
    BY <1>3, <1>4 DEF Calls, Call
<1>6. unwrap_dek(ToOf(m), WrapOf(m), aad) = Random(k, "dek")
    BY <1>2, KeyfileWrap, ZenonT(30)
<1>7. Sealed(c, DataOf(m), parts)
    BY <1>6, ZenonT(30) DEF RewrapKeyfile, ToOf, InfoOf, WrapOf, DataOf
<1>8. parts.wrap = wrap /\ parts.reply = ReplyOf(m) /\ parts.ct = CtOf(m)
  <2>1. DOMAIN m.parts = PieceNames
      BY ZenonT(30) DEF OpenInv, EnvelopeInv, SignedHalves
  <2> QED
      BY <2>1, ZenonT(30) DEF PieceNames, ReplyOf, CtOf
<1> HIDE DEF parts, c
<1>9. NumOf(new) = n /\ new.call = c /\ DataOf(new) = DataOf(m) /\ new.parts = parts
    BY MessageFields
<1> HIDE DEF new
<1>10. KeyfileOf(new, k)
    BY <1>2, <1>5, <1>8, <1>9, ZenonT(30) DEF KeyfileOf, ToOf, InfoOf, ReplyOf,
       WrapOf, CtOf
<1>11. Recorded(new)
    BY <1>5, <1>9, <1>10, ZenonT(30) DEF Recorded
<1> QED
    BY <1>7, <1>11, RecordStep DEF new

LEMMA SignaturesAreRecorded ==
    ASSUME OpenInv, EnvelopeInv', NEW ctx \in Texts, NEW u \in Users, NEW msg \in Aads,
           SignEd(ctx, u, msg) \/ SignDili(ctx, u, msg) \/ SignDouble(ctx, u, msg)
    PROVE  OpenInv'
<1>1. ASSUME NEW api \in {"ed", "dili", "double"}, NEW parts, parts.reply = None,
             parts.ct = None \/ parts.ct[1] = "signature",
             Sealed(Call(api, ctx, u, << >>, msg), None, parts)
      PROVE  OpenInv'
  <2> DEFINE c == Call(api, ctx, u, << >>, msg)
             new == Message(n, c, None, parts)
  <2>1. c.api = api
      BY ZenonT(30) DEF Call
  <2>2. NumOf(new) = n /\ new.call = c /\ DataOf(new) = None /\ new.parts = parts
      BY MessageFields
  <2> HIDE DEF c, new
  <2>3. SignMsg(new)
      BY <1>1, <2>2, ZenonT(30) DEF SignMsg, ReplyOf, CtOf
  <2>4. Recorded(new)
      BY <1>1, <2>1, <2>2, <2>3, ZenonT(30) DEF Recorded
  <2> QED
      BY <1>1, <2>4, RecordStep, ZenonT(30) DEF new, c
<1>2. sign_message_dili(msg, u, ctx)[1] = "signature"
    BY DEF sign_message_dili, Signature
<1>3. CASE SignEd(ctx, u, msg)
  <2> DEFINE parts == Pieces(None, None, None, sign_message(msg, u, ctx), None)
  <2>1. Sealed(Call("ed", ctx, u, << >>, msg), None, parts)
      BY <1>3, ZenonT(30) DEF SignEd
  <2>2. parts.reply = None /\ parts.ct = None
      BY PartFields
  <2> HIDE DEF parts
  <2> QED
      BY <1>1, <2>1, <2>2, ZenonT(30)
<1>4. CASE SignDili(ctx, u, msg)
  <2> DEFINE parts == Pieces(None, None, None, None, sign_message_dili(msg, u, ctx))
  <2>1. Sealed(Call("dili", ctx, u, << >>, msg), None, parts)
      BY <1>4, ZenonT(30) DEF SignDili
  <2>2. parts.reply = None /\ parts.ct[1] = "signature"
      BY <1>2, PartFields
  <2> HIDE DEF parts
  <2> QED
      BY <1>1, <2>1, <2>2, ZenonT(30)
<1>5. CASE SignDouble(ctx, u, msg)
  <2> DEFINE parts == Pieces(None, None, None,
                             sign_message(msg, u, ctx), sign_message_dili(msg, u, ctx))
  <2>1. Sealed(Call("double", ctx, u, << >>, msg), None, parts)
      BY <1>5, ZenonT(30) DEF SignDouble
  <2>2. parts.reply = None /\ parts.ct[1] = "signature"
      BY <1>2, PartFields
  <2> HIDE DEF parts
  <2> QED
      BY <1>1, <2>1, <2>2, ZenonT(30)
<1> QED
    BY <1>3, <1>4, <1>5, ZenonT(30)

LEMMA OpenInvariant == Spec => []OpenInv
<1>1. Init => OpenInv
  <2>1. Init => EnvelopeInv
      BY DEF Init, BuildInit, EnvelopeInv, ContextsInv, TextTellsSegments
  <2> QED
      BY <2>1 DEF Init, OpenInv
<1>2. OpenInv /\ [Next]_vars => OpenInv'
  <2> SUFFICES ASSUME OpenInv, [Next]_vars PROVE OpenInv'
      OBVIOUS
  <2>1. EnvelopeInv'
      BY EnvelopeStep DEF OpenInv
  <2>2. CASE Build
      BY <2>1, <2>2 DEF Build, OpenInv
  <2>3. CASE UNCHANGED vars
    <3>1. built' = built /\ sealed' = sealed /\ n' = n
        BY <2>3, ZenonT(30) DEF vars
    <3>2. Texts' = Texts
        BY <3>1 DEF Texts
    <3>3. \A api : Calls(api)' = Calls(api)
        BY <3>2 DEF Calls
    <3>4. \A m : Recorded(m) => Recorded(m)'
        BY <3>3, ZenonT(30) DEF Recorded
    <3> QED
        BY <2>1, <3>1, <3>4, ZenonT(30) DEF OpenInv
  <2>4. ASSUME NEW ctx \in Texts, NEW u \in Users, NEW aad \in Aads,
               \/ Encrypt(ctx, u, aad) \/ BoxSeal(ctx, u, aad) \/ SealWithReply(ctx, u, aad)
               \/ \E info \in Infos : HpkeSeal(ctx, u, info, aad)
               \/ \E info \in Infos : HpkeExport(ctx, u, info, aad)
               \/ SignEd(ctx, u, aad) \/ SignDili(ctx, u, aad) \/ SignDouble(ctx, u, aad)
        PROVE  OpenInv'
    <3>1. CASE Encrypt(ctx, u, aad) \/ BoxSeal(ctx, u, aad) \/ SealWithReply(ctx, u, aad)
        BY <2>1, <2>4, <3>1, SealsAreRecorded, ZenonT(30)
    <3>2. ASSUME NEW info \in Infos, HpkeSeal(ctx, u, info, aad) \/ HpkeExport(ctx, u, info, aad)
          PROVE  OpenInv'
        BY <2>1, <2>4, <3>2, HpkeIsRecorded, ZenonT(30)
    <3>3. CASE SignEd(ctx, u, aad) \/ SignDili(ctx, u, aad) \/ SignDouble(ctx, u, aad)
        BY <2>1, <2>4, <3>3, SignaturesAreRecorded, ZenonT(30)
    <3> QED
        BY <2>4, <3>1, <3>2, <3>3, ZenonT(30)
  <2>5. ASSUME NEW u \in Users, NEW aad \in Aads, WrapDek(u, aad)
        PROVE  OpenInv'
      BY <2>1, <2>5, DekIsRecorded
  <2>6. ASSUME NEW u \in Users, NEW key_type \in Infos, WriteKeyfile(u, key_type)
        PROVE  OpenInv'
      BY <2>1, <2>6, KeyfileIsRecorded
  <2>7. ASSUME NEW m \in sealed, NEW u \in Users, RewrapKeyfile(m, u)
        PROVE  OpenInv'
      BY <2>1, <2>7, RewrapIsRecorded, ZenonT(30)
  <2> QED
      BY <2>2, <2>3, <2>4, <2>5, <2>6, <2>7, ZenonT(30) DEF Next
<1> QED
    BY <1>1, <1>2, PTL DEF Spec


-----------------------------------------------------------------------------
\* What a blob opens to.
LEMMA DecryptFacts ==
    ASSUME NEW d, NEW key, NEW ctx, NEW aad, NEW nonce, NEW key2, NEW ctx2, NEW aad2
    PROVE  decrypt(encrypt(d, key, ctx, aad, nonce), key2, ctx2, aad2) =
               IF key2 = key /\ bind_aad(ctx2, aad2) = bind_aad(ctx, aad) THEN d ELSE Failed
<1> DEFINE raw == encrypt_raw(d, key, nonce, bind_aad(ctx, aad))
           blob == encrypt(d, key, ctx, aad, nonce)
<1>1. blob[1] = "framed" /\ blob[2] = AEAD_BLOB_VERSION /\ blob[3] = nonce /\ blob[4] = raw
    BY DEF encrypt
<1>2. /\ raw[1] = "aead" /\ raw[2] = key /\ raw[3] = nonce
      /\ raw[4] = bind_aad(ctx, aad) /\ raw[5] = d
    BY DEF encrypt_raw
<1> HIDE DEF raw, blob
<1>3. decrypt(blob, key2, ctx2, aad2) = decrypt_raw(raw, key2, nonce, bind_aad(ctx2, aad2))
    BY <1>1, ZenonT(30) DEF decrypt
<1>4. decrypt_raw(raw, key2, nonce, bind_aad(ctx2, aad2)) =
          IF key2 = key /\ bind_aad(ctx2, aad2) = bind_aad(ctx, aad) THEN d ELSE Failed
    BY <1>2, ZenonT(30) DEF decrypt_raw
<1> QED
    BY <1>3, <1>4, ZenonT(30) DEF blob

\* The part ct of a message by its first field: who could have made it.
LEMMA CtShapes ==
    ASSUME NEW m, Recorded(m)
    PROVE  /\ CtOf(m)[1] = "framed" =>
                 \/ m.call \in Calls("aead") /\ AeadMsg(m)
                 \/ m.call \in Calls("box") /\ BoxMsg(m)
                 \/ m.call \in Calls("dual") /\ DualMsg(m)
                 \/ m.call \in Calls("dek") /\ DekMsg(m)
           /\ CtOf(m)[1] = "aead" => m.call \in Calls("hpke") /\ HpkeMsg(m)
           /\ CtOf(m)[1] = "payload" =>
                 m.call \in Calls("keyfile") /\ \E k \in 1 .. MaxSeals : KeyfileOf(m, k)
<1>1. \A d, key, ctx, aad, nonce : encrypt(d, key, ctx, aad, nonce)[1] = "framed"
    BY ZenonT(30) DEF encrypt
<1>2. AeadMsg(m) \/ DekMsg(m) => CtOf(m)[1] = "framed"
    BY <1>1, ZenonT(30) DEF AeadMsg, DekMsg
<1>3. BoxMsg(m) \/ DualMsg(m) => CtOf(m)[1] = "framed"
  <2>1. \A ctx, peer, aad, d, k : LET ct == seal(ctx, peer, aad, d, k).ct
                                  IN  ct # Failed => ct[1] = "framed"
      BY <1>1 DEF seal
  <2>2. \A ctx, peer, aad, d, k : LET ct == DualSeal(ctx, peer, aad, d, k).ct
                                  IN  ct # Failed => ct[1] = "framed"
      BY <2>1 DEF DualSeal
  <2> QED
      BY <2>1, <2>2, ZenonT(30) DEF BoxMsg, DualMsg
<1>4. HpkeMsg(m) => CtOf(m)[1] = "aead"
  <2>1. \A ctx, peer, info, aad, d, k : LET ct == seal_base(ctx, peer, info, aad, d, k).ct
                                        IN  ct # Failed => ct[1] = "aead"
      BY DEF seal_base, encrypt_raw
  <2> QED
      BY <2>1, ZenonT(30) DEF HpkeMsg
<1>5. ExportMsg(m) => CtOf(m)[1] = "none"
    BY DEF ExportMsg, None
<1>6. \A k : KeyfileOf(m, k) => CtOf(m)[1] = "payload"
    BY DEF KeyfileOf
<1>7. SignMsg(m) => CtOf(m)[1] \in {"none", "signature"}
    BY DEF SignMsg, None
<1>8. /\ "framed" # "aead" /\ "framed" # "payload" /\ "aead" # "payload"
      /\ {"framed", "aead", "payload"} \cap {"none", "signature"} = {}
    OBVIOUS
<1>9. ASSUME CtOf(m)[1] = "framed"
      PROVE  /\ ~HpkeMsg(m) /\ ~ExportMsg(m) /\ ~SignMsg(m)
             /\ \A k : ~KeyfileOf(m, k)
    BY <1>4, <1>5, <1>6, <1>7, <1>8, <1>9, ZenonT(30)
<1>10. ASSUME CtOf(m)[1] = "aead"
       PROVE  /\ ~AeadMsg(m) /\ ~BoxMsg(m) /\ ~DualMsg(m) /\ ~DekMsg(m) /\ ~ExportMsg(m)
              /\ ~SignMsg(m) /\ \A k : ~KeyfileOf(m, k)
    BY <1>2, <1>3, <1>5, <1>6, <1>7, <1>8, <1>10, ZenonT(30)
<1>11. ASSUME CtOf(m)[1] = "payload"
       PROVE  /\ ~AeadMsg(m) /\ ~BoxMsg(m) /\ ~DualMsg(m) /\ ~DekMsg(m) /\ ~ExportMsg(m)
              /\ ~SignMsg(m) /\ ~HpkeMsg(m)
    BY <1>2, <1>3, <1>4, <1>5, <1>7, <1>8, <1>11, ZenonT(30)
<1> QED
    BY <1>9, <1>10, <1>11, ZenonT(30) DEF Recorded

-----------------------------------------------------------------------------
\* The frames on record: the data under a key, bound to a context and an aad.
Framed(m, key, ctx, aad) ==
    CtOf(m) = encrypt(DataOf(m), key, ctx, aad, Random(NumOf(m), "nonce"))

LEMMA BoxFrames ==
    ASSUME NEW m
    PROVE  /\ BoxMsg(m) =>
                 /\ BoxKey(CtxOf(m), ToOf(m), NumOf(m)) # Failed
                 /\ add(CtxOf(m), W.data) # Invalid
                 /\ Framed(m, BoxKey(CtxOf(m), ToOf(m), NumOf(m)), add(CtxOf(m), W.data),
                           AadOf(m))
           /\ DualMsg(m) =>
                 /\ BoxKey(CtxOf(m), ToOf(m), NumOf(m)) # Failed
                 /\ add(CtxOf(m), W.data) # Invalid
                 /\ Framed(m, BoxKey(CtxOf(m), ToOf(m), NumOf(m)), add(CtxOf(m), W.data),
                           ReplyWire(ReplyOf(m)) \o AadOf(m))
<1> DEFINE Ct(ctx, u, aad, d, k) == seal(ctx, Public(KeyPair(u)), aad, d, k).ct
<1>1. ASSUME NEW ctx, NEW u, NEW aad, NEW d, NEW k, Ct(ctx, u, aad, d, k) # Failed
      PROVE  /\ BoxKey(ctx, u, k) # Failed /\ add(ctx, W.data) # Invalid
             /\ Ct(ctx, u, aad, d, k) =
                   encrypt(d, BoxKey(ctx, u, k), add(ctx, W.data), aad, Random(k, "nonce"))
  <2>1. Ct(ctx, u, aad, d, k) =
            IF BoxKey(ctx, u, k) = Failed \/ add(ctx, W.data) = Invalid THEN Failed
            ELSE encrypt(d, BoxKey(ctx, u, k), add(ctx, W.data), aad, Random(k, "nonce"))
      BY ZenonT(30) DEF seal, BoxKey
  <2> QED
      BY <1>1, <2>1, ZenonT(30)
<1>2. \A ctx, u, aad, d, k :
         LET s == DualSeal(ctx, Public(KeyPair(u)), aad, d, k)
         IN  s.ct = Ct(ctx, u, ReplyWire(s.reply) \o aad, d, k)
    BY DEF DualSeal
<1>3. ASSUME BoxMsg(m)
      PROVE  /\ BoxKey(CtxOf(m), ToOf(m), NumOf(m)) # Failed
             /\ add(CtxOf(m), W.data) # Invalid
             /\ Framed(m, BoxKey(CtxOf(m), ToOf(m), NumOf(m)), add(CtxOf(m), W.data), AadOf(m))
  <2> DEFINE ct == Ct(CtxOf(m), ToOf(m), AadOf(m), DataOf(m), NumOf(m))
  <2>1. CtOf(m) = ct /\ ct # Failed
      BY <1>3, ZenonT(30) DEF BoxMsg
  <2> HIDE DEF Ct
  <2>2. /\ BoxKey(CtxOf(m), ToOf(m), NumOf(m)) # Failed /\ add(CtxOf(m), W.data) # Invalid
        /\ ct = encrypt(DataOf(m), BoxKey(CtxOf(m), ToOf(m), NumOf(m)), add(CtxOf(m), W.data),
                        AadOf(m), Random(NumOf(m), "nonce"))
      BY <1>1, <2>1, ZenonT(30)
  <2> HIDE DEF ct
  <2> QED
      BY <2>1, <2>2, ZenonT(30) DEF Framed
<1>4. ASSUME DualMsg(m)
      PROVE  /\ BoxKey(CtxOf(m), ToOf(m), NumOf(m)) # Failed
             /\ add(CtxOf(m), W.data) # Invalid
             /\ Framed(m, BoxKey(CtxOf(m), ToOf(m), NumOf(m)), add(CtxOf(m), W.data),
                       ReplyWire(ReplyOf(m)) \o AadOf(m))
  <2> DEFINE s == DualSeal(CtxOf(m), Public(KeyPair(ToOf(m))), AadOf(m), DataOf(m), NumOf(m))
             ct == Ct(CtxOf(m), ToOf(m), ReplyWire(ReplyOf(m)) \o AadOf(m), DataOf(m), NumOf(m))
  <2>1. CtOf(m) = s.ct /\ s.ct # Failed /\ ReplyOf(m) = s.reply
      BY <1>4, ZenonT(30) DEF DualMsg
  <2> HIDE DEF Ct
  <2>2. s.ct = ct
      BY <1>2, <2>1, ZenonT(30)
  <2> HIDE DEF s
  <2>3. /\ BoxKey(CtxOf(m), ToOf(m), NumOf(m)) # Failed /\ add(CtxOf(m), W.data) # Invalid
        /\ ct = encrypt(DataOf(m), BoxKey(CtxOf(m), ToOf(m), NumOf(m)), add(CtxOf(m), W.data),
                        ReplyWire(ReplyOf(m)) \o AadOf(m), Random(NumOf(m), "nonce"))
      BY <1>1, <2>1, <2>2
  <2> HIDE DEF ct
  <2> QED
      BY <2>1, <2>2, <2>3, ZenonT(30) DEF Framed
<1> QED
    BY <1>3, <1>4

\* Symmetric keys, wrapping keys and the keys of boxes are never the same.
BaseKey(key) == Len(key) = 4 /\ Len(key[4]) = 5

LEMMA KeysApart ==
    /\ \A u, v, aad : Symmetric(u) # wrap_key(v, aad)
    /\ \A u, key : BaseKey(key) => Symmetric(u) # key
    /\ \A v, aad, key : BaseKey(key) => wrap_key(v, aad) # key
<1>1. \A u : Len(Symmetric(u)) = 3
    BY DEF Symmetric, Static
<1>2. \A v, aad : Len(wrap_key(v, aad)) = 4 /\ Len(wrap_key(v, aad)[4]) = 2
    BY DEF wrap_key, derive32, derive32_raw, Hkdf
<1> QED
    BY <1>1, <1>2 DEF BaseKey

LEMMA BaseKeys ==
    /\ \A ctx, u, k : BoxKey(ctx, u, k) # Failed => BaseKey(BoxKey(ctx, u, k))
    /\ \A ctx, me, x, kem : LET key == prep_base_key_for_decryption(ctx, me, x, kem)
                            IN  key # Failed => BaseKey(key)
<1>1. ASSUME NEW ctx, NEW me, NEW x, NEW kem, prep_base_key_for_decryption(ctx, me, x, kem) # Failed
      PROVE  BaseKey(prep_base_key_for_decryption(ctx, me, x, kem))
  <2>1. PICK e, s, h : prep_base_key_for_decryption(ctx, me, x, kem) =
            <<"hkdf", e, s, <<"base", label(add(ctx, W.base_key)), x, Pub(me.x), h>>>>
      BY <1>1, OpenKeyTerm, ZenonT(30)
  <2> QED
      BY <2>1 DEF BaseKey
<1> QED
    BY <1>1, BoxKeyShape DEF BaseKey

\* What the aads on record are made of.
LEMMA ReplyBytes ==
    ASSUME NEW a \in Aads, NEW j \in 1 .. MaxSeals
    PROVE  /\ ReplyWire(Public(ephemeral(j))) = <<100 + j>> /\ a \in Seq(Nat)
           /\ <<100 + j>> \o a \in Seq(Nat)
           /\ (<<100 + j>> \o a)[1] = 100 + j /\ <<100 + j>> \o a # << >>
<1>1. ReplyWire(Public(ephemeral(j))) = <<100 + j>>
    BY DEF ReplyWire, Public, ephemeral, Pub, Random
<1>2. a \in Seq(Nat) /\ <<100 + j>> \in Seq(Nat) /\ j \in Nat
    BY EnvelopeAssumption
<1> QED
    BY <1>1, <1>2

LEMMA AadFacts == \A a \in Aads : a \in Seq(Nat)
    BY EnvelopeAssumption

\* A reply key before an aad: bytes, but never those of an aad alone.
LEMMA ReplyAad ==
    ASSUME NEW a \in Aads, NEW j \in 1 .. MaxSeals, NEW reply, reply = Public(ephemeral(j))
    PROVE  ReplyWire(reply) \o a \in Seq(Nat) /\ \A b \in Aads : ReplyWire(reply) \o a # b
<1>1. \A b \in Aads : <<100 + j>> \o a # b
    BY ReplyBytes, KeysAssumption
<1>2. ReplyWire(reply) = <<100 + j>>
    BY ReplyBytes
<1>3. <<100 + j>> \o a \in Seq(Nat)
    BY ReplyBytes
<1> QED
    BY <1>1, <1>2, <1>3, ZenonT(30)

Wired(j, a) == ReplyWire(Public(ephemeral(j))) \o a

LEMMA ReplyTells ==
    ASSUME NEW a \in Aads, NEW b \in Aads, NEW j \in 1 .. MaxSeals, NEW k \in 1 .. MaxSeals,
           Wired(j, a) = Wired(k, b)
    PROVE  j = k /\ a = b
<1>1. /\ ReplyWire(Public(ephemeral(j))) = <<100 + j>>
      /\ ReplyWire(Public(ephemeral(k))) = <<100 + k>>
    BY ReplyBytes
<1>2. <<100 + j>> \o a = <<100 + k>> \o b
    BY <1>1, ZenonT(30) DEF Wired
<1>3. /\ a \in Seq(Nat) /\ (<<100 + j>> \o a)[1] = 100 + j
      /\ b \in Seq(Nat) /\ (<<100 + k>> \o b)[1] = 100 + k
    BY ReplyBytes
<1>4. 100 + j \in Nat /\ 100 + k \in Nat /\ j = k
    BY <1>2, <1>3
<1>5. \A q \in Seq(Nat), x \in Nat : /\ Len(<<x>> \o q) = Len(q) + 1
                                    /\ \A i \in 1 .. Len(q) : (<<x>> \o q)[i + 1] = q[i]
    OBVIOUS
<1>6. Len(a) = Len(b) /\ \A i \in 1 .. Len(a) : a[i] = b[i]
    BY <1>2, <1>3, <1>4, <1>5
<1>7. a = b
    BY <1>3, <1>6, SeqEqual, ZenonT(30)
<1> QED
    BY <1>4, <1>7, ZenonT(30)

\* Opening a frame: what the key and the binding say.
LEMMA FrameOpens ==
    ASSUME NEW m, NEW key, NEW ctx, NEW aad, Framed(m, key, ctx, aad),
           NEW key2, NEW ctx2, NEW aad2, decrypt(CtOf(m), key2, ctx2, aad2) # Failed
    PROVE  /\ key2 = key /\ bind_aad(ctx2, aad2) = bind_aad(ctx, aad)
           /\ decrypt(CtOf(m), key2, ctx2, aad2) = DataOf(m)
<1> DEFINE blob == encrypt(DataOf(m), key, ctx, aad, Random(NumOf(m), "nonce"))
<1>1. decrypt(blob, key2, ctx2, aad2) =
          IF key2 = key /\ bind_aad(ctx2, aad2) = bind_aad(ctx, aad) THEN DataOf(m) ELSE Failed
    BY DecryptFacts
<1>2. CtOf(m) = blob
    BY DEF Framed
<1> HIDE DEF blob
<1> QED
    BY <1>1, <1>2, ZenonT(30)

LEMMA FramedOnly ==
    ASSUME NEW ct, NEW key, NEW ctx, NEW aad, decrypt(ct, key, ctx, aad) # Failed
    PROVE  ct[1] = "framed"
    BY DEF decrypt

\* Contexts that are built are texts.
LEMMA TextsAreTexts ==
    ASSUME ContextsInv, NEW x \in Texts
    PROVE  Text(x)
<1>1. PICK c \in built : x = c.text
    BY DEF Texts
<1> QED
    BY <1>1, ZenonT(30) DEF ContextsInv

LEMMA DekText == Text(dek_ctx)
<1> DEFINE b == base(W.lithium)
           o == add(b, W.opaque)
<1>1. o # Invalid /\ add(o, W.dek_wrap) # Invalid /\ b # Invalid
    BY KeysAssumption, ZenonT(30) DEF dek_ctx, add
<1>2. b = W.lithium /\ validate_segment(W.lithium)
    BY <1>1 DEF base
<1>3. Text(b)
    BY <1>2, Words, ContextsAssumption, ZenonT(30) DEF validate_segment, Text, Without
<1> HIDE DEF b
<1>4. Text(o)
    BY <1>1, <1>3, Words, AddFacts, ZenonT(30)
<1> HIDE DEF o
<1>5. Text(add(o, W.dek_wrap))
    BY <1>1, <1>4, Words, AddFacts
<1> QED
    BY <1>5 DEF dek_ctx, o, b

-----------------------------------------------------------------------------
\* A frame on record, with the key it is under and the bytes it is bound to.
AeadFrame(m, key, bytes) ==
    /\ m.call \in Calls("aead") /\ key = Symmetric(ToOf(m))
    /\ bytes = bind_aad(CtxOf(m), AadOf(m))

DekFrame(m, key, bytes) ==
    /\ m.call \in Calls("dek") /\ key = wrap_key(ToOf(m), AadOf(m))
    /\ bytes = bind_aad(dek_ctx, AadOf(m))

BoxFrame(m, key, bytes, aad) ==
    /\ key = BoxKey(CtxOf(m), ToOf(m), NumOf(m)) /\ BaseKey(key)
    /\ add(CtxOf(m), W.data) # Invalid
    /\ bytes = bind_aad(add(CtxOf(m), W.data), aad)
    /\ \/ m.call \in Calls("box") /\ aad = AadOf(m)
       \/ /\ m.call \in Calls("dual") /\ DualMsg(m)
          /\ aad = ReplyWire(ReplyOf(m)) \o AadOf(m)

LEMMA FrameOf ==
    ASSUME OpenInv, NEW m \in sealed, NEW key, NEW ctx, NEW aad,
           decrypt(CtOf(m), key, ctx, aad) # Failed
    PROVE  /\ decrypt(CtOf(m), key, ctx, aad) = DataOf(m)
           /\ \/ AeadFrame(m, key, bind_aad(ctx, aad))
              \/ DekFrame(m, key, bind_aad(ctx, aad))
              \/ \E bound : BoxFrame(m, key, bind_aad(ctx, aad), bound)
<1>1. Recorded(m)
    BY DEF OpenInv
<1>2. CtOf(m)[1] = "framed"
    BY FramedOnly
<1>3. CASE m.call \in Calls("aead") /\ AeadMsg(m)
  <2>1. Framed(m, Symmetric(ToOf(m)), CtxOf(m), AadOf(m))
      BY <1>3, ZenonT(30) DEF AeadMsg, Framed
  <2>2. /\ key = Symmetric(ToOf(m)) /\ bind_aad(ctx, aad) = bind_aad(CtxOf(m), AadOf(m))
        /\ decrypt(CtOf(m), key, ctx, aad) = DataOf(m)
      BY <2>1, FrameOpens
  <2> QED
      BY <1>3, <2>2, ZenonT(30) DEF AeadFrame
<1>4. CASE m.call \in Calls("dek") /\ DekMsg(m)
  <2>1. Framed(m, wrap_key(ToOf(m), AadOf(m)), dek_ctx, AadOf(m))
      BY <1>4, ZenonT(30) DEF DekMsg, Framed
  <2>2. /\ key = wrap_key(ToOf(m), AadOf(m))
        /\ bind_aad(ctx, aad) = bind_aad(dek_ctx, AadOf(m))
        /\ decrypt(CtOf(m), key, ctx, aad) = DataOf(m)
      BY <2>1, FrameOpens
  <2> QED
      BY <1>4, <2>2, ZenonT(30) DEF DekFrame
<1>5. ASSUME NEW bound,
             \/ m.call \in Calls("box") /\ BoxMsg(m) /\ bound = AadOf(m)
             \/ /\ m.call \in Calls("dual") /\ DualMsg(m)
                /\ bound = ReplyWire(ReplyOf(m)) \o AadOf(m)
      PROVE  /\ decrypt(CtOf(m), key, ctx, aad) = DataOf(m)
             /\ BoxFrame(m, key, bind_aad(ctx, aad), bound)
  <2> DEFINE box == BoxKey(CtxOf(m), ToOf(m), NumOf(m))
             data_ctx == add(CtxOf(m), W.data)
  <2>1. box # Failed /\ data_ctx # Invalid /\ Framed(m, box, data_ctx, bound)
      BY <1>5, BoxFrames, ZenonT(30)
  <2>2. BaseKey(box)
      BY <2>1, BaseKeys, ZenonT(30)
  <2> HIDE DEF box, data_ctx
  <2>3. /\ key = box /\ bind_aad(ctx, aad) = bind_aad(data_ctx, bound)
        /\ decrypt(CtOf(m), key, ctx, aad) = DataOf(m)
      BY <2>1, FrameOpens
  <2> QED
      BY <1>5, <2>1, <2>2, <2>3, ZenonT(30) DEF box, data_ctx, BoxFrame
<1> QED
    BY <1>1, <1>2, <1>3, <1>4, <1>5, CtShapes, ZenonT(30)

LEMMA AeadForward ==
    ASSUME OpenInv, NEW m \in sealed, NEW c \in Calls("aead"),
           decrypt(CtOf(m), Symmetric(To(c)), Ctx(c), Aad(c)) # Failed
    PROVE  m.call = c /\ DataOf(m) = decrypt(CtOf(m), Symmetric(To(c)), Ctx(c), Aad(c))
<1> DEFINE r == decrypt(CtOf(m), Symmetric(To(c)), Ctx(c), Aad(c))
<1>1. /\ To(c) \in Users /\ Ctx(c) \in Texts /\ Aad(c) \in Aads
      /\ c = Call("aead", Ctx(c), To(c), << >>, Aad(c))
    BY CallFields
<1>2. /\ r = DataOf(m)
      /\ m.call \in Calls("aead") /\ Symmetric(To(c)) = Symmetric(ToOf(m))
      /\ bind_aad(Ctx(c), Aad(c)) = bind_aad(CtxOf(m), AadOf(m))
  <2> DEFINE bytes == bind_aad(Ctx(c), Aad(c))
  <2>1. /\ r = DataOf(m)
        /\ \/ AeadFrame(m, Symmetric(To(c)), bytes) \/ DekFrame(m, Symmetric(To(c)), bytes)
           \/ \E bound : BoxFrame(m, Symmetric(To(c)), bytes, bound)
      BY FrameOf
  <2>2. AeadFrame(m, Symmetric(To(c)), bytes)
      BY <2>1, KeysApart, ZenonT(30) DEF DekFrame, BoxFrame
  <2> QED
      BY <2>1, <2>2, ZenonT(30) DEF AeadFrame
<1>3. /\ ToOf(m) \in Users /\ CtxOf(m) \in Texts /\ AadOf(m) \in Aads
      /\ m.call = Call("aead", CtxOf(m), ToOf(m), << >>, AadOf(m))
    BY <1>2, RecordFields, ZenonT(30)
<1>4. To(c) = ToOf(m)
    BY <1>2, ZenonT(30) DEF Symmetric, Static
<1>5. Text(Ctx(c)) /\ Text(CtxOf(m)) /\ Aad(c) \in Seq(Nat) /\ AadOf(m) \in Seq(Nat)
    BY <1>1, <1>3, TextsAreTexts, AadFacts, ZenonT(30) DEF OpenInv, EnvelopeInv
<1>6. Ctx(c) = CtxOf(m) /\ Aad(c) = AadOf(m)
    BY <1>2, <1>5, BindingTells
<1> QED
    BY <1>1, <1>2, <1>3, <1>4, <1>6, ZenonT(30)

LEMMA DekForward ==
    ASSUME OpenInv, NEW m \in sealed, NEW c \in Calls("dek"),
           unwrap_dek_under_export_key(To(c), Aad(c), CtOf(m)) # Failed
    PROVE  m.call = c /\ DataOf(m) = unwrap_dek_under_export_key(To(c), Aad(c), CtOf(m))
<1> DEFINE key == wrap_key(To(c), Aad(c))
           r == decrypt(CtOf(m), key, dek_ctx, Aad(c))
<1>1. Aad(c) \in Aads /\ c = Call("dek", dek_ctx, To(c), << >>, Aad(c))
    BY CallFields, ZenonT(30)
<1>2. unwrap_dek_under_export_key(To(c), Aad(c), CtOf(m)) = r
    BY DEF unwrap_dek_under_export_key
<1>3. /\ r = DataOf(m)
      /\ m.call \in Calls("dek") /\ key = wrap_key(ToOf(m), AadOf(m))
      /\ bind_aad(dek_ctx, Aad(c)) = bind_aad(dek_ctx, AadOf(m))
  <2> DEFINE bytes == bind_aad(dek_ctx, Aad(c))
  <2>1. /\ r = DataOf(m)
        /\ \/ AeadFrame(m, key, bytes) \/ DekFrame(m, key, bytes)
           \/ \E bound : BoxFrame(m, key, bytes, bound)
      BY <1>2, FrameOf
  <2>2. DekFrame(m, key, bytes)
      BY <2>1, KeysApart, ZenonT(30) DEF AeadFrame, BoxFrame
  <2> QED
      BY <2>1, <2>2, ZenonT(30) DEF DekFrame
<1>4. AadOf(m) \in Aads /\ m.call = Call("dek", dek_ctx, ToOf(m), << >>, AadOf(m))
    BY <1>3, RecordFields, ZenonT(30)
<1>5. To(c) = ToOf(m)
    BY <1>3 DEF wrap_key, derive32, derive32_raw, Hkdf, Symmetric, Static
<1>6. Aad(c) = AadOf(m)
  <2>1. Text(dek_ctx) /\ Aad(c) \in Seq(Nat) /\ AadOf(m) \in Seq(Nat)
      BY <1>1, <1>4, DekText, AadFacts, ZenonT(30)
  <2> QED
      BY <1>3, <2>1, BindingTells, ZenonT(30)
<1> QED
    BY <1>1, <1>2, <1>3, <1>4, <1>5, <1>6, ZenonT(30)

\* A box or a Dual message was sealed with these bytes as its aad.
BoxedWith(m, aad) ==
    \/ m.call \in Calls("box") /\ aad = AadOf(m)
    \/ m.call \in Calls("dual") /\ DualMsg(m) /\ aad = ReplyWire(ReplyOf(m)) \o AadOf(m)

LEMMA BoxForward ==
    ASSUME OpenInv, NEW m \in sealed, NEW ctx \in Texts, NEW u \in Users, NEW aad \in Seq(Nat),
           NEW p, CtIn(p) = CtOf(m), open(ctx, KeyPair(u), aad, p) # Failed
    PROVE  /\ open(ctx, KeyPair(u), aad, p) = DataOf(m)
           /\ CtxOf(m) = ctx /\ ToOf(m) = u /\ BoxedWith(m, aad)
<1> DEFINE key == prep_base_key_for_decryption(ctx, KeyPair(u), XIn(p), KemIn(p))
           data_ctx == add(ctx, W.data)
           r == decrypt(CtOf(m), key, data_ctx, aad)
<1>1. key # Failed /\ data_ctx # Invalid /\ open(ctx, KeyPair(u), aad, p) = r /\ r # Failed
    BY ZenonT(30) DEF open, XIn, KemIn, CtIn, CtOf
<1>2. BaseKey(key)
    BY <1>1, BaseKeys, ZenonT(30)
<1>3. Text(ctx) /\ Text(data_ctx)
    BY <1>1, TextsAreTexts, Words, AddFacts, ZenonT(30) DEF OpenInv, EnvelopeInv
<1> HIDE DEF data_ctx
<1>4. r = DataOf(m) /\ \E bound : BoxFrame(m, key, bind_aad(data_ctx, aad), bound)
  <2> HIDE DEF key
  <2>1. /\ r = DataOf(m)
        /\ \/ AeadFrame(m, key, bind_aad(data_ctx, aad)) \/ DekFrame(m, key, bind_aad(data_ctx, aad))
           \/ \E bound : BoxFrame(m, key, bind_aad(data_ctx, aad), bound)
      BY <1>1, FrameOf, ZenonT(30)
  <2> QED
      BY <1>2, <2>1, KeysApart, ZenonT(30) DEF AeadFrame, DekFrame
<1>5. PICK bound : BoxFrame(m, key, bind_aad(data_ctx, aad), bound)
    BY <1>4, ZenonT(30)
<1>6. /\ CtxOf(m) \in Texts /\ ToOf(m) \in Users /\ AadOf(m) \in Aads
      /\ Text(CtxOf(m)) /\ Text(add(CtxOf(m), W.data))
  <2>1. CtxOf(m) \in Texts /\ ToOf(m) \in Users /\ AadOf(m) \in Aads
      BY <1>5, RecordFields, ZenonT(30) DEF BoxFrame
  <2>2. Text(CtxOf(m))
      BY <2>1, TextsAreTexts DEF OpenInv, EnvelopeInv
  <2>3. add(CtxOf(m), W.data) # Invalid
      BY <1>5, ZenonT(30) DEF BoxFrame
  <2> QED
      BY <2>1, <2>2, <2>3, Words, AddFacts, ZenonT(30)
<1>7. ctx = CtxOf(m) /\ u = ToOf(m)
  <2>1. key = BoxKey(CtxOf(m), ToOf(m), NumOf(m))
      BY <1>5, ZenonT(30) DEF BoxFrame
  <2> QED
      BY <1>1, <1>3, <1>6, <2>1, BoxKeyTells
<1>8. bound \in Seq(Nat)
  <2>1. CASE m.call \in Calls("box") /\ bound = AadOf(m)
      BY <1>6, <2>1, AadFacts
  <2>2. CASE DualMsg(m) /\ bound = ReplyWire(ReplyOf(m)) \o AadOf(m)
    <3>1. ReplyOf(m) = Public(ephemeral(NumOf(m))) /\ NumOf(m) \in 1 .. MaxSeals
        BY <2>2, ZenonT(30) DEF DualMsg, DualSeal, OpenInv
    <3> QED
        BY <1>6, <2>2, <3>1, ReplyAad, ZenonT(30)
  <2> QED
      BY <1>5, <2>1, <2>2, ZenonT(30) DEF BoxFrame
<1>9. aad = bound
  <2>1. bind_aad(data_ctx, aad) = bind_aad(add(CtxOf(m), W.data), bound)
      BY <1>5, ZenonT(30) DEF BoxFrame
  <2> QED
      BY <1>3, <1>6, <1>8, <2>1, BindingTells
<1> HIDE DEF key
<1> QED
    BY <1>1, <1>4, <1>5, <1>7, <1>9, ZenonT(30) DEF BoxFrame, BoxedWith

LEMMA SealedBoxForward ==
    ASSUME OpenInv, NEW m \in sealed, NEW c \in Calls("box"), NEW p, CtIn(p) = CtOf(m),
           open(Ctx(c), KeyPair(To(c)), Aad(c), p) # Failed
    PROVE  m.call = c /\ DataOf(m) = open(Ctx(c), KeyPair(To(c)), Aad(c), p)
<1>1. /\ Ctx(c) \in Texts /\ To(c) \in Users /\ Aad(c) \in Aads
      /\ c = Call("box", Ctx(c), To(c), << >>, Aad(c))
    BY CallFields, ZenonT(30)
<1>2. Aad(c) \in Seq(Nat)
    BY <1>1, AadFacts, ZenonT(30)
<1>3. /\ open(Ctx(c), KeyPair(To(c)), Aad(c), p) = DataOf(m)
      /\ CtxOf(m) = Ctx(c) /\ ToOf(m) = To(c) /\ BoxedWith(m, Aad(c))
    BY <1>1, <1>2, BoxForward
<1>4. ~(m.call \in Calls("dual") /\ DualMsg(m) /\ Aad(c) = ReplyWire(ReplyOf(m)) \o AadOf(m))
  <2>1. ASSUME m.call \in Calls("dual"), DualMsg(m)
        PROVE  Aad(c) # ReplyWire(ReplyOf(m)) \o AadOf(m)
    <3>1. ReplyOf(m) = Public(ephemeral(NumOf(m))) /\ NumOf(m) \in 1 .. MaxSeals
        BY <2>1, ZenonT(30) DEF DualMsg, DualSeal, OpenInv
    <3>2. AadOf(m) \in Aads
        BY <2>1, RecordFields, ZenonT(30)
    <3> QED
        BY <1>1, <3>1, <3>2, ReplyAad, ZenonT(30)
  <2> QED
      BY <2>1, ZenonT(30)
<1>5. m.call = Call("box", CtxOf(m), ToOf(m), << >>, AadOf(m)) /\ Aad(c) = AadOf(m)
    BY <1>3, <1>4, RecordFields, ZenonT(30) DEF BoxedWith
<1> QED
    BY <1>1, <1>3, <1>5, ZenonT(30)

LEMMA DualForward ==
    ASSUME OpenInv, NEW m \in sealed, NEW s \in sealed, NEW c \in Calls("dual"),
           NEW p, CtIn(p) = CtOf(m), ReplyIn(p) = ReplyOf(s), ReplyIn(p) # None,
           DualOpen(Ctx(c), KeyPair(To(c)), Aad(c), p) # Failed
    PROVE  /\ m.call = c /\ DataOf(m) = DualOpen(Ctx(c), KeyPair(To(c)), Aad(c), p)
           /\ ReplyOf(m) = ReplyIn(p)
<1> DEFINE aad == ReplyWire(ReplyIn(p)) \o Aad(c)
           r == open(Ctx(c), KeyPair(To(c)), aad, p)
<1>1. /\ Ctx(c) \in Texts /\ To(c) \in Users /\ Aad(c) \in Aads
      /\ c = Call("dual", Ctx(c), To(c), << >>, Aad(c))
    BY CallFields
<1>2. DualOpen(Ctx(c), KeyPair(To(c)), Aad(c), p) = r
    BY ZenonT(30) DEF DualOpen, ReplyIn
<1>3. ReplyIn(p) = Public(ephemeral(NumOf(s))) /\ NumOf(s) \in 1 .. MaxSeals
  <2>1. Recorded(s) /\ NumOf(s) \in 1 .. MaxSeals
      BY DEF OpenInv
  <2>2. DualMsg(s)
      BY <2>1, ZenonT(30) DEF Recorded, AeadMsg, BoxMsg, HpkeMsg, ExportMsg, DekMsg, KeyfileOf, SignMsg
  <2> QED
      BY <2>1, <2>2, ZenonT(30) DEF DualMsg, DualSeal
<1>4. aad \in Seq(Nat) /\ \A a \in Aads : aad # a
    BY <1>1, <1>3, ReplyAad, ZenonT(30)
<1> HIDE DEF aad
<1>5. /\ r = DataOf(m)
      /\ CtxOf(m) = Ctx(c) /\ ToOf(m) = To(c) /\ BoxedWith(m, aad)
    BY <1>1, <1>2, <1>4, BoxForward
<1>6. m.call \in Calls("box") => AadOf(m) \in Aads
    BY RecordFields, ZenonT(30)
<1>7. /\ m.call \in Calls("dual") /\ DualMsg(m)
      /\ aad = ReplyWire(ReplyOf(m)) \o AadOf(m)
    BY <1>4, <1>5, <1>6, ZenonT(30) DEF BoxedWith
<1>8. AadOf(m) \in Aads /\ m.call = Call("dual", CtxOf(m), ToOf(m), << >>, AadOf(m))
    BY <1>7, RecordFields, ZenonT(30)
<1>9. ReplyOf(m) = Public(ephemeral(NumOf(m))) /\ NumOf(m) \in 1 .. MaxSeals
    BY <1>7, ZenonT(30) DEF DualMsg, DualSeal, OpenInv
<1>10. ReplyOf(m) = ReplyIn(p) /\ AadOf(m) = Aad(c)
  <2>1. Wired(NumOf(m), AadOf(m)) = Wired(NumOf(s), Aad(c))
      BY <1>3, <1>7, <1>9, ZenonT(30) DEF aad, Wired
  <2>2. NumOf(m) = NumOf(s) /\ AadOf(m) = Aad(c)
      BY <1>1, <1>3, <1>8, <1>9, <2>1, ReplyTells, ZenonT(30)
  <2> QED
      BY <1>3, <1>9, <2>2, ZenonT(30)
<1> HIDE DEF r
<1> QED
    BY <1>1, <1>2, <1>5, <1>8, <1>10, ZenonT(30)

-----------------------------------------------------------------------------
\* The HPKE key schedule tells the shared secret, the context and the info.
LEMMA SharedTells ==
    ASSUME NEW x, NEW y, Text(x), Text(y), NEW u \in Users, NEW v \in Users, NEW p, NEW k,
           kem_decap(x, KeyPair(u), p) = kem_encap(y, Public(KeyPair(v)), k),
           kem_encap(y, Public(KeyPair(v)), k) # Failed
    PROVE  x = y /\ u = v
<1>1. /\ KemKey(x) # Invalid /\ KemKey(y) # Invalid
      /\ kem_decap(x, KeyPair(u), p) = prep_base_key_for_decryption(KemKey(x), KeyPair(u), XIn(p), KemIn(p))
      /\ kem_encap(y, Public(KeyPair(v)), k) = BoxKey(KemKey(y), v, k)
    BY ZenonT(30) DEF kem_decap, kem_encap, BoxKey, XIn, KemIn
<1>2. Text(KemKey(x)) /\ Text(KemKey(y))
    BY <1>1, Words, HpkeFacts, ZenonT(30) DEF KemKey
<1>3. KemKey(x) = KemKey(y) /\ u = v
  <2> DEFINE kx == KemKey(x)
             ky == KemKey(y)
  <2>1. /\ prep_base_key_for_decryption(kx, KeyPair(u), XIn(p), KemIn(p)) = BoxKey(ky, v, k)
        /\ BoxKey(ky, v, k) # Failed
      BY <1>1, ZenonT(30)
  <2>2. Text(kx) /\ Text(ky)
      BY <1>2, ZenonT(30)
  <2> HIDE DEF kx, ky
  <2>3. kx = ky /\ u = v
      BY <2>1, <2>2, BoxKeyTells
  <2> QED
      BY <2>3 DEF kx, ky
<1> QED
    BY <1>1, <1>3, Words, HpkeTells, ZenonT(30) DEF KemKey

LEMMA ScheduleTells ==
    ASSUME NEW x, NEW y, Text(x), Text(y), NEW s, NEW t, NEW seg \in Seq(Nat),
           NEW a \in Seq(Nat), NEW b \in Seq(Nat),
           Scheduled(x, s, a, seg) = Scheduled(y, t, b, seg), Scheduled(y, t, b, seg) # Failed
    PROVE  s = t /\ t # Failed /\ a = b
<1> DEFINE sx == add(Hpke(x, W.schedule), seg)
           sy == add(Hpke(y, W.schedule), seg)
<1>1. /\ sx # Invalid /\ sy # Invalid /\ t # Failed
      /\ derive32_raw(s, None, bind_aad(sx, a)) = derive32_raw(t, None, bind_aad(sy, b))
    BY ZenonT(30) DEF Scheduled
<1>2. Hpke(x, W.schedule) # Invalid /\ Hpke(y, W.schedule) # Invalid
    BY <1>1, ZenonT(30) DEF add
<1>3. Text(Hpke(x, W.schedule)) /\ Text(Hpke(y, W.schedule))
    BY <1>2, Words, HpkeFacts, ZenonT(30)
<1>4. Text(sx) /\ Text(sy)
    BY <1>1, <1>3, AddFacts, ZenonT(30)
<1> HIDE DEF sx, sy
<1>5. s = t /\ bind_aad(sx, a) = bind_aad(sy, b)
    BY <1>1, ZenonT(30) DEF derive32_raw, Hkdf
<1> QED
    BY <1>1, <1>4, <1>5, BindingTells

\* The two sides of an HPKE call, each from its own shared secret.
SenderSecret(m) == kem_encap(CtxOf(m), Public(KeyPair(ToOf(m))), NumOf(m))
ReceiverSecret(c, p) == kem_decap(Ctx(c), KeyPair(To(c)), p)

\* Any one output of the key schedule tells the whole call but its aad.
LEMMA ScheduleForward ==
    ASSUME OpenInv, NEW m, NEW c, NEW p, NEW seg \in Seq(Nat), NEW api \in {"hpke", "export"},
           m.call \in Calls(api), c \in Calls(api),
           Scheduled(Ctx(c), ReceiverSecret(c, p), Info(c), seg) =
               Scheduled(CtxOf(m), SenderSecret(m), InfoOf(m), seg),
           Scheduled(CtxOf(m), SenderSecret(m), InfoOf(m), seg) # Failed
    PROVE  CtxOf(m) = Ctx(c) /\ ToOf(m) = To(c) /\ InfoOf(m) = Info(c)
<1> DEFINE x == Ctx(c)  y == CtxOf(m)  u == To(c)  v == ToOf(m)  a == Info(c)  b == InfoOf(m)
           s == ReceiverSecret(c, p)  t == SenderSecret(m)
<1>1. /\ x \in Texts /\ y \in Texts /\ u \in Users /\ v \in Users /\ a \in Infos /\ b \in Infos
    BY CallFields, RecordFields, ZenonT(30)
<1>2. Text(x) /\ Text(y)
    BY <1>1, TextsAreTexts, ZenonT(30) DEF OpenInv, EnvelopeInv
<1>3. a \in Seq(Nat) /\ b \in Seq(Nat)
    BY <1>1, EnvelopeAssumption, ZenonT(30)
<1>4. Scheduled(x, s, a, seg) = Scheduled(y, t, b, seg) /\ Scheduled(y, t, b, seg) # Failed
    OBVIOUS
<1>5. /\ s = kem_decap(x, KeyPair(u), p) /\ t = kem_encap(y, Public(KeyPair(v)), NumOf(m))
    BY ZenonT(30) DEF ReceiverSecret, SenderSecret
<1> HIDE DEF x, y, u, v, a, b, s, t
<1>6. s = t /\ t # Failed /\ a = b
    BY <1>2, <1>3, <1>4, ScheduleTells
<1>7. x = y /\ u = v
  <2>1. /\ kem_decap(x, KeyPair(u), p) = kem_encap(y, Public(KeyPair(v)), NumOf(m))
        /\ kem_encap(y, Public(KeyPair(v)), NumOf(m)) # Failed
      BY <1>5, <1>6, ZenonT(30)
  <2> QED
      BY <1>1, <1>2, <2>1, SharedTells
<1> QED
    BY <1>6, <1>7 DEF x, y, u, v, a, b

LEMMA ScheduleParts ==
    ASSUME NEW ctx, NEW s, NEW info
    PROVE  LET hpke == key_schedule(ctx, s, info)
           IN  /\ hpke.key = Scheduled(ctx, s, info, W.key)
               /\ hpke.base_nonce = Scheduled(ctx, s, info, W.base_nonce)
               /\ hpke.exporter_secret = Scheduled(ctx, s, info, W.exporter_secret)
               /\ hpke.ok => /\ hpke.key # Failed /\ hpke.base_nonce # Failed
                             /\ hpke.exporter_secret # Failed
    BY ZenonT(30) DEF key_schedule

\* What an HPKE message on record holds.
LEMMA HpkeSealed ==
    ASSUME NEW m, HpkeMsg(m)
    PROVE  LET hpke == key_schedule(CtxOf(m), SenderSecret(m), InfoOf(m))
           IN  /\ hpke.ok /\ hpke.key # Failed
               /\ CtOf(m) = encrypt_raw(DataOf(m), hpke.key, hpke.base_nonce, AadOf(m))
               /\ XOf(m) = Pub(Random(NumOf(m), "x"))
               /\ KemOf(m) = encapsulate_kem(Pub(KeyPair(ToOf(m)).k), NumOf(m))
<1> DEFINE peer == Public(KeyPair(ToOf(m)))
           hpke == key_schedule(CtxOf(m), SenderSecret(m), InfoOf(m))
           s == seal_base(CtxOf(m), peer, InfoOf(m), AadOf(m), DataOf(m), NumOf(m))
<1>1. /\ s.x = Pub(Random(NumOf(m), "x")) /\ s.kem = encapsulate_kem(peer.k, NumOf(m))
      /\ s.ct = IF hpke.ok THEN encrypt_raw(DataOf(m), hpke.key, hpke.base_nonce, AadOf(m))
                ELSE Failed
    BY ZenonT(30) DEF seal_base, Enc, SenderSecret
<1>2. peer.k = Pub(KeyPair(ToOf(m)).k)
    BY ZenonT(30) DEF Public
<1>3. XOf(m) = s.x /\ KemOf(m) = s.kem /\ CtOf(m) = s.ct /\ s.ct # Failed
    BY ZenonT(30) DEF HpkeMsg
<1> HIDE DEF s, peer
<1>4. hpke.ok
    BY <1>1, <1>3, ZenonT(30)
<1>5. hpke.key # Failed
    BY <1>4, ScheduleParts, ZenonT(30)
<1> HIDE DEF hpke
<1>6. /\ hpke.ok /\ hpke.key # Failed
      /\ CtOf(m) = encrypt_raw(DataOf(m), hpke.key, hpke.base_nonce, AadOf(m))
      /\ XOf(m) = Pub(Random(NumOf(m), "x"))
      /\ KemOf(m) = encapsulate_kem(Pub(KeyPair(ToOf(m)).k), NumOf(m))
    BY <1>1, <1>2, <1>3, <1>4, <1>5, ZenonT(30)
<1> QED
    BY <1>6, ZenonT(30) DEF hpke

LEMMA HpkeForward ==
    ASSUME OpenInv, NEW m \in sealed, NEW c \in Calls("hpke"), NEW p, CtIn(p) = CtOf(m),
           open_base(Ctx(c), KeyPair(To(c)), Info(c), Aad(c), p) # Failed
    PROVE  m.call = c /\ DataOf(m) = open_base(Ctx(c), KeyPair(To(c)), Info(c), Aad(c), p)
<1> DEFINE mine == key_schedule(Ctx(c), ReceiverSecret(c, p), Info(c))
           hpke == key_schedule(CtxOf(m), SenderSecret(m), InfoOf(m))
           r == open_base(Ctx(c), KeyPair(To(c)), Info(c), Aad(c), p)
<1>1. mine.ok /\ r = decrypt_raw(CtOf(m), mine.key, mine.base_nonce, Aad(c)) /\ r # Failed
    BY ZenonT(30) DEF open_base, ReceiverSecret, CtIn
<1>2. CtOf(m)[1] = "aead"
    BY <1>1, ZenonT(30) DEF decrypt_raw
<1>3. m.call \in Calls("hpke") /\ HpkeMsg(m)
    BY <1>2, CtShapes, ZenonT(30) DEF OpenInv
<1>4. hpke.key # Failed /\ CtOf(m) = encrypt_raw(DataOf(m), hpke.key, hpke.base_nonce, AadOf(m))
    BY <1>3, HpkeSealed, ZenonT(30)
<1>5. /\ mine.key = Scheduled(Ctx(c), ReceiverSecret(c, p), Info(c), W.key)
      /\ hpke.key = Scheduled(CtxOf(m), SenderSecret(m), InfoOf(m), W.key)
    BY ScheduleParts, ZenonT(30)
<1> HIDE DEF mine, hpke, r
<1>6. mine.key = hpke.key /\ Aad(c) = AadOf(m) /\ r = DataOf(m)
  <2> DEFINE key == hpke.key
             nonce == hpke.base_nonce
             key2 == mine.key
             nonce2 == mine.base_nonce
  <2>1. /\ CtOf(m) = encrypt_raw(DataOf(m), key, nonce, AadOf(m))
        /\ r = decrypt_raw(CtOf(m), key2, nonce2, Aad(c)) /\ r # Failed
      BY <1>1, <1>4, ZenonT(30)
  <2> HIDE DEF key, nonce, key2, nonce2
  <2>2. key2 = key /\ nonce2 = nonce /\ Aad(c) = AadOf(m)
      BY <2>1, RawFacts
  <2>3. decrypt_raw(CtOf(m), key, nonce, AadOf(m)) = DataOf(m)
      BY <2>1, RawFacts
  <2> QED
      BY <2>1, <2>2, <2>3, ZenonT(30) DEF key, key2
<1>7. CtxOf(m) = Ctx(c) /\ ToOf(m) = To(c) /\ InfoOf(m) = Info(c)
  <2>1. W.key \in Seq(Nat)
      BY Words
  <2>2. Scheduled(Ctx(c), ReceiverSecret(c, p), Info(c), W.key) =
            Scheduled(CtxOf(m), SenderSecret(m), InfoOf(m), W.key)
      BY <1>5, <1>6, ZenonT(30)
  <2>3. Scheduled(CtxOf(m), SenderSecret(m), InfoOf(m), W.key) # Failed
      BY <1>4, <1>5, ZenonT(30)
  <2> QED
      BY <1>3, <2>1, <2>2, <2>3, ScheduleForward, ZenonT(30)
<1>8. /\ c = Call("hpke", Ctx(c), To(c), Info(c), Aad(c))
      /\ m.call = Call("hpke", CtxOf(m), ToOf(m), InfoOf(m), AadOf(m))
    BY <1>3, CallFields, RecordFields, ZenonT(30)
<1> QED
    BY <1>6, <1>7, <1>8, ZenonT(30) DEF r

\* What an exported secret is made from.
LEMMA ExportTerm ==
    ASSUME NEW ctx, NEW s, NEW info, NEW aad,
           export_secret(ctx, key_schedule(ctx, s, info), aad) # Failed
    PROVE  /\ Scheduled(ctx, s, info, W.exporter_secret) # Failed
           /\ Hpke(ctx, W.export) # Invalid
           /\ export_secret(ctx, key_schedule(ctx, s, info), aad) =
                 derive32_raw(Scheduled(ctx, s, info, W.exporter_secret), None,
                              bind_aad(Hpke(ctx, W.export), aad))
<1> DEFINE hpke == key_schedule(ctx, s, info)
<1>1. /\ hpke.exporter_secret = Scheduled(ctx, s, info, W.exporter_secret)
      /\ hpke.ok => hpke.exporter_secret # Failed
    BY ScheduleParts, ZenonT(30)
<1> HIDE DEF hpke
<1>2. hpke.ok /\ Hpke(ctx, W.export) # Invalid
    BY ZenonT(30) DEF export_secret, hpke
<1> QED
    BY <1>1, <1>2, ZenonT(30) DEF export_secret, hpke

\* Only a sender's call leaves a derived secret on record.
LEMMA DerivedData ==
    ASSUME NEW m, Recorded(m), Len(DataOf(m)) = 4
    PROVE  m.call \in Calls("export") /\ ExportMsg(m)
<1>1. \A k : Len(Datum(k)) = 2
    BY DEF Datum
<1>2. Len(None) = 1
    BY DEF None
<1>3. \A k : DataOf(m) # Datum(k)
    BY <1>1
<1>4. DataOf(m) # None
    BY <1>2
<1> QED
    BY <1>3, <1>4, ZenonT(30) DEF Recorded, AeadMsg, BoxMsg, DualMsg, HpkeMsg, DekMsg,
       KeyfileOf, SignMsg

LEMMA DataOnRecord ==
    ASSUME NEW m, Recorded(m)
    PROVE  DataOf(m) # Failed
<1>1. (\A k : Datum(k) # Failed) /\ None # Failed
    BY DEF Datum, None, Failed
<1> QED
    BY <1>1, ZenonT(30) DEF Recorded, AeadMsg, BoxMsg, DualMsg, HpkeMsg, ExportMsg, DekMsg,
       KeyfileOf, SignMsg

LEMMA ExportForward ==
    ASSUME OpenInv, NEW m \in sealed, NEW c \in Calls("export"), NEW p,
           DataOf(m) = setup_receiver_and_export(Ctx(c), KeyPair(To(c)), p, Info(c), Aad(c))
    PROVE  m.call = c
<1> DEFINE s == ReceiverSecret(c, p)
           t == SenderSecret(m)
<1>1. DataOf(m) # Failed
    BY DataOnRecord, ZenonT(30) DEF OpenInv
<1>2. DataOf(m) = export_secret(Ctx(c), key_schedule(Ctx(c), s, Info(c)), Aad(c))
    BY ZenonT(30) DEF setup_receiver_and_export, ReceiverSecret
<1>3. /\ Hpke(Ctx(c), W.export) # Invalid
      /\ DataOf(m) = derive32_raw(Scheduled(Ctx(c), s, Info(c), W.exporter_secret), None,
                               bind_aad(Hpke(Ctx(c), W.export), Aad(c)))
  <2> HIDE DEF s
  <2> QED
      BY <1>1, <1>2, ExportTerm
<1>4. Len(DataOf(m)) = 4
  <2>1. \A key, info : Len(derive32_raw(key, None, info)) = 4
      BY ZenonT(30) DEF derive32_raw, Hkdf
  <2> QED
      BY <1>3, <2>1, ZenonT(30)
<1>5. m.call \in Calls("export") /\ ExportMsg(m)
    BY <1>4, DerivedData DEF OpenInv
<1>6. DataOf(m) = export_secret(CtxOf(m), key_schedule(CtxOf(m), t, InfoOf(m)), AadOf(m))
    BY <1>5, ZenonT(30) DEF ExportMsg, setup_sender_and_export, SenderSecret
<1>7. /\ Hpke(CtxOf(m), W.export) # Invalid
      /\ Scheduled(CtxOf(m), t, InfoOf(m), W.exporter_secret) # Failed
      /\ DataOf(m) = derive32_raw(Scheduled(CtxOf(m), t, InfoOf(m), W.exporter_secret), None,
                               bind_aad(Hpke(CtxOf(m), W.export), AadOf(m)))
  <2> HIDE DEF t
  <2> QED
      BY <1>1, <1>6, ExportTerm, ZenonT(30)
<1>8. /\ Scheduled(Ctx(c), s, Info(c), W.exporter_secret) =
            Scheduled(CtxOf(m), t, InfoOf(m), W.exporter_secret)
      /\ bind_aad(Hpke(Ctx(c), W.export), Aad(c)) = bind_aad(Hpke(CtxOf(m), W.export), AadOf(m))
  <2> DEFINE a == Scheduled(Ctx(c), s, Info(c), W.exporter_secret)
             b == Scheduled(CtxOf(m), t, InfoOf(m), W.exporter_secret)
             x == bind_aad(Hpke(Ctx(c), W.export), Aad(c))
             y == bind_aad(Hpke(CtxOf(m), W.export), AadOf(m))
  <2>1. derive32_raw(a, None, x) = derive32_raw(b, None, y)
      BY <1>3, <1>7, ZenonT(30)
  <2> HIDE DEF a, b, x, y
  <2>2. a = b /\ x = y
      BY <2>1, ZenonT(30) DEF derive32_raw, Hkdf
  <2> QED
      BY <2>2 DEF a, b, x, y
<1>9. CtxOf(m) = Ctx(c) /\ ToOf(m) = To(c) /\ InfoOf(m) = Info(c)
  <2>1. W.exporter_secret \in Seq(Nat)
      BY Words
  <2> QED
      BY <1>5, <1>7, <1>8, <2>1, ScheduleForward, ZenonT(30)
<1>10. /\ Ctx(c) \in Texts /\ Aad(c) \in Aads /\ AadOf(m) \in Aads
       /\ c = Call("export", Ctx(c), To(c), Info(c), Aad(c))
       /\ m.call = Call("export", CtxOf(m), ToOf(m), InfoOf(m), AadOf(m))
    BY <1>5, CallFields, RecordFields, ZenonT(30)
<1>11. Aad(c) = AadOf(m)
  <2> DEFINE x == Hpke(Ctx(c), W.export)
  <2>1. Text(Ctx(c))
      BY <1>10, TextsAreTexts, ZenonT(30) DEF OpenInv, EnvelopeInv
  <2>2. Text(x)
      BY <1>3, <2>1, Words, HpkeFacts, ZenonT(30)
  <2>3. bind_aad(x, Aad(c)) = bind_aad(x, AadOf(m))
      BY <1>8, <1>9, ZenonT(30)
  <2>4. Aad(c) \in Seq(Nat) /\ AadOf(m) \in Seq(Nat)
      BY <1>10, AadFacts, ZenonT(30)
  <2> HIDE DEF x
  <2> QED
      BY <2>2, <2>3, <2>4, BindingTells, ZenonT(30)
<1> QED
    BY <1>9, <1>10, <1>11, ZenonT(30)

\* aad_for tells the type of a key.
LEMMA TypeTells ==
    ASSUME NEW a \in Infos, NEW b \in Infos, aad_for(a) = aad_for(b)
    PROVE  a = b
<1>1. a \in Seq(Nat) /\ b \in Seq(Nat)
    BY EnvelopeAssumption
<1>2. <<200, 1>> \o a = <<200, 1>> \o b
    BY DEF aad_for
<1>3. \A q \in Seq(Nat) : /\ Len(<<200, 1>> \o q) = Len(q) + 2
                          /\ \A i \in 1 .. Len(q) : (<<200, 1>> \o q)[i + 2] = q[i]
    OBVIOUS
<1>4. Len(a) = Len(b) /\ \A i \in 1 .. Len(a) : a[i] = b[i]
    BY <1>1, <1>2, <1>3
<1> QED
    BY <1>1, <1>4, SeqEqual, ZenonT(30)

LEMMA KeyfileForward ==
    ASSUME OpenInv, NEW m \in sealed, NEW s \in sealed, s.call.api = "keyfile",
           NEW c \in Calls("keyfile"), NEW p, WrapIn(p) = WrapOf(s), CtIn(p) = CtOf(m),
           load_bytes_decrypted(To(c), Info(c), p) # Failed
    PROVE  s.call = c /\ DataOf(s) = load_bytes_decrypted(To(c), Info(c), p)
<1> DEFINE aad == aad_for(Info(c))
           dek == unwrap_dek(To(c), WrapIn(p), aad)
           r == load_bytes_decrypted(To(c), Info(c), p)
<1>1. dek # Failed /\ CtIn(p)[1] = "payload" /\ r = decrypt_raw(CtIn(p)[3], dek, CtIn(p)[2], aad) /\ r # Failed
    BY ZenonT(30) DEF load_bytes_decrypted, WrapIn, CtIn
<1>2. s.call \in Calls("keyfile") /\ \E k \in 1 .. MaxSeals : KeyfileOf(s, k)
  <2>1. Recorded(s)
      BY ZenonT(30) DEF OpenInv
  <2> QED
      BY <2>1, CallFields, ZenonT(30) DEF Recorded
<1>3. PICK j \in 1 .. MaxSeals : KeyfileOf(s, j)
    BY <1>2, ZenonT(30)
<1>4. DataOf(s) = Datum(j)
    BY <1>3, KeyfilePayload, ZenonT(30)
<1>5. To(c) = ToOf(s) /\ aad = aad_for(InfoOf(s)) /\ dek = Random(j, "dek")
    BY <1>1, <1>3, KeyfileWrap, ZenonT(30)
<1>6. /\ Info(c) \in Infos /\ c = Call("keyfile", << >>, To(c), Info(c), << >>)
      /\ InfoOf(s) \in Infos /\ s.call = Call("keyfile", << >>, ToOf(s), InfoOf(s), << >>)
    BY <1>2, CallFields, RecordFields, ZenonT(30)
<1>7. Info(c) = InfoOf(s)
    BY <1>5, <1>6, TypeTells, ZenonT(30)
<1>8. PICK k \in 1 .. MaxSeals : KeyfileOf(m, k)
    BY <1>1, CtShapes, ZenonT(30) DEF OpenInv
<1> HIDE DEF dek, aad, r
<1>9. dek = Random(k, "dek") /\ r = Datum(k)
  <2>1. r = decrypt_raw(CtOf(m)[3], dek, CtOf(m)[2], aad) /\ r # Failed
      BY <1>1, ZenonT(30)
  <2>2. dek = Random(k, "dek") /\ aad = aad_for(InfoOf(m))
      BY <1>8, <2>1, KeyfilePayload, ZenonT(30)
  <2>3. decrypt_raw(CtOf(m)[3], Random(k, "dek"), CtOf(m)[2], aad_for(InfoOf(m))) = Datum(k)
      BY <1>8, KeyfilePayload, ZenonT(30)
  <2> QED
      BY <2>1, <2>2, <2>3, ZenonT(30)
<1>10. j = k
    BY <1>5, <1>9, RandomTells, ZenonT(30)
<1> QED
    BY <1>4, <1>5, <1>6, <1>7, <1>9, <1>10, ZenonT(30) DEF r

\* What was sealed opens: both sides of a box arrive at the same key.
LEMMA FrameBack ==
    ASSUME NEW m, NEW key, NEW ctx, NEW aad, Framed(m, key, ctx, aad)
    PROVE  decrypt(CtOf(m), key, ctx, aad) = DataOf(m)
<1> DEFINE blob == encrypt(DataOf(m), key, ctx, aad, Random(NumOf(m), "nonce"))
<1>1. decrypt(blob, key, ctx, aad) = DataOf(m)
    BY DecryptFacts
<1>2. CtOf(m) = blob
    BY DEF Framed
<1> HIDE DEF blob
<1> QED
    BY <1>1, <1>2, ZenonT(30)

LEMMA BoxParts ==
    ASSUME NEW m, BoxMsg(m) \/ DualMsg(m)
    PROVE  /\ XOf(m) = Pub(Random(NumOf(m), "x"))
           /\ KemOf(m) = encapsulate_kem(Pub(KeyPair(ToOf(m)).k), NumOf(m))
<1> DEFINE peer == Public(KeyPair(ToOf(m)))
<1>1. \A ctx, aad, d, k : /\ seal(ctx, peer, aad, d, k).x = Pub(Random(k, "x"))
                         /\ seal(ctx, peer, aad, d, k).kem = encapsulate_kem(peer.k, k)
    BY ZenonT(30) DEF seal
<1>2. \A ctx, aad, d, k : /\ DualSeal(ctx, peer, aad, d, k).x = Pub(Random(k, "x"))
                         /\ DualSeal(ctx, peer, aad, d, k).kem = encapsulate_kem(peer.k, k)
    BY <1>1, ZenonT(30) DEF DualSeal
<1>3. peer.k = Pub(KeyPair(ToOf(m)).k)
    BY ZenonT(30) DEF Public
<1> HIDE DEF peer
<1>4. BoxMsg(m) => XOf(m) = Pub(Random(NumOf(m), "x")) /\ KemOf(m) = encapsulate_kem(peer.k, NumOf(m))
    BY <1>1, ZenonT(30) DEF BoxMsg, peer
<1>5. DualMsg(m) => XOf(m) = Pub(Random(NumOf(m), "x")) /\ KemOf(m) = encapsulate_kem(peer.k, NumOf(m))
    BY <1>2, ZenonT(30) DEF DualMsg, peer
<1> QED
    BY <1>3, <1>4, <1>5, ZenonT(30)

LEMMA BoxBack ==
    ASSUME NEW m, NEW aad,
           \/ BoxMsg(m) /\ aad = AadOf(m)
           \/ DualMsg(m) /\ aad = ReplyWire(ReplyOf(m)) \o AadOf(m)
    PROVE  open(CtxOf(m), KeyPair(ToOf(m)), aad, m.parts) = DataOf(m)
<1> DEFINE key == BoxKey(CtxOf(m), ToOf(m), NumOf(m))
           data_ctx == add(CtxOf(m), W.data)
<1>1. key # Failed /\ data_ctx # Invalid /\ Framed(m, key, data_ctx, aad)
    BY BoxFrames, ZenonT(30)
<1>2. prep_base_key_for_decryption(CtxOf(m), KeyPair(ToOf(m)), XOf(m), KemOf(m)) = key
  <2>1. /\ XOf(m) = Pub(Random(NumOf(m), "x"))
        /\ KemOf(m) = encapsulate_kem(Pub(KeyPair(ToOf(m)).k), NumOf(m))
      BY BoxParts, ZenonT(30)
  <2>2. prep_base_key_for_decryption(CtxOf(m), KeyPair(ToOf(m)), Pub(Random(NumOf(m), "x")),
                                     encapsulate_kem(Pub(KeyPair(ToOf(m)).k), NumOf(m))) = key
      BY BoxKeysAgree, ZenonT(30)
  <2> HIDE DEF key
  <2> QED
      BY <2>1, <2>2, ZenonT(30)
<1> HIDE DEF key
<1>3. decrypt(CtOf(m), key, data_ctx, aad) = DataOf(m)
    BY <1>1, FrameBack
<1> QED
    BY <1>1, <1>2, <1>3, ZenonT(30) DEF open, XOf, KemOf, CtOf

LEMMA SecretsAgree ==
    ASSUME NEW m, XOf(m) = Pub(Random(NumOf(m), "x")),
           KemOf(m) = encapsulate_kem(Pub(KeyPair(ToOf(m)).k), NumOf(m))
    PROVE  ReceiverSecret(m.call, m.parts) = SenderSecret(m)
<1> DEFINE ctx == KemKey(CtxOf(m))
           u == ToOf(m)
           k == NumOf(m)
<1>1. /\ ReceiverSecret(m.call, m.parts) =
            IF ctx = Invalid THEN Failed
            ELSE prep_base_key_for_decryption(ctx, KeyPair(u), Pub(Random(k, "x")),
                                              encapsulate_kem(Pub(KeyPair(u).k), k))
      /\ SenderSecret(m) = IF ctx = Invalid THEN Failed ELSE BoxKey(ctx, u, k)
    BY ZenonT(30) DEF ReceiverSecret, SenderSecret, kem_decap, kem_encap, BoxKey,
       CtxOf, ToOf, XOf, KemOf, Ctx, To
<1> HIDE DEF ctx, u, k
<1>2. prep_base_key_for_decryption(ctx, KeyPair(u), Pub(Random(k, "x")),
                                   encapsulate_kem(Pub(KeyPair(u).k), k)) = BoxKey(ctx, u, k)
    BY BoxKeysAgree, ZenonT(30)
<1> QED
    BY <1>1, <1>2, ZenonT(30)

LEMMA HpkeBack ==
    ASSUME NEW m, HpkeMsg(m)
    PROVE  open_base(CtxOf(m), KeyPair(ToOf(m)), InfoOf(m), AadOf(m), m.parts) = DataOf(m)
<1> DEFINE hpke == key_schedule(CtxOf(m), SenderSecret(m), InfoOf(m))
           key == hpke.key
           nonce == hpke.base_nonce
<1>1. /\ hpke.ok /\ CtOf(m) = encrypt_raw(DataOf(m), key, nonce, AadOf(m))
      /\ XOf(m) = Pub(Random(NumOf(m), "x"))
      /\ KemOf(m) = encapsulate_kem(Pub(KeyPair(ToOf(m)).k), NumOf(m))
    BY HpkeSealed, ZenonT(30)
<1>2. kem_decap(CtxOf(m), KeyPair(ToOf(m)), m.parts) = SenderSecret(m)
    BY <1>1, SecretsAgree, ZenonT(30) DEF ReceiverSecret, CtxOf, ToOf, Ctx, To
<1> HIDE DEF key, nonce
<1>3. decrypt_raw(CtOf(m), key, nonce, AadOf(m)) = DataOf(m)
    BY <1>1, RawFacts
<1> QED
    BY <1>1, <1>2, <1>3, ZenonT(30) DEF open_base, CtOf, key, nonce

LEMMA ExportBack ==
    ASSUME NEW m, ExportMsg(m)
    PROVE  setup_receiver_and_export(CtxOf(m), KeyPair(ToOf(m)), m.parts, InfoOf(m),
                                     AadOf(m)) = DataOf(m)
<1> DEFINE peer == Public(KeyPair(ToOf(m)))
<1>1. Enc(peer, NumOf(m)).x = Pub(Random(NumOf(m), "x")) /\ Enc(peer, NumOf(m)).kem = encapsulate_kem(peer.k, NumOf(m))
    BY ZenonT(30) DEF Enc
<1>2. peer.k = Pub(KeyPair(ToOf(m)).k)
    BY ZenonT(30) DEF Public
<1>3. /\ DataOf(m) = setup_sender_and_export(CtxOf(m), peer, InfoOf(m), AadOf(m), NumOf(m))
      /\ XOf(m) = Enc(peer, NumOf(m)).x /\ KemOf(m) = Enc(peer, NumOf(m)).kem
    BY ZenonT(30) DEF ExportMsg
<1> HIDE DEF peer
<1>4. ReceiverSecret(m.call, m.parts) = SenderSecret(m)
    BY <1>1, <1>2, <1>3, SecretsAgree, ZenonT(30)
<1>5. DataOf(m) = export_secret(CtxOf(m), key_schedule(CtxOf(m), SenderSecret(m), InfoOf(m)),
                             AadOf(m))
    BY <1>3, ZenonT(30) DEF setup_sender_and_export, SenderSecret, peer
<1> QED
    BY <1>4, <1>5, ZenonT(30) DEF setup_receiver_and_export, ReceiverSecret,
       CtxOf, ToOf, Ctx, To

LEMMA KeyfileBack ==
    ASSUME NEW m, NEW k, KeyfileOf(m, k)
    PROVE  load_bytes_decrypted(ToOf(m), InfoOf(m), m.parts) = DataOf(m)
<1> DEFINE aad == aad_for(InfoOf(m))
           dek == Random(k, "dek")
<1>1. unwrap_dek(ToOf(m), WrapOf(m), aad) = dek
    BY KeyfileWrap, ZenonT(30)
<1>2. CtOf(m)[1] = "payload" /\ decrypt_raw(CtOf(m)[3], dek, CtOf(m)[2], aad) = DataOf(m)
    BY KeyfilePayload, ZenonT(30)
<1>3. dek # Failed
    BY DEF Random, Failed
<1> HIDE DEF dek
<1> QED
    BY <1>1, <1>2, <1>3, ZenonT(30) DEF load_bytes_decrypted, WrapOf, CtOf

LEMMA OpenCases ==
    ASSUME NEW c, NEW p
    PROVE  /\ c.api = "aead" => Open(c, p) = decrypt(CtIn(p), Symmetric(To(c)), Ctx(c), Aad(c))
           /\ c.api = "box" => Open(c, p) = open(Ctx(c), KeyPair(To(c)), Aad(c), p)
           /\ c.api = "dual" => Open(c, p) = DualOpen(Ctx(c), KeyPair(To(c)), Aad(c), p)
           /\ c.api = "hpke" => Open(c, p) = open_base(Ctx(c), KeyPair(To(c)), Info(c), Aad(c), p)
           /\ c.api = "export" =>
                 Open(c, p) = setup_receiver_and_export(Ctx(c), KeyPair(To(c)), p, Info(c), Aad(c))
           /\ c.api = "dek" => Open(c, p) = unwrap_dek_under_export_key(To(c), Aad(c), CtIn(p))
           /\ c.api = "keyfile" => Open(c, p) = load_bytes_decrypted(To(c), Info(c), p)
    BY ZenonT(30) DEF Open, Ctx, To, Aad, Info, CtIn

\* Every part that arrives is a part of a message on record.
LEMMA ArrivalCts ==
    ASSUME NEW api \in Apis \ {"export"}, NEW p \in Arrivals(api)
    PROVE  /\ \E m \in sealed : CtIn(p) = CtOf(m)
           /\ api = "dual" => ReplyIn(p) # None /\ \E s \in sealed : ReplyIn(p) = ReplyOf(s)
           /\ api = "keyfile" => \E s \in sealed : s.call.api = "keyfile" /\ WrapIn(p) = WrapOf(s)
<1>1. \A ct \in Cts : \E m \in sealed : ct = CtOf(m)
    BY DEF Cts, Seen, CtOf
<1>2. \A r \in Seen("reply") : r # None /\ \E s \in sealed : r = ReplyOf(s)
    BY ZenonT(30) DEF Seen, ReplyOf
<1>3. CASE api \in {"aead", "dek"}
  <2>1. Arrivals(api) = {Pieces(None, None, None, None, ct) : ct \in Cts}
      BY <1>3 DEF Arrivals
  <2>2. PICK ct \in Cts : p = Pieces(None, None, None, None, ct)
      BY <2>1, ZenonT(30)
  <2>3. CtIn(p) = ct
      BY <2>2, PartFields DEF CtIn, ReplyIn
  <2> QED
      BY <1>1, <1>3, <2>3, ZenonT(30)
<1>4. CASE api \in {"box", "hpke"}
  <2>1. Arrivals(api) = {Pieces(None, x, kem, None, ct) :
                            x \in Xs, kem \in Kems, ct \in Cts}
      BY <1>4 DEF Arrivals
  <2>2. PICK x \in Xs, kem \in Kems, ct \in Cts : p = Pieces(None, x, kem, None, ct)
      BY <2>1
  <2>3. CtIn(p) = ct
      BY <2>2, PartFields DEF CtIn, ReplyIn
  <2> QED
      BY <1>1, <1>4, <2>3, ZenonT(30)
<1>5. CASE api = "dual"
  <2>1. Arrivals("dual") = {Pieces(r, x, kem, None, ct) :
                               r \in Seen("reply"), x \in Xs, kem \in Kems, ct \in Cts}
      BY DEF Arrivals
  <2>2. PICK r \in Seen("reply"), x \in Xs, kem \in Kems, ct \in Cts :
                p = Pieces(r, x, kem, None, ct)
      BY <1>5, <2>1
  <2>3. CtIn(p) = ct /\ ReplyIn(p) = r
      BY <2>2, PartFields DEF CtIn, ReplyIn
  <2> QED
      BY <1>1, <1>2, <1>5, <2>3, ZenonT(30)
<1>6. CASE api = "keyfile"
  <2> DEFINE wraps == {WrapOf(m) : m \in {s \in sealed : s.call.api = "keyfile"}}
  <2>1. Arrivals("keyfile") = {Pieces(None, None, None, w, ct) : w \in wraps, ct \in Cts}
      BY DEF Arrivals, WrapOf
  <2>2. \A w \in wraps : \E s \in sealed : s.call.api = "keyfile" /\ w = WrapOf(s)
      OBVIOUS
  <2> HIDE DEF wraps
  <2>3. PICK w \in wraps, ct \in Cts : p = Pieces(None, None, None, w, ct)
      BY <1>6, <2>1
  <2>4. CtIn(p) = ct /\ WrapIn(p) = w
      BY <2>3, PartFields DEF CtIn, WrapIn
  <2> QED
      BY <1>1, <1>6, <2>2, <2>4, ZenonT(30)
<1> QED
    BY <1>3, <1>4, <1>5, <1>6, ZenonT(30) DEF Apis

LEMMA OpensOnlyAsSealed ==
    ASSUME OpenInv, NEW api \in Apis, NEW p \in Arrivals(api), NEW c \in Calls(api),
           IF api = "export" THEN \E m \in sealed : DataOf(m) = Open(c, p) ELSE Open(c, p) # Failed
    PROVE  \E m \in sealed : /\ m.call = c /\ DataOf(m) = Open(c, p)
                             /\ api = "dual" => ReplyOf(m) = ReplyIn(p)
<1>1. c.api = api
    BY CallFields, ZenonT(30) DEF Apis
<1>2. CASE api = "export"
  <2>1. PICK m \in sealed : DataOf(m) = Open(c, p)
      BY <1>2
  <2>2. Open(c, p) = setup_receiver_and_export(Ctx(c), KeyPair(To(c)), p, Info(c), Aad(c))
      BY <1>1, <1>2, OpenCases, ZenonT(30)
  <2>3. m.call = c
      BY <1>2, <2>1, <2>2, ExportForward, ZenonT(30)
  <2> QED
      BY <1>2, <2>1, <2>3, ZenonT(30)
<1>3. CASE api # "export"
  <2>1. Open(c, p) # Failed /\ api \in Apis \ {"export"}
      BY <1>3, ZenonT(30)
  <2>2. PICK m \in sealed : CtIn(p) = CtOf(m)
      BY <2>1, ArrivalCts, ZenonT(30)
  <2>3. CASE api = "aead"
    <3>1. Open(c, p) = decrypt(CtOf(m), Symmetric(To(c)), Ctx(c), Aad(c))
        BY <1>1, <2>2, <2>3, OpenCases, ZenonT(30)
    <3>2. m.call = c /\ DataOf(m) = Open(c, p)
        BY <2>1, <2>3, <3>1, AeadForward, ZenonT(30)
    <3> QED
        BY <2>3, <3>2
  <2>4. CASE api = "dek"
    <3>1. Open(c, p) = unwrap_dek_under_export_key(To(c), Aad(c), CtOf(m))
        BY <1>1, <2>2, <2>4, OpenCases, ZenonT(30)
    <3>2. m.call = c /\ DataOf(m) = Open(c, p)
        BY <2>1, <2>4, <3>1, DekForward, ZenonT(30)
    <3> QED
        BY <2>4, <3>2
  <2>5. CASE api = "box"
    <3>1. Open(c, p) = open(Ctx(c), KeyPair(To(c)), Aad(c), p)
        BY <1>1, <2>5, OpenCases, ZenonT(30)
    <3>2. m.call = c /\ DataOf(m) = Open(c, p)
        BY <2>1, <2>2, <2>5, <3>1, SealedBoxForward, ZenonT(30)
    <3> QED
        BY <2>5, <3>2, ZenonT(30)
  <2>6. CASE api = "hpke"
    <3>1. Open(c, p) = open_base(Ctx(c), KeyPair(To(c)), Info(c), Aad(c), p)
        BY <1>1, <2>6, OpenCases, ZenonT(30)
    <3>2. m.call = c /\ DataOf(m) = Open(c, p)
        BY <2>1, <2>2, <2>6, <3>1, HpkeForward, ZenonT(30)
    <3> QED
        BY <2>6, <3>2, ZenonT(30)
  <2>7. CASE api = "dual"
    <3>1. Open(c, p) = DualOpen(Ctx(c), KeyPair(To(c)), Aad(c), p)
        BY <1>1, <2>7, OpenCases, ZenonT(30)
    <3>2. PICK s \in sealed : ReplyIn(p) = ReplyOf(s) /\ ReplyIn(p) # None
        BY <2>1, <2>7, ArrivalCts, ZenonT(30)
    <3>3. c \in Calls("dual") /\ DualOpen(Ctx(c), KeyPair(To(c)), Aad(c), p) # Failed
        BY <2>1, <2>7, <3>1, ZenonT(30)
    <3>4. /\ m.call = c /\ DataOf(m) = DualOpen(Ctx(c), KeyPair(To(c)), Aad(c), p)
          /\ ReplyOf(m) = ReplyIn(p)
        BY <2>2, <3>2, <3>3, DualForward, ZenonT(30)
    <3> QED
        BY <3>1, <3>4, ZenonT(30)
  <2>8. CASE api = "keyfile"
    <3>1. Open(c, p) = load_bytes_decrypted(To(c), Info(c), p)
        BY <1>1, <2>8, OpenCases, ZenonT(30)
    <3>2. PICK s \in sealed : s.call.api = "keyfile" /\ WrapIn(p) = WrapOf(s)
        BY <2>1, <2>8, ArrivalCts, ZenonT(30)
    <3>3. c \in Calls("keyfile") /\ load_bytes_decrypted(To(c), Info(c), p) # Failed
        BY <2>1, <2>8, <3>1, ZenonT(30)
    <3>4. s.call = c /\ DataOf(s) = load_bytes_decrypted(To(c), Info(c), p)
        BY <2>2, <3>2, <3>3, KeyfileForward, ZenonT(30)
    <3> QED
        BY <2>8, <3>1, <3>4, ZenonT(30)
  <2> QED
      BY <2>1, <2>3, <2>4, <2>5, <2>6, <2>7, <2>8, ZenonT(30) DEF Apis
<1> QED
    BY <1>2, <1>3

LEMMA SealedOpens ==
    ASSUME OpenInv, NEW m \in sealed, m.call.api \in Apis
    PROVE  Open(m.call, m.parts) = DataOf(m)
<1>1. Recorded(m)
    BY DEF OpenInv
<1>2. CASE m.call \in Calls("aead") /\ AeadMsg(m)
  <2>1. Framed(m, Symmetric(ToOf(m)), CtxOf(m), AadOf(m))
      BY <1>2, ZenonT(30) DEF AeadMsg, Framed
  <2>2. decrypt(CtOf(m), Symmetric(ToOf(m)), CtxOf(m), AadOf(m)) = DataOf(m)
      BY <2>1, FrameBack, ZenonT(30)
  <2>3. m.call.api = "aead"
      BY <1>2, CallFields, ZenonT(30)
  <2> QED
      BY <2>2, <2>3, OpenCases, ZenonT(30) DEF CtxOf, ToOf, AadOf, InfoOf, CtOf,
         Ctx, To, Aad, Info, CtIn
<1>3. CASE m.call \in Calls("dek") /\ DekMsg(m)
  <2>1. Framed(m, wrap_key(ToOf(m), AadOf(m)), dek_ctx, AadOf(m))
      BY <1>3, ZenonT(30) DEF DekMsg, Framed
  <2>2. decrypt(CtOf(m), wrap_key(ToOf(m), AadOf(m)), dek_ctx, AadOf(m)) = DataOf(m)
      BY <2>1, FrameBack, ZenonT(30)
  <2>3. m.call.api = "dek"
      BY <1>3, CallFields, ZenonT(30)
  <2> QED
      BY <2>2, <2>3, OpenCases, ZenonT(30) DEF unwrap_dek_under_export_key, ToOf, AadOf, CtOf,
         To, Aad, CtIn
<1>4. CASE m.call \in Calls("box") /\ BoxMsg(m)
  <2>1. open(CtxOf(m), KeyPair(ToOf(m)), AadOf(m), m.parts) = DataOf(m)
      BY <1>4, BoxBack, ZenonT(30)
  <2>2. m.call.api = "box"
      BY <1>4, CallFields, ZenonT(30)
  <2> QED
      BY <2>1, <2>2, OpenCases, ZenonT(30) DEF CtxOf, ToOf, AadOf, InfoOf, CtOf,
         Ctx, To, Aad, Info, CtIn
<1>5. CASE m.call \in Calls("dual") /\ DualMsg(m)
  <2>1. open(CtxOf(m), KeyPair(ToOf(m)), ReplyWire(ReplyOf(m)) \o AadOf(m), m.parts) = DataOf(m)
      BY <1>5, BoxBack, ZenonT(30)
  <2>2. m.call.api = "dual"
      BY <1>5, CallFields, ZenonT(30)
  <2> QED
      BY <2>1, <2>2, OpenCases, ZenonT(30) DEF DualOpen, CtxOf, ToOf, AadOf, ReplyOf,
         Ctx, To, Aad
<1>6. CASE m.call \in Calls("hpke") /\ HpkeMsg(m)
  <2>1. open_base(CtxOf(m), KeyPair(ToOf(m)), InfoOf(m), AadOf(m), m.parts) = DataOf(m)
      BY <1>6, HpkeBack
  <2>2. m.call.api = "hpke"
      BY <1>6, CallFields, ZenonT(30)
  <2> QED
      BY <2>1, <2>2, OpenCases, ZenonT(30) DEF CtxOf, ToOf, AadOf, InfoOf, CtOf,
         Ctx, To, Aad, Info, CtIn
<1>7. CASE m.call \in Calls("export") /\ ExportMsg(m)
  <2>1. setup_receiver_and_export(CtxOf(m), KeyPair(ToOf(m)), m.parts, InfoOf(m),
                                  AadOf(m)) = DataOf(m)
      BY <1>7, ExportBack
  <2>2. m.call.api = "export"
      BY <1>7, CallFields, ZenonT(30)
  <2> QED
      BY <2>1, <2>2, OpenCases, ZenonT(30) DEF CtxOf, ToOf, AadOf, InfoOf, CtOf,
         Ctx, To, Aad, Info, CtIn
<1>8. CASE m.call \in Calls("keyfile") /\ \E k \in 1 .. MaxSeals : KeyfileOf(m, k)
  <2>1. load_bytes_decrypted(ToOf(m), InfoOf(m), m.parts) = DataOf(m)
      BY <1>8, KeyfileBack, ZenonT(30)
  <2>2. m.call.api = "keyfile"
      BY <1>8, CallFields, ZenonT(30)
  <2> QED
      BY <2>1, <2>2, OpenCases, ZenonT(30) DEF CtxOf, ToOf, AadOf, InfoOf, CtOf,
         Ctx, To, Aad, Info, CtIn
<1>9. m.call.api \notin {"ed", "dili", "double"}
    BY ZenonT(30) DEF Apis
<1> QED
    BY <1>1, <1>2, <1>3, <1>4, <1>5, <1>6, <1>7, <1>8, <1>9, ZenonT(30) DEF Recorded

(***************************************************************************)
(* Whatever parts of whatever messages are put together, a call opens them *)
(* exactly when they are the parts of one message sealed with its key,     *)
(* context, aad and info, and then to what was sealed: aead, box, Dual,    *)
(* HPKE and its exports, wrapped DEKs and keyfiles, in any number of calls *)
(* (encrypt, box_open, open_with_reply, hpke open, decrypt_dek,            *)
(* load_bytes_decrypted).                                                  *)
(***************************************************************************)
THEOREM SealedMessagesOpen == Spec => []OpensExactlyAsSealed
<1>1. OpenInv => OpensExactlyAsSealed
  <2> SUFFICES ASSUME OpenInv PROVE OpensExactlyAsSealed
      OBVIOUS
  <2> QED
      BY OpensOnlyAsSealed, SealedOpens, ZenonT(30) DEF OpensExactlyAsSealed, ReplyOf,
         ReplyIn, DataOf
<1> QED
    BY <1>1, OpenInvariant, PTL
=============================================================================

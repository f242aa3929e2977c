---------------------------- MODULE DirTreeProofs ----------------------------
(***************************************************************************)
(* The directory lister: its types, and that what it prints is the         *)
(* promised listing or its beginning.                                      *)
(***************************************************************************)
EXTENDS DirTree, DataLemmas

Frame == [dn : Seq(Nat), unread : SUBSET Nat, entries : Seq(Nat),
          capacity : Nat, i : Nat]
LineType == [arg : Nat, path : Seq(Nat), kind : {"name", "entry", "denied", "error"}]
Statistics == [DOMAIN Zero -> Nat]
Summaries == UNION {[S -> Nat] : S \in SUBSET DOMAIN Zero}

\* What is true of every activation of processDir.
FrameOK(f) ==
  /\ f.dn \in DOMAIN fs
  /\ Range(f.entries) \cup f.unread \subseteq Children(f.dn)
  /\ f.capacity > 0 /\ Len(f.entries) <= f.capacity
  /\ f.i <= Len(f.entries) + 1 /\ (f.i = 0 \/ f.unread = {})

Typed ==
  /\ fs \in Trees /\ args \in Arguments /\ flags \in Options
  /\ directories \in Seq(Seq(Nat)) /\ Len(directories) <= MAX_DIR
  /\ n \in Nat \ {0}
  /\ stack \in Seq(Frame) /\ Len(stack) <= MAX_STREAMS
  /\ \A j \in DOMAIN stack : FrameOK(stack[j])
  /\ dstat \in Statistics /\ tstat \in Statistics
  /\ out \in Seq(LineType) /\ printed \in Seq(Summaries)
  /\ status \in {"start", "main", "walk", "exited", "failed", "undefined"}

-----------------------------------------------------------------------------
(* Paths.                                                                  *)

LEMMA PathEqual ==
  ASSUME NEW p \in Seq(Nat), NEW q \in Seq(Nat), Len(p) = Len(q),
         \A x \in 1 .. Len(p) : p[x] = q[x]
  PROVE  p = q
OBVIOUS

LEMMA PrefixIs ==
  ASSUME NEW p \in Seq(Nat), NEW q \in Seq(Nat)
  PROVE  IsStrictPrefix(p, q) <=> /\ Len(p) < Len(q)
                                  /\ \A x \in 1 .. Len(p) : p[x] = q[x]
<1>1. ASSUME Len(p) <= Len(q)
      PROVE SubSeq(p, 1, Len(p)) = SubSeq(q, 1, Len(p)) <=> \A x \in 1 .. Len(p) : p[x] = q[x]
  <2> DEFINE a == SubSeq(p, 1, Len(p))
             b == SubSeq(q, 1, Len(p))
  <2>1. a \in Seq(Nat) /\ Len(a) = Len(p) /\ \A x \in 1 .. Len(p) : a[x] = p[x]
    OBVIOUS
  <2>2. b \in Seq(Nat) /\ Len(b) = Len(p) /\ \A x \in 1 .. Len(p) : b[x] = q[x]
    BY <1>1
  <2> HIDE DEF a, b
  <2>3. (\A x \in 1 .. Len(a) : a[x] = b[x]) => a = b
    BY <2>1, <2>2, PathEqual
  <2>4. a = b <=> \A x \in 1 .. Len(p) : p[x] = q[x]
    BY <2>1, <2>2, <2>3
  <2> QED BY <2>4 DEF a, b
<1>2. CASE Len(p) < Len(q)
  BY <1>1, <1>2 DEF IsStrictPrefix, IsPrefix
<1>3. CASE Len(p) = Len(q)
  BY <1>1, <1>3, PathEqual DEF IsStrictPrefix, IsPrefix
<1>4. CASE Len(p) > Len(q)
  BY <1>4 DEF IsStrictPrefix, IsPrefix
<1> QED BY <1>2, <1>3, <1>4

LEMMA SubSeqIs ==
  ASSUME NEW p \in Seq(Nat), NEW q \in Seq(Nat), NEW m \in 0 .. Len(q)
  PROVE  SubSeq(q, 1, m) = p <=> Len(p) = m /\ \A x \in 1 .. m : p[x] = q[x]
<1> DEFINE s == SubSeq(q, 1, m)
<1>1. s \in Seq(Nat) /\ Len(s) = m /\ \A x \in 1 .. m : s[x] = q[x]
  OBVIOUS
<1> HIDE DEF s
<1>2. s = p <=> Len(p) = m /\ \A x \in 1 .. m : p[x] = q[x]
  BY <1>1, PathEqual
<1> QED BY <1>2 DEF s

LEMMA AppendIs ==
  ASSUME NEW p \in Seq(Nat), NEW name \in Nat
  PROVE  /\ Append(p, name) \in Seq(Nat) /\ Len(Append(p, name)) = Len(p) + 1
         /\ \A x \in 1 .. Len(p) : Append(p, name)[x] = p[x]
         /\ Append(p, name)[Len(p) + 1] = name
         /\ Last(Append(p, name)) = name
         /\ Front(Append(p, name)) = p
<1> DEFINE a == Append(p, name)
<1>1. a \in Seq(Nat) /\ Len(a) = Len(p) + 1
      /\ (\A x \in 1 .. Len(p) : a[x] = p[x]) /\ a[Len(p) + 1] = name
  OBVIOUS
<1> HIDE DEF a
<1>2. Last(a) = name BY <1>1 DEF Last
<1>3. SubSeq(a, 1, Len(a) - 1) = p
  <2>1. Len(p) \in 0 .. Len(a) /\ Len(a) - 1 = Len(p) BY <1>1
  <2>2. SubSeq(a, 1, Len(p)) = p BY <1>1, <2>1, SubSeqIs
  <2> QED BY <2>1, <2>2
<1>4. Front(a) = p BY <1>3 DEF Front
<1> QED BY <1>1, <1>2, <1>4 DEF a

-----------------------------------------------------------------------------
(* The tree.                                                               *)

LEMMA TreeTyped ==
  ASSUME Typed
  PROVE  /\ IsFiniteSet(DOMAIN fs)
         /\ \A p \in DOMAIN fs : p \in Seq(Nat) /\ fs[p] \in Metadata
BY DirTreeAssumption DEF Typed

\* The names of the entries of a directory.
LEMMA ChildrenAre ==
  ASSUME Typed, NEW p \in Seq(Nat), NEW name
  PROVE  name \in Children(p) <=> name \in Nat /\ Append(p, name) \in DOMAIN fs
<1>1. ASSUME name \in Children(p) PROVE name \in Nat /\ Append(p, name) \in DOMAIN fs
  <2>1. PICK q \in DOMAIN fs : q # <<>> /\ Front(q) = p /\ name = Last(q)
    BY <1>1 DEF Children
  <2>2. q \in Seq(Nat) /\ Len(q) > 0 /\ q[Len(q)] \in Nat
    BY <2>1, TreeTyped
  <2>3. name \in Nat /\ q[Len(q)] = name BY <2>1, <2>2 DEF Last
  <2>4. Len(q) - 1 \in 0 .. Len(q) BY <2>2
  <2>5. Len(p) = Len(q) - 1 /\ \A x \in 1 .. (Len(q) - 1) : p[x] = q[x]
    <3>1. SubSeq(q, 1, Len(q) - 1) = p BY <2>1 DEF Front
    <3> QED BY <3>1, <2>2, <2>4, SubSeqIs
  <2>6. Append(p, name) = q
    <3> DEFINE a == Append(p, name)
    <3>1. /\ a \in Seq(Nat) /\ Len(a) = Len(p) + 1 /\ a[Len(p) + 1] = name
          /\ \A x \in 1 .. Len(p) : a[x] = p[x]
      BY <2>3, AppendIs
    <3> HIDE DEF a
    <3>2. Len(a) = Len(q) BY <3>1, <2>5, <2>2
    <3>3. \A x \in 1 .. Len(a) : a[x] = q[x]
      <4> TAKE x \in 1 .. Len(a)
      <4>1. CASE x = Len(q)
        <5>1. Len(p) + 1 = Len(q) BY <2>5, <2>2
        <5> QED BY <5>1, <4>1, <3>1, <2>3
      <4>2. CASE x # Len(q)
        <5>1. x \in 1 .. Len(p) /\ x \in 1 .. (Len(q) - 1) BY <4>2, <3>2, <2>5, <2>2
        <5> QED BY <5>1, <3>1, <2>5
      <4> QED BY <4>1, <4>2
    <3>4. a = q BY <3>1, <3>2, <3>3, <2>2, PathEqual
    <3> QED BY <3>4 DEF a
  <2> QED BY <2>3, <2>6
<1>2. ASSUME name \in Nat, Append(p, name) \in DOMAIN fs PROVE name \in Children(p)
  <2>1. PICK q : q = Append(p, name) OBVIOUS
  <2>2. q \in Seq(Nat) /\ Len(q) = Len(p) + 1 /\ Last(q) = name /\ Front(q) = p
    BY <2>1, <1>2, AppendIs
  <2>3. q # <<>> BY <2>2
  <2> QED BY <2>1, <2>2, <2>3, <1>2 DEF Children
<1> QED BY <1>1, <1>2

\* It depends on the tree alone.
LEMMA SameTree ==
  ASSUME fs' = fs, flags' = flags
  PROVE  /\ \A p : Children(p)' = Children(p) /\ IsDir(p)' = IsDir(p)
         /\ \A p : HasMetadata(p)' = HasMetadata(p)
         /\ \A p, open : Opens(p, open)' = Opens(p, open)
BY DEF Children, IsDir, HasMetadata, Opens
-----------------------------------------------------------------------------
(* The types.                                                              *)

LEMMA TopLemma ==
  ASSUME Typed, stack # <<>>
  PROVE  /\ Len(stack) \in Nat \ {0} /\ Len(stack) \in DOMAIN stack
         /\ top = stack[Len(stack)] /\ top \in Frame /\ FrameOK(top)
BY DEF Typed, top, Last

LEMMA SetTopLemma ==
  ASSUME Typed, stack # <<>>, NEW f \in Frame, NEW t, t = SetTop(f)
  PROVE  /\ t \in Seq(Frame) /\ Len(t) = Len(stack) /\ DOMAIN t = DOMAIN stack
         /\ t[Len(stack)] = f
         /\ \A j \in 1 .. (Len(stack) - 1) : t[j] = stack[j]
         /\ FrameOK(f) => \A j \in DOMAIN t : FrameOK(t[j])
<1>1. stack \in Seq(Frame) /\ Len(stack) \in DOMAIN stack
  BY TopLemma DEF Typed
<1>2. /\ t \in Seq(Frame) /\ Len(t) = Len(stack) /\ DOMAIN t = DOMAIN stack
      /\ \A j \in DOMAIN stack : t[j] = IF j = Len(stack) THEN f ELSE stack[j]
  BY <1>1 DEF SetTop
<1>3. FrameOK(f) => \A j \in DOMAIN t : FrameOK(t[j])
  BY <1>2 DEF Typed
<1>4. \A j \in 1 .. (Len(stack) - 1) : j \in DOMAIN stack /\ j # Len(stack)
  BY <1>1
<1> QED BY <1>1, <1>2, <1>3, <1>4

LEMMA FramesPrime ==
  ASSUME fs' = fs, NEW t, t = stack', \A j \in DOMAIN t : FrameOK(t[j])
  PROVE  (\A j \in DOMAIN stack : FrameOK(stack[j]))'
BY DEF FrameOK, Children

\* The activation that processDir is called for.
New(p) == [dn |-> p, unread |-> Children(p), entries |-> <<>>,
           capacity |-> CAPACITY, i |-> 0]

LEMMA NewLemma ==
  ASSUME Typed, NEW p, NEW open, Opens(p, open)
  PROVE  New(p) \in Frame /\ FrameOK(New(p))
<1>1. p \in DOMAIN fs /\ p \in Seq(Nat)
  BY TreeTyped DEF Opens
<1>2. Children(p) \subseteq Nat
  BY <1>1, ChildrenAre
<1>3. CAPACITY \in Nat /\ CAPACITY > 0
  BY DirTreeAssumption
<1>4. <<>> \in Seq(Nat) /\ Len(<<>>) = 0 /\ Range(<<>>) = {}
  BY DEF Range
<1> QED BY <1>1, <1>2, <1>3, <1>4 DEF New, Frame, FrameOK

LEMMA CallLemma ==
  ASSUME Typed, NEW below \in Seq(Frame), Len(below) <= MAX_STREAMS,
         \A j \in DOMAIN below : FrameOK(below[j]),
         NEW p, NEW lines, Call(below, p, lines), NEW t, t = stack'
  PROVE  /\ t \in Seq(Frame) /\ Len(t) <= MAX_STREAMS
         /\ \A j \in DOMAIN t : FrameOK(t[j])
         /\ Opens(p, Len(below)) => t = Append(below, New(p)) /\ out' = out \o lines
         /\ ~Opens(p, Len(below)) => t = below /\ out' = out \o lines \o <<Line(p, "error")>>
<1>1. CASE Opens(p, Len(below))
  <2>1. PICK f : f = New(p) OBVIOUS
  <2>2. f \in Frame /\ FrameOK(f) BY <1>1, <2>1, NewLemma
  <2>3. t = Append(below, f) /\ out' = out \o lines
    BY <1>1, <2>1 DEF Call, New
  <2>4. MAX_STREAMS \in Nat /\ Len(below) < MAX_STREAMS
    BY <1>1, DirTreeAssumption DEF Opens
  <2>5. t \in Seq(Frame) /\ Len(t) = Len(below) + 1 BY <2>2, <2>3
  <2>6. \A j \in DOMAIN t : t[j] = f \/ (j \in DOMAIN below /\ t[j] = below[j])
    BY <2>2, <2>3
  <2>7. Len(t) <= MAX_STREAMS BY <2>4, <2>5
  <2>8. \A j \in DOMAIN t : FrameOK(t[j]) BY <2>2, <2>6
  <2> QED BY <1>1, <2>1, <2>3, <2>5, <2>7, <2>8
<1>2. CASE ~Opens(p, Len(below))
  BY <1>2 DEF Call
<1> QED BY <1>1, <1>2

LEMMA LineTyped ==
  ASSUME Typed, NEW p \in Seq(Nat), NEW kind \in {"name", "entry", "denied", "error"}
  PROVE  Line(p, kind) \in LineType
BY DEF Typed, Line, LineType

LEMMA InitTyped == Init => Typed
<1> SUFFICES ASSUME Init PROVE Typed
  OBVIOUS
<1>1. fs \in Trees /\ args \in Arguments /\ flags \in Options /\ n \in Nat \ {0}
      /\ status = "start"
  BY DEF Init
<1>2. directories \in Seq(Seq(Nat)) /\ Len(directories) = 0 /\ stack \in Seq(Frame)
      /\ Len(stack) = 0 /\ DOMAIN stack = {} /\ out \in Seq(LineType) /\ printed \in Seq(Summaries)
  BY DEF Init
<1>3. 0 <= MAX_DIR /\ 0 <= MAX_STREAMS BY DirTreeAssumption
<1>4. dstat \in Statistics /\ tstat \in Statistics
  BY DEF Init, Zero, Statistics
<1> QED BY <1>1, <1>2, <1>3, <1>4 DEF Typed

LEMMA ParseTyped == Typed /\ Parse => Typed'
<1> SUFFICES ASSUME Typed, Parse PROVE Typed'
  OBVIOUS
<1>1. args \in Seq(Seq(Nat)) /\ CURDIR \in Seq(Nat) /\ MAX_DIR \in Nat \ {0}
  BY DirTreeAssumption DEF Typed
<1>2. directories' \in Seq(Seq(Nat)) /\ Len(directories') <= MAX_DIR
  <2>1. CASE args = <<>>
    <3>1. directories' = <<CURDIR>> BY <2>1 DEF Parse
    <3> QED BY <3>1, <1>1
  <2>2. CASE args # <<>>
    <3> DEFINE T == {Len(args), MAX_DIR}
    <3>1. T \subseteq Nat /\ T # {} BY <1>1
    <3>2. Min(T) \in T /\ \A y \in T : Min(T) <= y
      <4> HIDE DEF T
      <4> QED BY <3>1, MinLemma
    <3>3. Min(T) \in 0 .. Len(args) /\ Min(T) <= MAX_DIR
      BY <3>1, <3>2
    <3>4. directories' = SubSeq(args, 1, Min(T)) BY <2>2 DEF Parse
    <3> HIDE DEF T
    <3> QED BY <1>1, <3>3, <3>4
  <2> QED BY <2>1, <2>2
<1>3. status' \in {"start", "main", "walk", "exited", "failed", "undefined"}
  BY DEF Parse
<1>4. UNCHANGED <<fs, args, flags, n, stack, dstat, tstat, printed, out>>
  BY DEF Parse, statVars
<1>5. (\A j \in DOMAIN stack : FrameOK(stack[j]))'
  BY <1>4, FramesPrime DEF Typed
<1> QED BY <1>2, <1>3, <1>4, <1>5 DEF Typed

LEMMA DirectoryTyped == Typed /\ Directory => Typed'
<1> SUFFICES ASSUME Typed, Directory PROVE Typed'
  OBVIOUS
<1>1. UNCHANGED <<fs, args, flags, directories, n, tstat, printed>>
  BY DEF Directory, mainVars
<1>2. dstat' \in Statistics
  BY DEF Directory, Zero, Statistics
<1>3. PICK p : p = directories[n] OBVIOUS
<1>4. p \in Seq(Nat) BY <1>3 DEF Typed, Directory
<1>5. PICK lines : lines = <<Line(p, "name")>> OBVIOUS
<1>6. Call(<<>>, p, lines) BY <1>3, <1>5 DEF Directory
<1>7. PICK t : t = stack' OBVIOUS
<1>8. <<>> \in Seq(Frame) /\ Len(<<>>) = 0 /\ DOMAIN <<>> = {} /\ 0 <= MAX_STREAMS
  BY DirTreeAssumption
<1>9. PICK below : below = <<>> OBVIOUS
<1>10. /\ t \in Seq(Frame) /\ Len(t) <= MAX_STREAMS
       /\ \A j \in DOMAIN t : FrameOK(t[j])
       /\ out' = out \o lines \/ out' = out \o lines \o <<Line(p, "error")>>
  <2>1. below \in Seq(Frame) /\ Len(below) <= MAX_STREAMS /\ DOMAIN below = {}
    BY <1>8, <1>9
  <2>2. Call(below, p, lines) BY <1>6, <1>9
  <2>3. \A j \in DOMAIN below : FrameOK(below[j]) BY <2>1
  <2>4. /\ t \in Seq(Frame) /\ Len(t) <= MAX_STREAMS
        /\ \A j \in DOMAIN t : FrameOK(t[j])
    BY <2>1, <2>2, <2>3, <1>7, CallLemma
  <2>5. out' = out \o lines \/ out' = out \o lines \o <<Line(p, "error")>>
    BY <2>2 DEF Call
  <2> QED BY <2>4, <2>5
<1>11. out' \in Seq(LineType)
  <2>1. lines \in Seq(LineType) /\ <<Line(p, "error")>> \in Seq(LineType)
    BY <1>4, <1>5, LineTyped
  <2>2. out \in Seq(LineType) /\ out \o lines \in Seq(LineType)
    BY <2>1 DEF Typed
  <2>3. out \o lines \o <<Line(p, "error")>> \in Seq(LineType)
    BY <2>1, <2>2
  <2> QED BY <2>2, <2>3, <1>10
<1>12. (\A j \in DOMAIN stack : FrameOK(stack[j]))'
  BY <1>1, <1>7, <1>10, FramesPrime
<1>13. status' = "walk" BY DEF Directory
<1> QED BY <1>1, <1>2, <1>7, <1>10, <1>11, <1>12, <1>13 DEF Typed
LEMMA GrowLemma ==
  ASSUME Typed, NEW f \in Frame, FrameOK(f)
  PROVE  Grow(f) \in Nat /\ Grow(f) > 0 /\ Len(f.entries) + 1 <= Grow(f)
<1>1. f.capacity \in Nat /\ f.capacity > 0 /\ Len(f.entries) \in Nat
      /\ Len(f.entries) <= f.capacity
  BY DEF Frame, FrameOK
<1> QED BY <1>1 DEF Grow

LEMMA ReadEntryTyped == Typed /\ ReadEntry => Typed'
<1> SUFFICES ASSUME Typed, ReadEntry PROVE Typed'
  OBVIOUS
<1>1. UNCHANGED <<fs, args, flags, directories, n, dstat, tstat, printed, out, status>>
  BY DEF ReadEntry, mainVars, statVars
<1>2. stack # <<>> /\ top \in Frame /\ FrameOK(top) /\ top.i = 0
  BY TopLemma DEF ReadEntry
<1>3. PICK name \in top.unread :
        stack' = SetTop([top EXCEPT !.unread = @ \ {name}, !.capacity = Grow(top),
                                    !.entries = Append(@, name)])
  BY DEF ReadEntry
<1>4. PICK f : f = [top EXCEPT !.unread = @ \ {name}, !.capacity = Grow(top),
                              !.entries = Append(@, name)]
  OBVIOUS
<1>5. /\ f.dn = top.dn /\ f.unread = top.unread \ {name} /\ f.capacity = Grow(top)
      /\ f.entries = Append(top.entries, name) /\ f.i = top.i
  BY <1>2, <1>4 DEF Frame
<1>6. name \in Nat /\ top.entries \in Seq(Nat) /\ Grow(top) \in Nat /\ Grow(top) > 0
      /\ Len(top.entries) + 1 <= Grow(top)
  BY <1>2, GrowLemma DEF Frame
<1>7. f.entries \in Seq(Nat) /\ Len(f.entries) = Len(top.entries) + 1
      /\ Range(f.entries) = Range(top.entries) \cup {name}
  <2>1. f.entries \in Seq(Nat) /\ Len(f.entries) = Len(top.entries) + 1
    BY <1>5, <1>6
  <2>2. Range(f.entries) = Range(top.entries) \cup {name}
    <3>1. Len(top.entries) + 1 \in DOMAIN f.entries
          /\ f.entries[Len(top.entries) + 1] = name
      BY <1>5, <1>6
    <3>2. \A x \in DOMAIN top.entries : x \in DOMAIN f.entries
                                        /\ f.entries[x] = top.entries[x]
      BY <1>5, <1>6
    <3>3. \A x \in DOMAIN f.entries : x \in DOMAIN top.entries \/ f.entries[x] = name
      BY <1>5, <1>6
    <3> QED BY <3>1, <3>2, <3>3 DEF Range
  <2> QED BY <2>1, <2>2
<1>8. f \in Frame
  BY <1>2, <1>4, <1>5, <1>6, <1>7 DEF Frame
<1>9. FrameOK(f)
  <2>1. f.dn \in DOMAIN fs /\ Range(f.entries) \cup f.unread \subseteq Children(f.dn)
    BY <1>2, <1>5, <1>7 DEF FrameOK
  <2>2. f.capacity > 0 /\ Len(f.entries) <= f.capacity
    BY <1>5, <1>6, <1>7
  <2>3. f.i <= Len(f.entries) + 1 /\ f.i = 0
    BY <1>2, <1>5, <1>6, <1>7
  <2> QED BY <2>1, <2>2, <2>3 DEF FrameOK
<1>10. PICK t : t = stack' OBVIOUS
<1>11. t = SetTop(f) BY <1>3, <1>4, <1>10
<1>12. t \in Seq(Frame) /\ Len(t) = Len(stack) /\ \A j \in DOMAIN t : FrameOK(t[j])
  BY <1>2, <1>8, <1>9, <1>11, SetTopLemma
<1>13. (\A j \in DOMAIN stack : FrameOK(stack[j]))'
  BY <1>1, <1>10, <1>12, FramesPrime
<1> QED BY <1>1, <1>10, <1>12, <1>13 DEF Typed

\* What the entries point to in the end are entries.
LEMMA ContentsLemma ==
  ASSUME Typed, NEW names \in Seq(Nat)
  PROVE  /\ Contents(names) \in [DOMAIN names -> Range(names)]
         /\ Len(names) <= CHUNK => Contents(names) = names
<1> CHUNK \in Nat \ {0} BY DirTreeAssumption
<1> DEFINE Same(k) == {m \in DOMAIN names : m % CHUNK = k % CHUNK}
<1>1. \A k \in DOMAIN names : Max(Same(k)) \in Same(k)
  <2> TAKE k \in DOMAIN names
  <2>1. Same(k) \subseteq Nat /\ k \in Same(k) OBVIOUS
  <2>2. IsFiniteSet(Same(k))
    <3>1. IsFiniteSet(1 .. Len(names)) BY FS_Interval
    <3> QED BY <3>1, FS_Subset
  <2> HIDE DEF Same
  <2> QED BY <2>1, <2>2, MaxLemma
<1>2. Contents(names) \in [DOMAIN names -> Range(names)]
  BY <1>1 DEF Contents, Range
<1>3. ASSUME Len(names) <= CHUNK PROVE Contents(names) = names
  <2>1. \A k, m \in 1 .. CHUNK : k % CHUNK = m % CHUNK => k = m
    <3>1. \A k \in 1 .. (CHUNK - 1) : k % CHUNK = k
      OBVIOUS
    <3>2. CHUNK % CHUNK = 0
      OBVIOUS
    <3> TAKE k, m \in 1 .. CHUNK
    <3>3. k = CHUNK \/ k \in 1 .. (CHUNK - 1) OBVIOUS
    <3>4. m = CHUNK \/ m \in 1 .. (CHUNK - 1) OBVIOUS
    <3> QED BY <3>1, <3>2, <3>3, <3>4
  <2>2. DOMAIN names \subseteq 1 .. CHUNK BY <1>3
  <2>3. \A k \in DOMAIN names : Max(Same(k)) = k
    BY <1>1, <2>1, <2>2
  <2>4. Contents(names) = [k \in DOMAIN names |-> names[k]]
    BY <2>3 DEF Contents
  <2> QED BY <2>4
<1> QED BY <1>2, <1>3
\* An order of qsort: every index once.
LEMMA OrderLemma ==
  ASSUME NEW m, NEW at \in Bijection(1 .. m, 1 .. m)
  PROVE  /\ at \in [1 .. m -> 1 .. m]
         /\ \A j, k \in 1 .. m : at[j] = at[k] => j = k
         /\ \A k \in 1 .. m : \E j \in 1 .. m : at[j] = k
BY DEF Bijection, Injection, Surjection, IsInjective

LEMMA SortTyped == Typed /\ Sort => Typed'
<1> SUFFICES ASSUME Typed, Sort PROVE Typed'
  OBVIOUS
<1>1. UNCHANGED <<fs, args, flags, directories, n, dstat, tstat, printed, out, status>>
  BY DEF Sort, mainVars, statVars
<1>2. stack # <<>> /\ top \in Frame /\ FrameOK(top) /\ top.unread = {}
  BY TopLemma DEF Sort
<1>3. PICK names : names = Contents(top.entries) OBVIOUS
<1>4. PICK at \in Bijection(DOMAIN names, DOMAIN names) :
        stack' = SetTop([top EXCEPT !.i = 1,
                                    !.entries = [k \in DOMAIN names |-> names[at[k]]]])
  BY <1>3 DEF Sort
<1>5. PICK s : s = [k \in DOMAIN names |-> names[at[k]]] OBVIOUS
<1>6. PICK m : m = Len(top.entries) OBVIOUS
<1>7. top.entries \in Seq(Nat) /\ m \in Nat /\ DOMAIN top.entries = 1 .. m
      /\ Range(top.entries) \subseteq Nat
  BY <1>2, <1>6 DEF Frame, Range
<1>8. names \in [1 .. m -> Nat] /\ DOMAIN names = 1 .. m /\ Range(names) \subseteq Range(top.entries)
  <2>1. names \in [1 .. m -> Range(top.entries)]
    BY <1>3, <1>7, ContentsLemma
  <2> QED BY <2>1, <1>7 DEF Range
<1>9. s \in Seq(Nat) /\ Len(s) = m /\ Range(s) = Range(names)
  <2>1. /\ at \in [1 .. m -> 1 .. m]
        /\ \A k \in 1 .. m : \E j \in 1 .. m : at[j] = k
    <3>1. at \in Bijection(1 .. m, 1 .. m) BY <1>4, <1>8
    <3> QED BY <3>1, OrderLemma
  <2>2. DOMAIN s = 1 .. m /\ \A k \in 1 .. m : s[k] = names[at[k]]
    BY <1>5, <1>8
  <2>3. s \in [1 .. m -> Nat]
    <3>1. \A k \in 1 .. m : names[at[k]] \in Nat BY <2>1, <1>8
    <3> QED BY <3>1, <1>5, <1>8
  <2>4. s \in Seq(Nat) /\ Len(s) = m BY <2>3, <1>7
  <2>5. ASSUME NEW x \in Range(s) PROVE x \in Range(names)
    <3>1. PICK k \in 1 .. m : s[k] = x BY <2>2 DEF Range
    <3>2. at[k] \in DOMAIN names /\ names[at[k]] = x BY <3>1, <2>1, <2>2, <1>8
    <3> QED BY <3>2 DEF Range
  <2>6. ASSUME NEW x \in Range(names) PROVE x \in Range(s)
    <3>1. PICK k \in 1 .. m : names[k] = x BY <1>8 DEF Range
    <3>2. PICK j \in 1 .. m : at[j] = k BY <2>1
    <3>3. s[j] = x BY <3>1, <3>2, <2>2
    <3> QED BY <3>3, <2>2 DEF Range
  <2>7. Range(s) = Range(names) BY <2>5, <2>6
  <2> QED BY <2>4, <2>7
<1>10. PICK f : f = [top EXCEPT !.i = 1, !.entries = s] OBVIOUS
<1>11. f.dn = top.dn /\ f.unread = {} /\ f.capacity = top.capacity
       /\ f.entries = s /\ f.i = 1
  BY <1>2, <1>10 DEF Frame
<1>12. f \in Frame
  BY <1>2, <1>9, <1>10 DEF Frame
<1>13. FrameOK(f)
  <2>1. f.dn \in DOMAIN fs /\ Range(f.entries) \cup f.unread \subseteq Children(f.dn)
    BY <1>2, <1>8, <1>9, <1>11 DEF FrameOK
  <2>2. f.capacity > 0 /\ Len(f.entries) <= f.capacity /\ f.i <= Len(f.entries) + 1
    BY <1>2, <1>6, <1>7, <1>9, <1>11 DEF FrameOK
  <2> QED BY <2>1, <2>2, <1>11 DEF FrameOK
<1>14. PICK t : t = stack' OBVIOUS
<1>15. t = SetTop(f) BY <1>4, <1>5, <1>10, <1>14
<1>16. t \in Seq(Frame) /\ Len(t) = Len(stack) /\ \A j \in DOMAIN t : FrameOK(t[j])
  BY <1>2, <1>12, <1>13, <1>15, SetTopLemma
<1>17. (\A j \in DOMAIN stack : FrameOK(stack[j]))'
  BY <1>1, <1>14, <1>16, FramesPrime
<1> QED BY <1>1, <1>14, <1>16, <1>17 DEF Typed

\* The loop of processDir, and the path of its entry.
LEMMA EntryLemma ==
  ASSUME Typed, AtEntry
  PROVE  /\ stack # <<>> /\ top \in Frame /\ FrameOK(top) /\ top.i > 0
         /\ top.i \in DOMAIN top.entries /\ top.dn \in Seq(Nat)
         /\ top.entries[top.i] \in Nat /\ top.entries[top.i] \in Children(top.dn)
         /\ entry \in DOMAIN fs /\ entry \in Seq(Nat)
         /\ fs[entry] \in Metadata /\ fs[top.dn] \in Metadata
<1>1. stack # <<>> /\ top \in Frame /\ FrameOK(top) /\ top.i \in DOMAIN top.entries
  BY TopLemma DEF AtEntry
<1>2. top.dn \in Seq(Nat) /\ top.entries[top.i] \in Nat /\ top.i > 0
  BY <1>1 DEF Frame
<1>3. top.entries[top.i] \in Children(top.dn)
  BY <1>1 DEF FrameOK, Range
<1>4. entry \in DOMAIN fs
  BY <1>2, <1>3, ChildrenAre DEF entry
<1>5. top.dn \in DOMAIN fs BY <1>1 DEF FrameOK
<1> QED BY <1>1, <1>2, <1>3, <1>4, <1>5, TreeTyped

LEMMA PassedLemma ==
  ASSUME Typed, AtEntry
  PROVE  /\ Passed \in Seq(Frame) /\ Len(Passed) = Len(stack)
         /\ DOMAIN Passed = DOMAIN stack
         /\ \A j \in DOMAIN Passed : FrameOK(Passed[j])
         /\ Passed[Len(stack)] = [top EXCEPT !.i = @ + 1]
         /\ \A j \in 1 .. (Len(stack) - 1) : Passed[j] = stack[j]
<1>1. stack # <<>> /\ top \in Frame /\ FrameOK(top) /\ top.i \in DOMAIN top.entries /\ top.i > 0
  BY EntryLemma
<1>2. PICK f : f = [top EXCEPT !.i = @ + 1] OBVIOUS
<1>3. f.dn = top.dn /\ f.unread = top.unread /\ f.capacity = top.capacity
      /\ f.entries = top.entries /\ f.i = top.i + 1
  BY <1>1, <1>2 DEF Frame
<1>4. f \in Frame
  <2>1. top.i \in Nat BY <1>1 DEF Frame
  <2>2. top.i + 1 \in Nat BY <2>1
  <2> QED BY <1>1, <1>2, <2>2 DEF Frame
<1>5. f.i <= Len(f.entries) + 1 /\ f.unread = {}
  BY <1>1, <1>3 DEF Frame, FrameOK
<1>6. FrameOK(f) BY <1>1, <1>3, <1>5 DEF FrameOK
<1>7. PICK t : t = Passed OBVIOUS
<1>8. t = SetTop(f) BY <1>2, <1>7 DEF Passed
<1>9. /\ t \in Seq(Frame) /\ Len(t) = Len(stack) /\ DOMAIN t = DOMAIN stack
      /\ t[Len(stack)] = f /\ \A j \in 1 .. (Len(stack) - 1) : t[j] = stack[j]
      /\ \A j \in DOMAIN t : FrameOK(t[j])
  BY <1>1, <1>4, <1>6, <1>8, SetTopLemma
<1> QED BY <1>2, <1>7, <1>9
LEMMA CountedTyped ==
  ASSUME Typed, NEW meta \in Metadata
  PROVE  Counted(dstat, meta) \in Statistics
<1>1. dstat \in [DOMAIN Zero -> Nat] /\ meta.size \in Nat
  BY DEF Typed, Statistics, Metadata
<1>2. \A c \in DOMAIN Zero : dstat[c] \in Nat /\ dstat[c] + meta.size \in Nat
                             /\ dstat[c] + 1 \in Nat
  BY <1>1
<1>3. DOMAIN dstat = DOMAIN Zero BY <1>1
<1> QED BY <1>2, <1>3 DEF Counted, Statistics

LEMMA NoMetadataTyped == Typed /\ NoMetadata => Typed'
<1> SUFFICES ASSUME Typed, NoMetadata PROVE Typed'
  OBVIOUS
<1>1. UNCHANGED <<fs, args, flags, directories, n, tstat, printed, status>>
  BY DEF NoMetadata, mainVars
<1>2. dstat' \in Statistics
  <2>1. "file" \in DOMAIN Zero BY DEF Zero, Class
  <2>2. dstat \in [DOMAIN Zero -> Nat] BY DEF Typed, Statistics
  <2>3. dstat["file"] + 1 \in Nat BY <2>1, <2>2
  <2>4. dstat' = [dstat EXCEPT !["file"] = @ + 1] BY DEF NoMetadata
  <2> QED BY <2>2, <2>3, <2>4 DEF Statistics
<1>3. AtEntry BY DEF NoMetadata
<1>4. out' \in Seq(LineType)
  <2>1. Line(entry, "entry") \in LineType /\ Line(entry, "denied") \in LineType
    BY <1>3, EntryLemma, LineTyped
  <2>2. out \in Seq(LineType) BY DEF Typed
  <2>3. out' = out \/ out' = Append(out, Line(entry, "entry"))
        \/ out' = Append(out, Line(entry, "denied"))
    BY DEF NoMetadata
  <2> QED BY <2>1, <2>2, <2>3
<1>5. PICK t : t = stack' OBVIOUS
<1>6. t = Passed BY <1>5 DEF NoMetadata
<1>7. t \in Seq(Frame) /\ Len(t) = Len(stack) /\ \A j \in DOMAIN t : FrameOK(t[j])
  BY <1>3, <1>6, PassedLemma
<1>8. (\A j \in DOMAIN stack : FrameOK(stack[j]))'
  BY <1>1, <1>5, <1>7, FramesPrime
<1> QED BY <1>1, <1>2, <1>4, <1>5, <1>7, <1>8 DEF Typed

\* The three ways in which an entry is passed: it is printed or not, and a
\* directory is entered or reported.
LEMMA EntryCases ==
  ASSUME Typed, Entry
  PROVE  \/ "d" \in flags /\ ~IsDir(entry) /\ stack' = Passed /\ out' = out
         \/ /\ ~IsDir(entry) /\ "d" \notin flags
            /\ stack' = Passed /\ out' = Append(out, Line(entry, "entry"))
         \/ /\ IsDir(entry) /\ Opens(entry, Len(stack))
            /\ stack' = Append(Passed, New(entry)) /\ out' = out \o <<Line(entry, "entry")>>
         \/ /\ IsDir(entry) /\ ~Opens(entry, Len(stack)) /\ stack' = Passed
            /\ out' = out \o <<Line(entry, "entry")>> \o <<Line(entry, "error")>>
<1>1. Len(Passed) = Len(stack) BY PassedLemma DEF Entry
<1>2. CASE ~IsDir(entry) BY <1>2 DEF Entry
<1>3. CASE IsDir(entry)
  <2>1. Call(Passed, entry, <<Line(entry, "entry")>>) BY <1>3 DEF Entry
  <2>2. CASE Opens(entry, Len(stack)) BY <1>1, <1>3, <2>1, <2>2 DEF Call, New
  <2>3. CASE ~Opens(entry, Len(stack)) BY <1>1, <1>3, <2>1, <2>3 DEF Call
  <2> QED BY <2>2, <2>3
<1> QED BY <1>2, <1>3

LEMMA EntryTyped == Typed /\ Entry => Typed'
<1> SUFFICES ASSUME Typed, Entry PROVE Typed'
  OBVIOUS
<1>1. UNCHANGED <<fs, args, flags, directories, n, tstat, printed, status>>
  BY DEF Entry, mainVars
<1>2. AtEntry BY DEF Entry
<1>3. dstat' \in Statistics
  BY <1>2, EntryLemma, CountedTyped DEF Entry
<1>4. out' \in Seq(LineType)
  <2>1. Line(entry, "entry") \in LineType /\ Line(entry, "error") \in LineType
    BY <1>2, EntryLemma, LineTyped
  <2>2. out \in Seq(LineType) /\ Append(out, Line(entry, "entry")) \in Seq(LineType)
    BY <2>1 DEF Typed
  <2>3. out \o <<Line(entry, "entry")>> \in Seq(LineType)
    BY <2>1, <2>2
  <2>4. out \o <<Line(entry, "entry")>> \o <<Line(entry, "error")>> \in Seq(LineType)
    BY <2>1, <2>3
  <2> QED BY <2>2, <2>3, <2>4, EntryCases
<1>5. PICK t : t = stack' OBVIOUS
<1>6. /\ t \in Seq(Frame) /\ Len(t) <= MAX_STREAMS
      /\ \A j \in DOMAIN t : FrameOK(t[j])
  <2>1. PICK p : p = Passed OBVIOUS
  <2>2. /\ p \in Seq(Frame) /\ Len(p) = Len(stack) /\ Len(p) <= MAX_STREAMS
        /\ \A j \in DOMAIN p : FrameOK(p[j])
    BY <1>2, <2>1, PassedLemma DEF Typed
  <2>3. CASE IsDir(entry)
    <3>1. PICK lines : lines = <<Line(entry, "entry")>> OBVIOUS
    <3>2. PICK q : q = entry OBVIOUS
    <3>3. Call(p, q, lines) BY <2>1, <2>3, <3>1, <3>2 DEF Entry
    <3> QED BY ONLY Typed, <1>5, <2>2, <3>3, CallLemma
  <2>4. CASE ~IsDir(entry)
    <3>1. t = p BY <1>5, <2>1, <2>4, EntryCases
    <3> QED BY <2>2, <3>1
  <2> QED BY <2>3, <2>4
<1>7. (\A j \in DOMAIN stack : FrameOK(stack[j]))'
  BY <1>1, <1>5, <1>6, FramesPrime
<1> QED BY <1>1, <1>3, <1>4, <1>5, <1>6, <1>7 DEF Typed

LEMMA FrontLemma ==
  ASSUME Typed, stack # <<>>, NEW t, t = Front(stack)
  PROVE  /\ t \in Seq(Frame) /\ Len(t) = Len(stack) - 1
         /\ \A j \in DOMAIN t : j \in 1 .. (Len(stack) - 1)
         /\ \A j \in 1 .. (Len(stack) - 1) : j \in DOMAIN t /\ j \in DOMAIN stack /\ t[j] = stack[j]
<1>1. stack \in Seq(Frame) /\ Len(stack) > 0 BY TopLemma DEF Typed
<1>2. PICK m : m = Len(stack) - 1 OBVIOUS
<1>3. m \in Nat /\ m < Len(stack) BY <1>1, <1>2
<1>4. t = SubSeq(stack, 1, m) BY <1>2 DEF Front
<1>5. t \in Seq(Frame) /\ Len(t) = m BY <1>1, <1>3, <1>4
<1>6. \A j \in 1 .. m : j \in DOMAIN t /\ j \in DOMAIN stack /\ t[j] = stack[j]
  BY <1>1, <1>3, <1>4
<1>7. DOMAIN t = 1 .. m BY <1>5
<1> QED BY <1>2, <1>5, <1>6, <1>7

LEMMA ReturnTyped == Typed /\ Return => Typed'
<1> SUFFICES ASSUME Typed, Return PROVE Typed'
  OBVIOUS
<1>1. UNCHANGED <<fs, args, flags, directories, n, dstat, tstat, printed, out, status>>
  BY DEF Return, mainVars, statVars
<1>2. PICK t : t = stack' OBVIOUS
<1>3. stack # <<>> /\ t = Front(stack) BY <1>2 DEF Return
<1>4. t \in Seq(Frame) /\ Len(t) = Len(stack) - 1
      /\ \A j \in DOMAIN t : j \in DOMAIN stack /\ t[j] = stack[j]
  BY <1>3, FrontLemma
<1>5. Len(t) <= MAX_STREAMS
  BY <1>3, <1>4, TopLemma, DirTreeAssumption DEF Typed
<1>6. \A j \in DOMAIN t : FrameOK(t[j]) BY <1>4 DEF Typed
<1>7. (\A j \in DOMAIN stack : FrameOK(stack[j]))'
  BY <1>1, <1>2, <1>6, FramesPrime
<1> QED BY <1>1, <1>2, <1>4, <1>5, <1>7 DEF Typed
LEMMA SummaryTyped == Typed /\ Summary => Typed'
<1> SUFFICES ASSUME Typed, Summary PROVE Typed'
  OBVIOUS
<1>1. UNCHANGED <<fs, args, flags, directories, stack, dstat, out>> /\ n' = n + 1
      /\ status' = "main"
  BY DEF Summary, mainVars
<1>2. Wanted \subseteq DOMAIN Zero
  BY DEF Wanted, Zero, Class
<1>3. dstat \in [DOMAIN Zero -> Nat] /\ tstat \in [DOMAIN Zero -> Nat]
  BY DEF Typed, Statistics
<1>4. tstat' \in Statistics
  <2>1. \A c \in DOMAIN Zero : tstat[c] \in Nat /\ tstat[c] + dstat[c] \in Nat
    BY <1>3
  <2>2. CASE "s" \in flags
    <3>1. tstat' = [c \in DOMAIN tstat |-> IF c \in Wanted THEN tstat[c] + dstat[c]
                                         ELSE tstat[c]]
      BY <2>2 DEF Summary
    <3>2. DOMAIN tstat = DOMAIN Zero BY <1>3
    <3> QED BY <2>1, <3>1, <3>2 DEF Statistics
  <2>3. CASE "s" \notin flags
    BY <2>3, <1>3 DEF Summary, Statistics
  <2> QED BY <2>2, <2>3
<1>5. printed' \in Seq(Summaries)
  <2>1. PICK S : S = IF "v" \in flags THEN Wanted ELSE Wanted \ {"size"} OBVIOUS
  <2>2. S \subseteq DOMAIN Zero BY <2>1, <1>2
  <2>3. Printed(dstat) \in [S -> Nat]
    <3>1. Printed(dstat) = [c \in S |-> dstat[c]] BY <2>1 DEF Printed, Restrict
    <3>2. \A c \in S : dstat[c] \in Nat BY <1>3, <2>2
    <3> QED BY <3>1, <3>2
  <2>4. Printed(dstat) \in Summaries BY <2>2, <2>3 DEF Summaries
  <2>5. printed \in Seq(Summaries) BY DEF Typed
  <2>6. printed' = Append(printed, Printed(dstat)) \/ printed' = printed
    BY DEF Summary
  <2> QED BY <2>4, <2>5, <2>6
<1>6. (\A j \in DOMAIN stack : FrameOK(stack[j]))'
  BY <1>1, FramesPrime DEF Typed
<1>7. n' \in Nat \ {0} BY <1>1 DEF Typed
<1> QED BY <1>1, <1>4, <1>5, <1>6, <1>7 DEF Typed

LEMMA TotalTyped == Typed /\ Total => Typed'
<1> SUFFICES ASSUME Typed, Total PROVE Typed'
  OBVIOUS
<1>1. UNCHANGED <<fs, args, flags, directories, n, stack, dstat, tstat, out>>
      /\ status' = "exited"
  BY DEF Total, mainVars
<1>2. Wanted \subseteq DOMAIN Zero
  BY DEF Wanted, Zero, Class
<1>3. tstat \in [DOMAIN Zero -> Nat]
  BY DEF Typed, Statistics
<1>4. printed' \in Seq(Summaries)
  <2>1. PICK S : S = IF "v" \in flags THEN Wanted ELSE Wanted \ {"size"} OBVIOUS
  <2>2. S \subseteq DOMAIN Zero BY <2>1, <1>2
  <2>3. Printed(tstat) \in [S -> Nat]
    <3>1. Printed(tstat) = [c \in S |-> tstat[c]] BY <2>1 DEF Printed, Restrict
    <3>2. \A c \in S : tstat[c] \in Nat BY <1>3, <2>2
    <3> QED BY <3>1, <3>2
  <2>4. Printed(tstat) \in Summaries BY <2>2, <2>3 DEF Summaries
  <2>5. printed \in Seq(Summaries) BY DEF Typed
  <2>6. printed' = Append(printed, Printed(tstat)) \/ printed' = printed
    BY DEF Total
  <2> QED BY <2>4, <2>5, <2>6
<1>5. (\A j \in DOMAIN stack : FrameOK(stack[j]))'
  BY <1>1, FramesPrime DEF Typed
<1> QED BY <1>1, <1>4, <1>5 DEF Typed

\* What leaves all but the status alone.
LEMMA StatusTyped ==
  Typed /\ UNCHANGED <<mainVars, n, stack, statVars, out>>
  /\ status' \in {"start", "main", "walk", "exited", "failed", "undefined"} => Typed'
<1> SUFFICES ASSUME Typed, UNCHANGED <<mainVars, n, stack, statVars, out>>,
                    status' \in {"start", "main", "walk", "exited", "failed", "undefined"}
             PROVE  Typed'
  OBVIOUS
<1>1. UNCHANGED <<fs, args, flags, directories, n, stack, dstat, tstat, printed, out>>
  BY DEF mainVars, statVars
<1>2. (\A j \in DOMAIN stack : FrameOK(stack[j]))'
  BY <1>1, FramesPrime DEF Typed
<1> QED BY <1>1, <1>2 DEF Typed

LEMMA NextTyped == Typed /\ [Next]_vars => Typed'
<1> SUFFICES ASSUME Typed, [Next]_vars PROVE Typed'
  OBVIOUS
<1>1. CASE Overrun BY <1>1, StatusTyped DEF Overrun
<1>2. CASE Panic BY <1>2, StatusTyped DEF Panic
<1>3. CASE UNCHANGED vars
  <2>1. UNCHANGED <<mainVars, n, stack, statVars, out>> /\ status' = status
    BY <1>3 DEF vars
  <2>2. status \in {"start", "main", "walk", "exited", "failed", "undefined"} BY DEF Typed
  <2> QED BY <2>1, <2>2, StatusTyped
<1> QED BY <1>1, <1>2, <1>3, ParseTyped, DirectoryTyped, ReadEntryTyped, SortTyped,
           NoMetadataTyped, EntryTyped, ReturnTyped, SummaryTyped, TotalTyped DEF Next

LEMMA TypedGivesTypeOK == Typed => TypeOK
<1> SUFFICES ASSUME Typed PROVE TypeOK
  OBVIOUS
<1>1. flags \subseteq {"d", "s", "v", "h"}
  BY DirTreeAssumption DEF Typed
<1>2. \A f \in Range(stack) : f.dn \in DOMAIN fs /\ f.i \in Nat /\ Len(f.entries) <= f.capacity
  <2> TAKE f \in Range(stack)
  <2>1. PICK j \in DOMAIN stack : f = stack[j] BY DEF Range
  <2>2. f \in Frame /\ FrameOK(f) BY <2>1 DEF Typed
  <2> QED BY <2>2 DEF FrameOK, Frame
<1>3. \A l \in Range(out) : l.kind \in {"name", "entry", "denied", "error"}
  <2> TAKE l \in Range(out)
  <2>1. PICK j \in DOMAIN out : l = out[j] BY DEF Range
  <2>2. l \in LineType BY <2>1 DEF Typed
  <2> QED BY <2>2 DEF LineType
<1>4. \A s \in Range(printed) \cup {dstat, tstat} : Range(s) \subseteq Nat
  <2>1. ASSUME NEW S, NEW s \in [S -> Nat] PROVE Range(s) \subseteq Nat
    BY DEF Range
  <2>2. ASSUME NEW s \in Range(printed) PROVE Range(s) \subseteq Nat
    <3>1. PICK j \in DOMAIN printed : s = printed[j] BY DEF Range
    <3>2. s \in Summaries BY <3>1 DEF Typed
    <3>3. PICK S \in SUBSET DOMAIN Zero : s \in [S -> Nat] BY <3>2 DEF Summaries
    <3> QED BY <3>3, <2>1
  <2>3. Range(dstat) \subseteq Nat /\ Range(tstat) \subseteq Nat
    BY <2>1 DEF Typed, Statistics
  <2> QED BY <2>2, <2>3
<1> QED BY <1>1, <1>2, <1>3, <1>4 DEF Typed, TypeOK

LEMMA AlwaysTyped == Spec => []Typed
BY InitTyped, NextTyped, PTL DEF Spec

\* DirTree, types: the numbers of the program keep their ranges, an activation
\* never stores more entries than its array holds, however often it has been
\* doubled, its directory is one of the tree, and no more streams are open than
\* may be.
THEOREM DirTreeTypeOK == Spec => []TypeOK
BY AlwaysTyped, TypedGivesTypeOK, PTL
-----------------------------------------------------------------------------
(* Where the traversal is: the activations are on a path of the tree, and  *)
(* what is not printed yet is below an entry that one of them has before   *)
(* it.                                                                     *)

Remaining(f) == IF f.i = 0 THEN Children(f.dn)
                ELSE {f.entries[x] : x \in f.i .. Len(f.entries)}

PendingIn(s, p) == \E j \in DOMAIN s : /\ IsStrictPrefix(s[j].dn, p)
                                       /\ p[Len(s[j].dn) + 1] \in Remaining(s[j])

\* Directory d is the entry that f has last passed, or below it.
Through(f, d) ==
  /\ \A x \in 1 .. Len(f.dn) : d[x] = f.dn[x]
  /\ f.i > 1 /\ d[Len(f.dn) + 1] = f.entries[f.i - 1]

ChainOf(s) ==
  /\ s # <<>> => n \in DOMAIN directories /\ s[1].dn = dir(n)
  /\ \A j \in DOMAIN s : /\ Opens(s[j].dn, j - 1)
                         /\ j > 1 => HasMetadata(s[j].dn)
                         /\ Len(s[j].dn) = Len(dir(n)) + j - 1
                         /\ \A h \in 1 .. (j - 1) : Through(s[h], s[j].dn)

\* Every entry is once among those read and those still to be read, and the
\* entries read are sorted before they are passed.
EntriesOf(f) ==
  /\ \A a, b \in DOMAIN f.entries : f.entries[a] = f.entries[b] => a = b
  /\ Range(f.entries) \cap f.unread = {}
  /\ Range(f.entries) \cup f.unread = Children(f.dn)
  /\ f.i > 0 => \A a, b \in DOMAIN f.entries :
       a < b => First(Append(f.dn, f.entries[a]), Append(f.dn, f.entries[b]))

Places(s) == ChainOf(s) /\ (Fits => \A j \in DOMAIN s : EntriesOf(s[j]))

LEMMA PlacesPrime ==
  ASSUME fs' = fs, directories' = directories, n' = n, NEW t, t = stack', Places(t)
  PROVE  Places(stack)'
<1>1. Fits' = Fits BY DEF Fits, Children
<1>2. ChainOf(stack)'
  <2>1. \A p, open : Opens(p, open)' = Opens(p, open) BY DEF Opens
  <2>2. \A p : HasMetadata(p)' = HasMetadata(p) BY DEF HasMetadata
  <2>3. dir(n)' = dir(n) BY DEF dir
  <2>4. ChainOf(t) BY DEF Places
  <2>5. n' \in DOMAIN directories' <=> n \in DOMAIN directories OBVIOUS
  <2> QED BY <2>1, <2>2, <2>3, <2>4, <2>5 DEF ChainOf, Through
<1>3. Fits => (\A j \in DOMAIN stack : EntriesOf(stack[j]))'
  BY DEF Places, EntriesOf, First, IsDir, Children
<1> QED BY <1>1, <1>2, <1>3 DEF Places

\* A step of an activation in its own directory.
LEMMA SetTopPlaces ==
  ASSUME Typed, stack # <<>>, Places(stack), NEW f \in Frame, f.dn = top.dn,
         Fits => EntriesOf(f), NEW t, t = SetTop(f)
  PROVE  Places(t)
<1>1. /\ Len(t) = Len(stack) /\ DOMAIN t = DOMAIN stack
      /\ t[Len(stack)] = f /\ \A j \in 1 .. (Len(stack) - 1) : t[j] = stack[j]
  BY SetTopLemma
<1>2. /\ stack \in Seq(Frame) /\ Len(stack) \in Nat \ {0}
      /\ DOMAIN stack = 1 .. Len(stack) /\ top = stack[Len(stack)]
  BY TopLemma DEF Typed
<1>3. \A j \in DOMAIN stack : t[j].dn = stack[j].dn /\ (j < Len(stack) => t[j] = stack[j])
  BY <1>1, <1>2
<1>4. t # <<>> /\ 1 \in DOMAIN stack BY <1>1, <1>2
<1>5. n \in DOMAIN directories /\ t[1].dn = dir(n)
  BY <1>3, <1>4 DEF Places, ChainOf
<1>6. ASSUME NEW j \in DOMAIN t
      PROVE /\ Opens(t[j].dn, j - 1)
            /\ j > 1 => HasMetadata(t[j].dn)
            /\ Len(t[j].dn) = Len(dir(n)) + j - 1
            /\ \A h \in 1 .. (j - 1) : Through(t[h], t[j].dn)
  <2>1. j \in DOMAIN stack /\ t[j].dn = stack[j].dn BY <1>1, <1>3
  <2>2. \A h \in 1 .. (j - 1) : h \in DOMAIN stack /\ t[h] = stack[h]
    BY <2>1, <1>2, <1>3
  <2> QED BY <2>1, <2>2 DEF Places, ChainOf
<1>7. Fits => \A j \in DOMAIN t : EntriesOf(t[j])
  BY <1>1, <1>2 DEF Places
<1>8. ChainOf(t) BY <1>5, <1>6 DEF ChainOf
<1> QED BY <1>7, <1>8 DEF Places
LEMMA ReadEntryPlaces == Typed /\ Places(stack) /\ ReadEntry => Places(stack)'
<1> SUFFICES ASSUME Typed, Places(stack), ReadEntry PROVE Places(stack)'
  OBVIOUS
<1>1. UNCHANGED <<fs, directories, n>>
  BY DEF ReadEntry, mainVars
<1>2. stack # <<>> /\ top \in Frame /\ FrameOK(top) /\ top.i = 0 /\ top = stack[Len(stack)]
      /\ Len(stack) \in DOMAIN stack
  BY TopLemma DEF ReadEntry
<1>3. PICK name \in top.unread :
        stack' = SetTop([top EXCEPT !.unread = @ \ {name}, !.capacity = Grow(top),
                                    !.entries = Append(@, name)])
  BY DEF ReadEntry
<1>4. PICK f : f = [top EXCEPT !.unread = @ \ {name}, !.capacity = Grow(top),
                              !.entries = Append(@, name)]
  OBVIOUS
<1>5. /\ f.dn = top.dn /\ f.unread = top.unread \ {name} /\ f.capacity = Grow(top)
      /\ f.entries = Append(top.entries, name) /\ f.i = top.i
  BY <1>2, <1>4 DEF Frame
<1>6. name \in Nat /\ top.entries \in Seq(Nat) /\ Grow(top) \in Nat
  BY <1>2, GrowLemma DEF Frame
<1>7. f.entries \in Seq(Nat) /\ DOMAIN f.entries = 1 .. (Len(top.entries) + 1)
      /\ DOMAIN top.entries = 1 .. Len(top.entries) /\ Len(top.entries) \in Nat
      /\ f.entries[Len(top.entries) + 1] = name
      /\ \A x \in DOMAIN top.entries : f.entries[x] = top.entries[x]
  BY <1>5, <1>6
<1>8. f \in Frame
  BY <1>2, <1>4, <1>5, <1>6, <1>7 DEF Frame
<1>9. ASSUME Fits PROVE EntriesOf(f)
  <2>1. EntriesOf(top) BY <1>2, <1>9 DEF Places
  <2>2. \A x \in DOMAIN f.entries : x \in DOMAIN top.entries \/ x = Len(top.entries) + 1
    BY <1>7
  <2>3. name \notin Range(top.entries) BY <2>1 DEF EntriesOf
  <2>4. \A x \in DOMAIN top.entries : top.entries[x] # name
    BY <2>3 DEF Range
  <2>5. \A a, b \in DOMAIN f.entries : f.entries[a] = f.entries[b] => a = b
    BY <1>7, <2>1, <2>2, <2>4 DEF EntriesOf
  <2>6. Range(f.entries) = Range(top.entries) \cup {name}
    <3>1. \A x \in DOMAIN top.entries : x \in DOMAIN f.entries BY <1>7
    <3>2. Len(top.entries) + 1 \in DOMAIN f.entries BY <1>7
    <3> QED BY <1>7, <2>2, <3>1, <3>2 DEF Range
  <2>7. Range(f.entries) \cap f.unread = {} /\ Range(f.entries) \cup f.unread = Children(f.dn)
    BY <1>5, <2>1, <2>6 DEF EntriesOf
  <2> QED BY <1>2, <1>5, <2>5, <2>7 DEF EntriesOf
<1>10. PICK t : t = stack' OBVIOUS
<1>11. t = SetTop(f) BY <1>3, <1>4, <1>10
<1>12. Places(t)
  BY <1>2, <1>5, <1>8, <1>9, <1>11, SetTopPlaces
<1> QED BY <1>1, <1>10, <1>12, PlacesPrime

LEMMA ChildrenFinite ==
  ASSUME Typed, NEW p
  PROVE  IsFiniteSet(Children(p))
<1> DEFINE Q == {q \in DOMAIN fs : q # <<>> /\ Front(q) = p}
           f == [q \in Q |-> Last(q)]
<1>1. IsFiniteSet(Q) BY TreeTyped, FS_Subset
<1>2. Children(p) = {Last(q) : q \in Q} BY DEF Children
<1>3. f \in Surjection(Q, Children(p)) BY <1>2 DEF Surjection
<1> HIDE DEF f, Q
<1> QED BY <1>1, <1>3, FS_Surjection

\* The buffers of the stream hold all entries.
LEMMA EntriesFit ==
  ASSUME Typed, Fits, NEW f \in Frame, FrameOK(f), EntriesOf(f)
  PROVE  Len(f.entries) <= CHUNK
<1>1. PICK s : s = f.entries OBVIOUS
<1>2. PICK C : C = Children(f.dn) OBVIOUS
<1>3. s \in Seq(Nat) /\ Len(s) \in Nat BY <1>1 DEF Frame
<1>4. s \in [1 .. Len(s) -> C]
  <2>1. Range(s) \subseteq C BY <1>1, <1>2 DEF EntriesOf
  <2>2. DOMAIN s = 1 .. Len(s) /\ \A x \in 1 .. Len(s) : s[x] \in C
    BY <1>3, <2>1 DEF Range
  <2>3. s = [x \in 1 .. Len(s) |-> s[x]] BY <1>3
  <2> QED BY <2>2, <2>3
<1>5. IsInjective(s) BY <1>1 DEF EntriesOf, IsInjective
<1>6. s \in Injection(1 .. Len(s), C) BY <1>4, <1>5 DEF Injection
<1>7. IsFiniteSet(C) BY <1>2, ChildrenFinite
<1>8. Cardinality(1 .. Len(s)) <= Cardinality(C) BY <1>6, <1>7, FS_Injection
<1>9. Cardinality(1 .. Len(s)) = Len(s)
  <2>1. PICK k \in Nat : k = Len(s) BY <1>3
  <2>2. Cardinality(1 .. k) = IF 1 > k THEN 0 ELSE k - 1 + 1 BY FS_Interval
  <2>3. Cardinality(1 .. k) = k BY <2>2
  <2> QED BY <2>1, <2>3
<1>10. Cardinality(C) <= CHUNK /\ Cardinality(C) \in Nat
  BY <1>2, <1>7, FS_CardinalityType DEF Fits, FrameOK
<1>11. CHUNK \in Nat BY DirTreeAssumption
<1> QED BY <1>1, <1>3, <1>8, <1>9, <1>10, <1>11

LEMMA SortPlaces == Typed /\ Places(stack) /\ Sort => Places(stack)'
<1> SUFFICES ASSUME Typed, Places(stack), Sort PROVE Places(stack)'
  OBVIOUS
<1>1. UNCHANGED <<fs, directories, n>>
  BY DEF Sort, mainVars
<1>2. stack # <<>> /\ top \in Frame /\ FrameOK(top) /\ top.unread = {}
      /\ top = stack[Len(stack)] /\ Len(stack) \in DOMAIN stack
  BY TopLemma DEF Sort
<1>3. PICK names : names = Contents(top.entries) OBVIOUS
<1>4. PICK at \in Bijection(DOMAIN names, DOMAIN names) :
        /\ \A j, k \in DOMAIN names :
             j < k => ~First(Append(top.dn, names[at[k]]), Append(top.dn, names[at[j]]))
        /\ stack' = SetTop([top EXCEPT !.i = 1,
                                       !.entries = [k \in DOMAIN names |-> names[at[k]]]])
  BY <1>3 DEF Sort
<1>5. PICK s : s = [k \in DOMAIN names |-> names[at[k]]] OBVIOUS
<1>6. PICK m : m = Len(top.entries) OBVIOUS
<1>7. top.entries \in Seq(Nat) /\ m \in Nat /\ DOMAIN top.entries = 1 .. m
      /\ Range(top.entries) \subseteq Nat /\ top.dn \in Seq(Nat)
  BY <1>2, <1>6 DEF Frame, Range
<1>8. names \in [1 .. m -> Nat] /\ DOMAIN names = 1 .. m
  <2>1. names \in [1 .. m -> Range(top.entries)]
    BY <1>3, <1>7, ContentsLemma
  <2> QED BY <2>1, <1>7 DEF Range
<1>9. /\ at \in [1 .. m -> 1 .. m]
      /\ \A j, k \in 1 .. m : at[j] = at[k] => j = k
      /\ \A k \in 1 .. m : \E j \in 1 .. m : at[j] = k
  <2>1. at \in Bijection(1 .. m, 1 .. m) BY <1>4, <1>8
  <2> QED BY <2>1, OrderLemma
<1>10. DOMAIN s = 1 .. m /\ \A k \in 1 .. m : s[k] = names[at[k]]
  BY <1>5, <1>8
<1>11. s \in Seq(Nat)
  <2>1. \A k \in 1 .. m : names[at[k]] \in Nat BY <1>8, <1>9
  <2>2. s \in [1 .. m -> Nat] BY <2>1, <1>5, <1>8
  <2> QED BY <2>2, <1>7
<1>12. PICK f : f = [top EXCEPT !.i = 1, !.entries = s] OBVIOUS
<1>13. f.dn = top.dn /\ f.unread = {} /\ f.entries = s /\ f.i = 1
  BY <1>2, <1>12 DEF Frame
<1>14. f \in Frame
  BY <1>2, <1>11, <1>12 DEF Frame
<1>15. ASSUME Fits PROVE EntriesOf(f)
  <2>1. EntriesOf(top) BY <1>2, <1>15 DEF Places
  <2>2. names = top.entries
    <3>1. Len(top.entries) <= CHUNK BY <1>2, <1>15, <2>1, EntriesFit
    <3> QED BY <3>1, <1>3, <1>7, ContentsLemma
  <2>3. \A a, b \in 1 .. m : names[a] = names[b] => a = b
    BY <2>1, <2>2, <1>7 DEF EntriesOf
  <2>4. \A a, b \in 1 .. m : s[a] = s[b] => a = b
    <3> TAKE a, b \in 1 .. m
    <3>1. at[a] \in 1 .. m /\ at[b] \in 1 .. m BY <1>9
    <3>2. s[a] = names[at[a]] /\ s[b] = names[at[b]] BY <1>10
    <3>3. names[at[a]] = names[at[b]] => at[a] = at[b] BY <3>1, <2>3
    <3> QED BY <3>2, <3>3, <1>9
  <2>5. Range(s) = Range(names)
    <3>1. ASSUME NEW x \in Range(s) PROVE x \in Range(names)
      <4>1. PICK k \in 1 .. m : s[k] = x BY <1>10 DEF Range
      <4>2. at[k] \in DOMAIN names /\ names[at[k]] = x BY <4>1, <1>8, <1>9, <1>10
      <4> QED BY <4>2 DEF Range
    <3>2. ASSUME NEW x \in Range(names) PROVE x \in Range(s)
      <4>1. PICK k \in 1 .. m : names[k] = x BY <1>8 DEF Range
      <4>2. PICK j \in 1 .. m : at[j] = k BY <1>9
      <4>3. s[j] = x BY <4>1, <4>2, <1>10
      <4> QED BY <4>3, <1>10 DEF Range
    <3> QED BY <3>1, <3>2
  <2>6. Range(s) = Children(top.dn)
    BY <2>1, <2>2, <2>5, <1>2 DEF EntriesOf
  <2>7. ASSUME NEW a \in 1 .. m, NEW b \in 1 .. m, a < b
        PROVE First(Append(top.dn, s[a]), Append(top.dn, s[b]))
    <3>1. PICK p : p = Append(top.dn, s[a]) OBVIOUS
    <3>2. PICK q : q = Append(top.dn, s[b]) OBVIOUS
    <3>3. ~First(q, p) BY <2>7, <3>1, <3>2, <1>4, <1>8, <1>10
    <3>4. s[a] # s[b] /\ s[a] \in Nat /\ s[b] \in Nat
      <4>1. a # b BY <2>7, <1>7
      <4>2. \A k \in 1 .. m : s[k] \in Nat
        <5> TAKE k \in 1 .. m
        <5>1. at[k] \in 1 .. m /\ s[k] = names[at[k]] BY <1>9, <1>10
        <5> QED BY <5>1, <1>8
      <4> QED BY <2>4, <4>1, <4>2
    <3>5. Last(p) = s[a] /\ Last(q) = s[b] BY <3>1, <3>2, <3>4, <1>7, AppendIs
    <3>6. First(p, q) BY <3>3, <3>4, <3>5 DEF First, IsDir
    <3> QED BY <3>1, <3>2, <3>6
  <2> QED BY <1>10, <1>13, <2>4, <2>6, <2>7 DEF EntriesOf
<1>16. PICK t : t = stack' OBVIOUS
<1>17. t = SetTop(f) BY <1>4, <1>5, <1>12, <1>16
<1>18. Places(t)
  BY <1>2, <1>13, <1>14, <1>15, <1>17, SetTopPlaces
<1> QED BY <1>1, <1>16, <1>18, PlacesPrime
LEMMA PassedPlaces ==
  ASSUME Typed, Places(stack), AtEntry
  PROVE  Places(Passed)
<1>1. stack # <<>> /\ top \in Frame /\ top = stack[Len(stack)] /\ Len(stack) \in DOMAIN stack
      /\ top.i \in Nat /\ top.i > 0
  BY EntryLemma, TopLemma DEF Frame
<1>2. PICK f : f = [top EXCEPT !.i = @ + 1] OBVIOUS
<1>3. f.dn = top.dn /\ f.unread = top.unread /\ f.entries = top.entries /\ f.i = top.i + 1
  BY <1>1, <1>2 DEF Frame
<1>4. f \in Frame
  <2>1. top.i + 1 \in Nat BY <1>1
  <2> QED BY <1>1, <1>2, <2>1 DEF Frame
<1>5. ASSUME Fits PROVE EntriesOf(f)
  <2>1. EntriesOf(top) BY <1>1, <1>5 DEF Places
  <2> QED BY <1>1, <1>3, <2>1 DEF EntriesOf
<1>6. PICK t : t = Passed OBVIOUS
<1>7. t = SetTop(f) BY <1>2, <1>6 DEF Passed
<1>8. Places(t) BY <1>1, <1>3, <1>4, <1>5, <1>7, SetTopPlaces
<1> QED BY <1>6, <1>8

\* The current entry: its directories are those of the activations.
LEMMA EntryPath ==
  ASSUME Typed, Places(stack), AtEntry
  PROVE  /\ n \in DOMAIN directories /\ dir(n) \in Seq(Nat)
         /\ Len(top.dn) = Len(dir(n)) + Len(stack) - 1
         /\ Len(entry) = Len(dir(n)) + Len(stack)
         /\ \A j \in DOMAIN stack :
              /\ Len(stack[j].dn) = Len(dir(n)) + j - 1
              /\ \A x \in 1 .. Len(stack[j].dn) : entry[x] = stack[j].dn[x]
         /\ \A j \in 1 .. (Len(stack) - 1) : Through(stack[j], entry)
         /\ entry[Len(top.dn) + 1] = top.entries[top.i]
<1>1. /\ stack # <<>> /\ top \in Frame /\ top = stack[Len(stack)]
      /\ Len(stack) \in Nat \ {0} /\ DOMAIN stack = 1 .. Len(stack)
      /\ top.i \in DOMAIN top.entries /\ top.dn \in Seq(Nat) /\ top.entries[top.i] \in Nat
  BY EntryLemma, TopLemma DEF Typed
<1>2. n \in DOMAIN directories /\ dir(n) \in Seq(Nat)
  BY <1>1 DEF Places, ChainOf, Typed, dir
<1>3. PICK e : e = entry OBVIOUS
<1>4. /\ Len(e) = Len(top.dn) + 1 /\ e[Len(top.dn) + 1] = top.entries[top.i]
      /\ \A x \in 1 .. Len(top.dn) : e[x] = top.dn[x]
  BY <1>1, <1>3, AppendIs DEF entry
<1>5. \A j \in DOMAIN stack : Len(stack[j].dn) = Len(dir(n)) + j - 1
  BY DEF Places, ChainOf
<1>6. Len(stack) \in DOMAIN stack /\ Len(top.dn) = Len(dir(n)) + Len(stack) - 1
  <2>1. Len(stack) \in DOMAIN stack BY <1>1
  <2> QED BY <1>1, <1>5, <2>1
<1>7. ASSUME NEW j \in 1 .. (Len(stack) - 1)
      PROVE Through(stack[j], e)
  <2>1. Through(stack[j], top.dn)
    <3>1. \A h \in 1 .. (Len(stack) - 1) : Through(stack[h], stack[Len(stack)].dn)
      BY <1>6 DEF Places, ChainOf
    <3> QED BY <1>1, <3>1
  <2>2. PICK L : L = Len(stack[j].dn) OBVIOUS
  <2>3. L \in Nat /\ L + 1 <= Len(top.dn)
    <3>1. L = Len(dir(n)) + j - 1 /\ Len(dir(n)) \in Nat /\ j < Len(stack) /\ j >= 1
      <4>1. j \in DOMAIN stack /\ j < Len(stack) /\ j >= 1 BY <1>1
      <4>2. Len(dir(n)) \in Nat BY <1>2
      <4> QED BY <2>2, <4>1, <4>2, <1>5
    <3> QED BY <3>1, <1>1, <1>6
  <2>4. \A x \in 1 .. (L + 1) : e[x] = top.dn[x]
    <3>1. \A x \in 1 .. (L + 1) : x \in 1 .. Len(top.dn) BY <2>3, <1>1
    <3> QED BY <3>1, <1>4
  <2>5. \A x \in 1 .. L : x \in 1 .. (L + 1) BY <2>3
  <2>6. L + 1 \in 1 .. (L + 1) BY <2>3
  <2> QED BY <2>1, <2>2, <2>4, <2>5, <2>6 DEF Through
<1>8. ASSUME NEW j \in DOMAIN stack
      PROVE \A x \in 1 .. Len(stack[j].dn) : e[x] = stack[j].dn[x]
  <2>1. CASE j = Len(stack) BY <2>1, <1>1, <1>4
  <2>2. CASE j # Len(stack)
    <3>1. j \in 1 .. (Len(stack) - 1) BY <2>2, <1>1
    <3> QED BY <3>1, <1>7 DEF Through
  <2> QED BY <2>1, <2>2
<1>9. Len(e) = Len(dir(n)) + Len(stack)
  <2>1. Len(dir(n)) \in Nat BY <1>2
  <2> QED BY <2>1, <1>1, <1>4, <1>6
<1> QED BY <1>2, <1>3, <1>4, <1>5, <1>6, <1>7, <1>8, <1>9

LEMMA PushPlaces ==
  ASSUME Typed, Places(stack), AtEntry, fs[top.dn].searchable, Opens(entry, Len(stack)),
         NEW t, t = Append(Passed, New(entry))
  PROVE  Places(t)
<1>1. PICK below : below = Passed OBVIOUS
<1>2. PICK e : e = entry OBVIOUS
<1>3. PICK m : m = Len(stack) OBVIOUS
<1>4. /\ below \in Seq(Frame) /\ Len(below) = m /\ DOMAIN below = 1 .. m /\ m \in Nat \ {0}
      /\ below[m] = [top EXCEPT !.i = @ + 1]
      /\ \A j \in 1 .. (m - 1) : below[j] = stack[j]
  BY <1>1, <1>3, PassedLemma, TopLemma DEF AtEntry
<1>5. Places(below) BY <1>1, PassedPlaces
<1>6. PICK f : f = New(e) OBVIOUS
<1>7. f \in Frame /\ f.dn = e /\ f.entries = <<>> /\ f.unread = Children(e) /\ f.i = 0
  <2>1. f \in Frame BY <1>2, <1>6, NewLemma
  <2> QED BY <2>1, <1>6 DEF New
<1>8. t = Append(below, f) BY <1>1, <1>2, <1>6
<1>9. /\ Len(t) = m + 1 /\ DOMAIN t = 1 .. (m + 1) /\ t[m + 1] = f
      /\ \A j \in 1 .. m : t[j] = below[j]
  BY <1>4, <1>7, <1>8
<1>10. /\ top \in Frame /\ top.dn \in Seq(Nat) /\ top.i \in Nat \ {0} /\ top = stack[m]
       /\ top.entries[top.i] \in Nat /\ e \in Seq(Nat)
  BY <1>2, <1>3, EntryLemma, TopLemma DEF Frame
<1>11. /\ below[m].dn = top.dn /\ below[m].entries = top.entries /\ below[m].i = top.i + 1
  BY <1>4, <1>10 DEF Frame
<1>12. /\ n \in DOMAIN directories /\ Len(e) = Len(dir(n)) + m /\ dir(n) \in Seq(Nat)
       /\ \A j \in 1 .. (m - 1) : Through(stack[j], e)
       /\ e[Len(top.dn) + 1] = top.entries[top.i]
       /\ \A x \in 1 .. Len(top.dn) : e[x] = top.dn[x]
  <2>1. m \in DOMAIN stack BY <1>3, TopLemma, EntryLemma
  <2>2. \A x \in 1 .. Len(top.dn) : e[x] = top.dn[x] BY <2>1, <1>2, <1>10, EntryPath
  <2> QED BY <2>2, <1>2, <1>3, EntryPath
<1>13. \A h \in 1 .. m : Through(t[h], e)
  <2> TAKE h \in 1 .. m
  <2>1. CASE h = m
    <3>1. below[m].i > 1 /\ below[m].i - 1 = top.i BY <1>10, <1>11
    <3>2. PICK b : b = below[m] OBVIOUS
    <3>3. \A x \in 1 .. Len(b.dn) : e[x] = b.dn[x] BY <3>2, <1>11, <1>12
    <3>4. e[Len(b.dn) + 1] = b.entries[b.i - 1] BY <3>1, <3>2, <1>11, <1>12
    <3>5. Through(b, e) BY <3>1, <3>2, <3>3, <3>4 DEF Through
    <3>6. t[h] = b BY <2>1, <3>2, <1>4, <1>9
    <3> QED BY <3>5, <3>6
  <2>2. CASE h # m
    <3>1. h \in 1 .. (m - 1) BY <2>2, <1>4
    <3> QED BY <3>1, <1>4, <1>9, <1>12
  <2> QED BY <2>1, <2>2
<1>14. HasMetadata(e)
  <2>1. Front(e) = top.dn BY <1>2, <1>10, AppendIs DEF entry
  <2> QED BY <2>1 DEF HasMetadata
<1>15. ASSUME NEW j \in DOMAIN t
       PROVE /\ Opens(t[j].dn, j - 1)
             /\ j > 1 => HasMetadata(t[j].dn)
             /\ Len(t[j].dn) = Len(dir(n)) + j - 1
             /\ \A h \in 1 .. (j - 1) : Through(t[h], t[j].dn)
  <2>1. CASE j = m + 1
    <3>1. j - 1 = m /\ t[j].dn = e /\ Len(dir(n)) \in Nat BY <2>1, <1>4, <1>7, <1>9, <1>12
    <3>2. Len(e) = Len(dir(n)) + j - 1 BY <2>1, <3>1, <1>4, <1>12
    <3>3. Opens(e, m) BY <1>2, <1>3
    <3> QED BY <3>1, <3>2, <3>3, <1>13, <1>14
  <2>2. CASE j # m + 1
    <3>1. j \in 1 .. m /\ j \in DOMAIN below /\ t[j] = below[j] BY <2>2, <1>4, <1>9
    <3>2. \A h \in 1 .. (j - 1) : t[h] = below[h] BY <3>1, <1>4, <1>9
    <3> QED BY <3>1, <3>2, <1>5 DEF Places, ChainOf
  <2> QED BY <2>1, <2>2
<1>16. t[1].dn = dir(n)
  <2>1. below # <<>> /\ 1 \in 1 .. m BY <1>4
  <2> QED BY <2>1, <1>5, <1>9 DEF Places, ChainOf
<1>17. ChainOf(t) BY <1>12, <1>15, <1>16 DEF ChainOf
<1>18. ASSUME Fits, NEW j \in DOMAIN t PROVE EntriesOf(t[j])
  <2>1. CASE j = m + 1
    <3>1. EntriesOf(f)
      <4>1. DOMAIN f.entries = {} /\ Range(f.entries) = {} BY <1>7 DEF Range
      <4> QED BY <4>1, <1>7 DEF EntriesOf
    <3> QED BY <2>1, <3>1, <1>9
  <2>2. CASE j # m + 1
    <3>1. j \in DOMAIN below /\ t[j] = below[j] BY <2>2, <1>4, <1>9
    <3> QED BY <3>1, <1>5, <1>18 DEF Places
  <2> QED BY <2>1, <2>2
<1> QED BY <1>17, <1>18 DEF Places

LEMMA FrontPlaces ==
  ASSUME Typed, Places(stack), stack # <<>>, NEW t, t = Front(stack)
  PROVE  Places(t)
<1>1. PICK m : m = Len(stack) - 1 OBVIOUS
<1>2. /\ m \in Nat /\ DOMAIN stack = 1 .. (m + 1) /\ t \in Seq(Frame) /\ Len(t) = m
      /\ DOMAIN t = 1 .. m
      /\ \A j \in 1 .. m : t[j] = stack[j] /\ j \in DOMAIN stack
  <2>1. stack \in Seq(Frame) /\ Len(stack) \in Nat \ {0} BY TopLemma DEF Typed
  <2>2. /\ t \in Seq(Frame) /\ Len(t) = m
        /\ \A j \in 1 .. m : t[j] = stack[j] /\ j \in DOMAIN stack
    BY <1>1, FrontLemma
  <2>3. m \in Nat /\ Len(stack) = m + 1 BY <1>1, <2>1
  <2> QED BY <2>1, <2>2, <2>3
<1>3. ASSUME NEW j \in DOMAIN t
      PROVE /\ Opens(t[j].dn, j - 1)
            /\ j > 1 => HasMetadata(t[j].dn)
            /\ Len(t[j].dn) = Len(dir(n)) + j - 1
            /\ \A h \in 1 .. (j - 1) : Through(t[h], t[j].dn)
  <2>1. \A h \in 1 .. (j - 1) : h \in 1 .. m /\ t[h] = stack[h] BY <1>2
  <2> QED BY <2>1, <1>2 DEF Places, ChainOf
<1>4. t # <<>> => n \in DOMAIN directories /\ t[1].dn = dir(n)
  <2>1. t # <<>> => 1 \in 1 .. m BY <1>2
  <2> QED BY <2>1, <1>2 DEF Places, ChainOf
<1>5. Fits => \A j \in DOMAIN t : EntriesOf(t[j]) BY <1>2 DEF Places
<1> QED BY <1>3, <1>4, <1>5 DEF Places, ChainOf
-----------------------------------------------------------------------------
(* What is still to be printed.                                            *)

LEMMA DirTyped ==
  ASSUME Typed, NEW k \in DOMAIN directories
  PROVE  dir(k) \in Seq(Nat) /\ Len(dir(k)) \in Nat
<1>1. dir(k) \in Seq(Nat) BY DEF Typed, dir
<1> QED BY <1>1

LEMMA ReachedIs ==
  ASSUME Typed, NEW k \in DOMAIN directories, NEW p \in Seq(Nat)
  PROVE  Reached(k, p) <=>
           /\ IsStrictPrefix(dir(k), p)
           /\ \A m \in Len(dir(k)) .. (Len(p) - 1) :
                /\ Opens(SubSeq(p, 1, m), m - Len(dir(k)))
                /\ m # Len(dir(k)) => HasMetadata(SubSeq(p, 1, m))
<1>1. dir(k) \in Seq(Nat) /\ Len(dir(k)) \in Nat /\ Len(p) \in Nat BY DirTyped
<1>2. ASSUME IsStrictPrefix(dir(k), p), NEW m \in Len(dir(k)) .. (Len(p) - 1)
      PROVE  /\ Len(SubSeq(p, 1, m)) = m
             /\ SubSeq(p, 1, m) = dir(k) <=> m = Len(dir(k))
  <2>1. m \in 0 .. Len(p) /\ m \in Nat BY <1>1
  <2>2. SubSeq(p, 1, m) = dir(k) <=> Len(dir(k)) = m /\ \A x \in 1 .. m : dir(k)[x] = p[x]
    BY <1>1, <2>1, SubSeqIs
  <2>3. \A x \in 1 .. Len(dir(k)) : dir(k)[x] = p[x]
    BY <1>1, <1>2, PrefixIs
  <2>4. Len(SubSeq(p, 1, m)) = m BY <2>1
  <2> QED BY <2>2, <2>3, <2>4
<1>3. Above(k, p) = {SubSeq(p, 1, m) : m \in Len(dir(k)) .. (Len(p) - 1)}
  BY DEF Above
<1> QED BY <1>2, <1>3 DEF Reached

\* What is below an activation goes on with one of its entries.
LEMMA BelowFrame ==
  ASSUME Typed, NEW k \in DOMAIN directories, NEW p \in DOMAIN fs, Reached(k, p),
         NEW d \in Seq(Nat), IsStrictPrefix(d, p), Len(d) >= Len(dir(k))
  PROVE  p[Len(d) + 1] \in Children(d)
<1>1. p \in Seq(Nat) /\ Len(p) \in Nat /\ Len(d) \in Nat BY TreeTyped
<1>2. Len(d) < Len(p) /\ \A x \in 1 .. Len(d) : d[x] = p[x] BY <1>1, PrefixIs
<1>3. PICK m : m = Len(d) + 1 OBVIOUS
<1>4. m \in 0 .. Len(p) /\ m >= 1 /\ p[m] \in Nat BY <1>1, <1>2, <1>3
<1>5. SubSeq(p, 1, m) = Append(d, p[m])
  <2>1. PICK a : a = Append(d, p[m]) OBVIOUS
  <2>2. /\ a \in Seq(Nat) /\ Len(a) = m /\ a[m] = p[m]
        /\ \A x \in 1 .. Len(d) : a[x] = d[x]
    BY <1>3, <1>4, <2>1, AppendIs
  <2>3. \A x \in 1 .. m : a[x] = p[x]
    <3> TAKE x \in 1 .. m
    <3>1. x = m \/ x \in 1 .. Len(d) BY <1>1, <1>3
    <3> QED BY <3>1, <2>2, <1>2
  <2>4. SubSeq(p, 1, m) = a BY <1>1, <1>4, <2>2, <2>3, SubSeqIs
  <2> QED BY <2>1, <2>4
<1>6. SubSeq(p, 1, m) \in DOMAIN fs
  <2>1. CASE m = Len(p)
    <3>1. SubSeq(p, 1, m) = p
      <4>1. \A x \in 1 .. m : p[x] = p[x] OBVIOUS
      <4> QED BY <2>1, <1>1, <1>4, <4>1, SubSeqIs
    <3> QED BY <3>1
  <2>2. CASE m # Len(p)
    <3>1. m \in Len(dir(k)) .. (Len(p) - 1)
      <4>1. Len(dir(k)) \in Nat BY DirTyped
      <4> QED BY <4>1, <2>2, <1>1, <1>3, <1>4
    <3>2. Opens(SubSeq(p, 1, m), m - Len(dir(k))) BY <3>1, <1>1, ReachedIs
    <3> QED BY <3>2 DEF Opens
  <2> QED BY <2>1, <2>2
<1> QED BY <1>3, <1>4, <1>5, <1>6, ChildrenAre

LEMMA EntryReached ==
  ASSUME Typed, Places(stack), AtEntry
  PROVE  /\ Reached(n, entry) /\ n \in DOMAIN directories
         /\ Len(entry) - Len(dir(n)) = Len(stack) /\ Len(entry) > Len(dir(n))
<1>1. PICK e : e = entry OBVIOUS
<1>2. /\ n \in DOMAIN directories /\ dir(n) \in Seq(Nat) /\ Len(e) = Len(dir(n)) + Len(stack)
      /\ \A j \in DOMAIN stack :
           /\ Len(stack[j].dn) = Len(dir(n)) + j - 1
           /\ \A x \in 1 .. Len(stack[j].dn) : e[x] = stack[j].dn[x]
  BY <1>1, EntryPath
<1>3. e \in Seq(Nat) /\ Len(dir(n)) \in Nat /\ Len(stack) \in Nat \ {0}
      /\ DOMAIN stack = 1 .. Len(stack)
  <2>1. stack \in Seq(Frame) BY DEF Typed
  <2> QED BY <2>1, <1>1, <1>2, EntryLemma, TopLemma
<1>4. ASSUME NEW m \in Len(dir(n)) .. (Len(e) - 1)
      PROVE  /\ Opens(SubSeq(e, 1, m), m - Len(dir(n)))
             /\ m # Len(dir(n)) => HasMetadata(SubSeq(e, 1, m))
             /\ m = Len(dir(n)) => SubSeq(e, 1, m) = dir(n)
  <2>1. PICK j : j = m - Len(dir(n)) + 1 OBVIOUS
  <2>2. j \in Nat /\ j >= 1 /\ j <= Len(stack) /\ m = Len(dir(n)) + (j - 1)
        /\ j - 1 = m - Len(dir(n)) /\ (m # Len(dir(n)) => j > 1) /\ (m = Len(dir(n)) => j = 1)
    BY <2>1, <1>2, <1>3
  <2>3. j \in DOMAIN stack BY <2>2, <1>3
  <2>4. PICK d : d = stack[j].dn OBVIOUS
  <2>5. d \in Seq(Nat) /\ Len(d) = m /\ \A x \in 1 .. m : e[x] = d[x]
    <3>1. stack[j] \in Frame BY <2>3 DEF Typed
    <3> QED BY <3>1, <2>2, <2>3, <2>4, <1>2 DEF Frame
  <2>6. m \in 0 .. Len(e) BY <1>2, <1>3
  <2>7. SubSeq(e, 1, m) = d BY <2>5, <2>6, <1>3, SubSeqIs
  <2>8. Opens(d, j - 1) /\ (j > 1 => HasMetadata(d))
    BY <2>3, <2>4 DEF Places, ChainOf
  <2>9. j = 1 => d = dir(n)
    <3>1. stack # <<>> BY <2>3, <1>3
    <3> QED BY <3>1, <2>4 DEF Places, ChainOf
  <2> QED BY <2>2, <2>7, <2>8, <2>9
<1>5. IsStrictPrefix(dir(n), e)
  <2>1. Len(dir(n)) \in Len(dir(n)) .. (Len(e) - 1) /\ Len(dir(n)) < Len(e)
        /\ Len(dir(n)) \in 0 .. Len(e)
    BY <1>2, <1>3
  <2>2. SubSeq(e, 1, Len(dir(n))) = dir(n) BY <2>1, <1>4
  <2>3. \A x \in 1 .. Len(dir(n)) : dir(n)[x] = e[x]
    BY <2>1, <2>2, <1>2, <1>3, SubSeqIs
  <2> QED BY <2>1, <2>3, <1>2, <1>3, PrefixIs
<1>6. Reached(n, e) BY <1>2, <1>3, <1>4, <1>5, ReachedIs
<1>7. Len(e) - Len(dir(n)) = Len(stack) /\ Len(e) > Len(dir(n)) BY <1>2, <1>3
<1> QED BY <1>1, <1>2, <1>6, <1>7
LEMMA NotRemaining ==
  ASSUME NEW f \in Frame, FrameOK(f), EntriesOf(f), f.i > 1
  PROVE  f.entries[f.i - 1] \notin Remaining(f)
<1>1. f.i \in Nat /\ Len(f.entries) \in Nat /\ f.i <= Len(f.entries) + 1
      /\ DOMAIN f.entries = 1 .. Len(f.entries)
  BY DEF Frame, FrameOK
<1>2. f.i - 1 \in DOMAIN f.entries
      /\ \A x \in f.i .. Len(f.entries) : x \in DOMAIN f.entries /\ x # f.i - 1
  BY <1>1
<1>3. \A x \in f.i .. Len(f.entries) : f.entries[x] # f.entries[f.i - 1]
  BY <1>2 DEF EntriesOf
<1>4. Remaining(f) = {f.entries[x] : x \in f.i .. Len(f.entries)}
  BY <1>1 DEF Remaining
<1> QED BY <1>3, <1>4

\* When the entry is passed it is pending no more, nor is what is below it.
LEMMA PassPending ==
  ASSUME Typed, Places(stack), Fits, AtEntry, NEW p \in Seq(Nat)
  PROVE  PendingIn(Passed, p) <=> PendingIn(stack, p) /\ p # entry /\ ~IsStrictPrefix(entry, p)
<1>1. PICK t : t = Passed OBVIOUS
<1>2. PICK e : e = entry OBVIOUS
<1>3. PICK m : m = Len(stack) OBVIOUS
<1>4. PICK g : g = t[m] OBVIOUS
<1>5. /\ m \in Nat \ {0} /\ DOMAIN stack = 1 .. m /\ DOMAIN t = 1 .. m
      /\ \A j \in 1 .. (m - 1) : t[j] = stack[j]
      /\ g = [top EXCEPT !.i = @ + 1]
  <2>1. Len(stack) \in Nat \ {0} /\ DOMAIN stack = 1 .. Len(stack)
    BY TopLemma, EntryLemma DEF Typed
  <2> QED BY <2>1, <1>1, <1>3, <1>4, PassedLemma
<1>6. /\ top \in Frame /\ FrameOK(top) /\ top = stack[m] /\ top.i \in DOMAIN top.entries
      /\ top.i \in Nat /\ top.i > 0 /\ Len(top.entries) \in Nat /\ top.dn \in Seq(Nat)
      /\ DOMAIN top.entries = 1 .. Len(top.entries)
  BY <1>3, TopLemma, EntryLemma DEF Frame
<1>7. g.dn = top.dn /\ g.entries = top.entries /\ g.i = top.i + 1
  BY <1>5, <1>6 DEF Frame
<1>8. /\ Remaining(top) = {top.entries[x] : x \in top.i .. Len(top.entries)}
      /\ Remaining(g) = {top.entries[x] : x \in (top.i + 1) .. Len(top.entries)}
  <2>1. top.i # 0 /\ top.i + 1 # 0 BY <1>6
  <2> QED BY <2>1, <1>7 DEF Remaining
<1>9. EntriesOf(top) BY <1>5, <1>6 DEF Places
<1>10. /\ e \in Seq(Nat) /\ Len(e) = Len(top.dn) + 1
       /\ e[Len(top.dn) + 1] = top.entries[top.i]
       /\ \A x \in 1 .. Len(top.dn) : e[x] = top.dn[x]
  <2>1. top.entries[top.i] \in Nat BY EntryLemma
  <2> QED BY <2>1, <1>2, <1>6, AppendIs DEF entry
<1>11. (p = e \/ IsStrictPrefix(e, p)) <=>
         Len(e) <= Len(p) /\ \A x \in 1 .. Len(e) : p[x] = e[x]
  <2>1. Len(e) \in Nat /\ Len(p) \in Nat BY <1>10
  <2>2. IsStrictPrefix(e, p) <=> Len(e) < Len(p) /\ \A x \in 1 .. Len(e) : e[x] = p[x]
    BY <1>10, PrefixIs
  <2>3. p = e <=> Len(p) = Len(e) /\ \A x \in 1 .. Len(e) : p[x] = e[x]
    BY <1>10, PathEqual
  <2> QED BY <2>1, <2>2, <2>3
<1>12. ASSUME PendingIn(t, p) PROVE PendingIn(stack, p) /\ ~(p = e \/ IsStrictPrefix(e, p))
  <2>1. PICK j \in DOMAIN t : IsStrictPrefix(t[j].dn, p) /\ p[Len(t[j].dn) + 1] \in Remaining(t[j])
    BY <1>12 DEF PendingIn
  <2>2. CASE j = m
    <3>1. IsStrictPrefix(top.dn, p) /\ p[Len(top.dn) + 1] \in Remaining(g)
      BY <2>1, <2>2, <1>4, <1>7
    <3>2. PICK x \in (top.i + 1) .. Len(top.entries) : p[Len(top.dn) + 1] = top.entries[x]
      BY <3>1, <1>8
    <3>3. x \in top.i .. Len(top.entries) /\ x # top.i /\ x \in DOMAIN top.entries
      BY <3>2, <1>6
    <3>4. p[Len(top.dn) + 1] \in Remaining(top) BY <3>2, <3>3, <1>8
    <3>5. PendingIn(stack, p)
      <4>1. m \in DOMAIN stack /\ stack[m] = top BY <1>5, <1>6
      <4> QED BY <3>1, <3>4, <4>1 DEF PendingIn
    <3>6. p[Len(top.dn) + 1] # e[Len(top.dn) + 1]
      <4>1. top.entries[x] # top.entries[top.i] BY <3>3, <1>6, <1>9 DEF EntriesOf
      <4> QED BY <4>1, <3>2, <1>10
    <3>7. Len(top.dn) + 1 \in 1 .. Len(e) BY <1>6, <1>10
    <3> QED BY <3>5, <3>6, <3>7, <1>11
  <2>3. CASE j # m
    <3>1. j \in 1 .. (m - 1) /\ j \in DOMAIN stack /\ t[j] = stack[j]
      BY <2>3, <1>5
    <3>2. PICK f : f = stack[j] OBVIOUS
    <3>3. IsStrictPrefix(f.dn, p) /\ p[Len(f.dn) + 1] \in Remaining(f)
      BY <2>1, <3>1, <3>2
    <3>4. PendingIn(stack, p) BY <3>1, <3>2, <3>3 DEF PendingIn
    <3>5. Through(f, e) /\ Len(f.dn) <= Len(top.dn) /\ Len(f.dn) \in Nat
      <4>1. Through(f, e) BY <1>2, <1>3, <3>1, <3>2, EntryPath
      <4>2. Len(f.dn) = Len(dir(n)) + j - 1 /\ Len(top.dn) = Len(dir(n)) + m - 1
            /\ dir(n) \in Seq(Nat)
        BY <1>3, <3>1, <3>2, EntryPath
      <4>3. Len(dir(n)) \in Nat BY <4>2
      <4> QED BY <4>1, <4>2, <4>3, <3>1, <1>5
    <3>6. f \in Frame /\ FrameOK(f) /\ EntriesOf(f)
      BY <3>1, <3>2 DEF Typed, Places
    <3>7. f.entries[f.i - 1] \notin Remaining(f)
      BY <3>5, <3>6, NotRemaining DEF Through
    <3>8. p[Len(f.dn) + 1] # e[Len(f.dn) + 1] BY <3>3, <3>5, <3>7 DEF Through
    <3>9. Len(f.dn) + 1 \in 1 .. Len(e)
      <4>1. PICK L : L = Len(f.dn) OBVIOUS
      <4>2. PICK M : M = Len(top.dn) OBVIOUS
      <4>3. L \in Nat /\ M \in Nat /\ L <= M /\ Len(e) = M + 1
        BY <3>5, <1>6, <1>10, <4>1, <4>2
      <4>4. L + 1 \in 1 .. (M + 1) BY ONLY <4>3
      <4> QED BY <4>1, <4>3, <4>4
    <3> QED BY <3>4, <3>8, <3>9, <1>11
  <2> QED BY <2>2, <2>3
<1>13. ASSUME PendingIn(stack, p), ~(p = e \/ IsStrictPrefix(e, p)) PROVE PendingIn(t, p)
  <2>1. PICK j \in DOMAIN stack : IsStrictPrefix(stack[j].dn, p)
                                  /\ p[Len(stack[j].dn) + 1] \in Remaining(stack[j])
    BY <1>13 DEF PendingIn
  <2>2. CASE j = m
    <3>1. IsStrictPrefix(top.dn, p) /\ p[Len(top.dn) + 1] \in Remaining(top)
      BY <2>1, <2>2, <1>6
    <3>2. PICK x \in top.i .. Len(top.entries) : p[Len(top.dn) + 1] = top.entries[x]
      BY <3>1, <1>8
    <3>3. x # top.i
      <4> SUFFICES ASSUME x = top.i PROVE FALSE
        OBVIOUS
      <4>1. Len(top.dn) < Len(p) /\ \A y \in 1 .. Len(top.dn) : top.dn[y] = p[y]
        BY <3>1, <1>6, PrefixIs
      <4>2. Len(top.dn) \in Nat /\ Len(p) \in Nat BY <1>6
      <4>3. \A y \in 1 .. Len(e) : y \in 1 .. Len(top.dn) \/ y = Len(top.dn) + 1
        BY <4>2, <1>10
      <4>4. p[Len(top.dn) + 1] = e[Len(top.dn) + 1] BY <3>2, <1>10
      <4>5. \A y \in 1 .. Len(e) : p[y] = e[y] BY <4>1, <4>3, <4>4, <1>10
      <4>6. Len(e) <= Len(p) BY <4>1, <4>2, <1>10
      <4> QED BY <4>5, <4>6, <1>11, <1>13
    <3>4. x \in (top.i + 1) .. Len(top.entries) BY <3>2, <3>3, <1>6
    <3>5. p[Len(g.dn) + 1] \in Remaining(g) BY <3>2, <3>4, <1>7, <1>8
    <3>6. m \in DOMAIN t /\ t[m] = g BY <1>4, <1>5
    <3> QED BY <3>1, <3>5, <3>6, <1>7 DEF PendingIn
  <2>3. CASE j # m
    <3>1. j \in DOMAIN t /\ t[j] = stack[j]
      <4>1. j \in 1 .. (m - 1) BY <2>3, <1>5
      <4> QED BY <4>1, <1>5
    <3> QED BY <2>1, <3>1 DEF PendingIn
  <2> QED BY <2>2, <2>3
<1> QED BY <1>1, <1>2, <1>12, <1>13

LEMMA AppendPending ==
  ASSUME NEW s \in Seq(Frame), NEW f \in Frame, NEW p
  PROVE  PendingIn(Append(s, f), p) <=>
           \/ PendingIn(s, p)
           \/ IsStrictPrefix(f.dn, p) /\ p[Len(f.dn) + 1] \in Remaining(f)
<1>1. PICK t : t = Append(s, f) OBVIOUS
<1>2. Len(s) + 1 \in DOMAIN t /\ t[Len(s) + 1] = f
      /\ (\A j \in DOMAIN s : j \in DOMAIN t /\ t[j] = s[j])
      /\ \A j \in DOMAIN t : j \in DOMAIN s \/ j = Len(s) + 1
  BY <1>1
<1> QED BY <1>1, <1>2 DEF PendingIn
\* What is below a directory that the traversal does not enter is not reached.
LEMMA NotBelow ==
  ASSUME Typed, Places(stack), AtEntry, NEW p \in DOMAIN fs, Reached(n, p),
         IsStrictPrefix(entry, p)
  PROVE  Opens(entry, Len(stack)) /\ HasMetadata(entry)
<1>1. PICK e : e = entry OBVIOUS
<1>2. /\ n \in DOMAIN directories /\ e \in Seq(Nat) /\ p \in Seq(Nat) /\ dir(n) \in Seq(Nat)
      /\ Len(e) - Len(dir(n)) = Len(stack) /\ Len(e) > Len(dir(n))
  BY <1>1, EntryReached, EntryLemma, EntryPath, TreeTyped
<1>3. Len(e) < Len(p) /\ \A x \in 1 .. Len(e) : e[x] = p[x] BY <1>1, <1>2, PrefixIs
<1>4. Len(e) \in Nat /\ Len(p) \in Nat /\ Len(dir(n)) \in Nat BY <1>2
<1>5. Len(e) \in Len(dir(n)) .. (Len(p) - 1) /\ Len(e) # Len(dir(n)) /\ Len(e) \in 0 .. Len(p)
  BY <1>2, <1>3, <1>4
<1>6. SubSeq(p, 1, Len(e)) = e BY <1>2, <1>3, <1>5, SubSeqIs
<1> QED BY <1>1, <1>2, <1>5, <1>6, ReachedIs

\* The entry itself is pending, and so is what is below it.
LEMMA EntryIsPending ==
  ASSUME Typed, Places(stack), AtEntry, NEW p \in Seq(Nat),
         p = entry \/ IsStrictPrefix(entry, p)
  PROVE  PendingIn(stack, p)
<1>1. PICK e : e = entry OBVIOUS
<1>2. /\ top \in Frame /\ top.i \in DOMAIN top.entries /\ top.i > 0 /\ top.i \in Nat
      /\ top.dn \in Seq(Nat) /\ DOMAIN top.entries = 1 .. Len(top.entries)
      /\ Len(top.entries) \in Nat /\ top.entries[top.i] \in Nat
      /\ Len(stack) \in DOMAIN stack /\ top = stack[Len(stack)]
  BY TopLemma, EntryLemma DEF Frame
<1>3. /\ e \in Seq(Nat) /\ Len(e) = Len(top.dn) + 1 /\ e[Len(top.dn) + 1] = top.entries[top.i]
      /\ \A x \in 1 .. Len(top.dn) : e[x] = top.dn[x]
  BY <1>1, <1>2, AppendIs DEF entry
<1>4. Len(e) <= Len(p) /\ \A x \in 1 .. Len(e) : e[x] = p[x]
  <2>1. Len(e) \in Nat /\ Len(p) \in Nat BY <1>3
  <2>2. CASE p = e BY <2>1, <2>2
  <2>3. CASE IsStrictPrefix(e, p) BY <2>1, <2>3, <1>3, PrefixIs
  <2> QED BY <2>2, <2>3, <1>1
<1>5. IsStrictPrefix(top.dn, p) /\ p[Len(top.dn) + 1] = top.entries[top.i]
  <2>1. Len(top.dn) \in Nat /\ Len(p) \in Nat BY <1>2
  <2>2. Len(top.dn) < Len(p) BY <2>1, <1>3, <1>4
  <2>3. \A x \in 1 .. Len(top.dn) : x \in 1 .. Len(e) BY <2>1, <1>3
  <2>4. \A x \in 1 .. Len(top.dn) : top.dn[x] = p[x] BY <2>3, <1>3, <1>4
  <2>5. Len(top.dn) + 1 \in 1 .. Len(e) BY <2>1, <1>3
  <2>6. p[Len(top.dn) + 1] = top.entries[top.i] BY <2>5, <1>3, <1>4
  <2> QED BY <2>2, <2>4, <2>6, <1>2, PrefixIs
<1>6. top.entries[top.i] \in Remaining(top)
  <2>1. top.i # 0 /\ top.i \in top.i .. Len(top.entries) BY <1>2
  <2> QED BY <2>1 DEF Remaining
<1> QED BY <1>2, <1>5, <1>6 DEF PendingIn

\* A step that passes an entry takes it, and nothing else, off what is pending.
LEMMA EntryPending ==
  ASSUME Typed, Places(stack), Fits, Entry \/ NoMetadata, NEW t, t = stack',
         NEW p \in DOMAIN fs, Reached(n, p)
  PROVE  PendingIn(t, p) <=> PendingIn(stack, p) /\ p # entry
<1>1. AtEntry BY DEF Entry, NoMetadata
<1>2. p \in Seq(Nat) /\ n \in DOMAIN directories /\ entry \in Seq(Nat)
      /\ Len(entry) > Len(dir(n)) /\ dir(n) \in Seq(Nat) /\ top.dn \in Seq(Nat)
      /\ top.entries[top.i] \in Nat
  BY <1>1, TreeTyped, EntryReached, EntryLemma, EntryPath
<1>3. PendingIn(Passed, p) <=> PendingIn(stack, p) /\ p # entry /\ ~IsStrictPrefix(entry, p)
  BY <1>1, <1>2, PassPending
<1>4. ~IsStrictPrefix(entry, entry) BY DEF IsStrictPrefix
<1>5. CASE /\ stack' = Passed
           /\ ~Opens(entry, Len(stack)) \/ ~fs[top.dn].searchable
  <2>1. Front(entry) = top.dn BY <1>2, AppendIs DEF entry
  <2>2. HasMetadata(entry) => fs[top.dn].searchable BY <2>1 DEF HasMetadata
  <2>3. ~IsStrictPrefix(entry, p) BY <1>1, <1>5, <2>2, NotBelow
  <2> QED BY <1>3, <1>5, <2>3
<1>6. CASE /\ stack' = Append(Passed, New(entry))
           /\ Opens(entry, Len(stack))
  <2>1. PICK f : f = New(entry) OBVIOUS
  <2>2. f \in Frame /\ f.dn = entry /\ Remaining(f) = Children(entry)
    <3>1. f \in Frame BY <1>6, <2>1, NewLemma
    <3> QED BY <2>1, <3>1 DEF New, Remaining
  <2>3. Passed \in Seq(Frame) BY <1>1, PassedLemma
  <2>4. PendingIn(t, p) <=> \/ PendingIn(Passed, p)
                            \/ IsStrictPrefix(entry, p) /\ p[Len(entry) + 1] \in Children(entry)
    <3>1. t = Append(Passed, f) BY <1>6, <2>1
    <3>2. PICK s : s = Passed OBVIOUS
    <3>3. PendingIn(t, p) <=> \/ PendingIn(s, p)
                              \/ IsStrictPrefix(f.dn, p) /\ p[Len(f.dn) + 1] \in Remaining(f)
      BY <2>2, <2>3, <3>1, <3>2, AppendPending
    <3> QED BY <2>2, <3>2, <3>3
  <2>5. IsStrictPrefix(entry, p) => p[Len(entry) + 1] \in Children(entry)
    <3>1. Len(entry) >= Len(dir(n)) BY <1>2
    <3> QED BY <1>2, <3>1, BelowFrame
  <2>6. IsStrictPrefix(entry, p) => PendingIn(stack, p) /\ p # entry
    BY <1>1, <1>2, <1>4, EntryIsPending
  <2> QED BY <1>3, <2>4, <2>5, <2>6
<1>7. \/ stack' = Passed /\ (~Opens(entry, Len(stack)) \/ ~fs[top.dn].searchable)
      \/ stack' = Append(Passed, New(entry)) /\ Opens(entry, Len(stack))
  <2>1. CASE NoMetadata BY <2>1 DEF NoMetadata
  <2>2. CASE Entry
    <3>1. ~IsDir(entry) => ~Opens(entry, Len(stack)) BY DEF IsDir, Opens
    <3> QED BY <2>2, <3>1, EntryCases
  <2> QED BY <2>1, <2>2
<1> QED BY <1>5, <1>6, <1>7
-----------------------------------------------------------------------------
(* The order of the listing.                                               *)

PathBefore(p, q) ==
  \/ IsStrictPrefix(p, q)
  \/ \E j \in DOMAIN p \cap DOMAIN q :
       /\ SubSeq(p, 1, j - 1) = SubSeq(q, 1, j - 1)
       /\ p[j] # q[j]
       /\ First(SubSeq(p, 1, j), SubSeq(q, 1, j))

LEMMA AgreeIs ==
  ASSUME NEW p \in Seq(Nat), NEW q \in Seq(Nat), NEW j \in DOMAIN p \cap DOMAIN q
  PROVE  SubSeq(p, 1, j - 1) = SubSeq(q, 1, j - 1) <=> \A x \in 1 .. (j - 1) : p[x] = q[x]
<1>1. j - 1 \in 0 .. Len(p) /\ j - 1 \in 0 .. Len(q) OBVIOUS
<1>2. PICK s : s = SubSeq(p, 1, j - 1) OBVIOUS
<1>3. s \in Seq(Nat) /\ Len(s) = j - 1 /\ \A x \in 1 .. (j - 1) : s[x] = p[x]
  <2>1. PICK m : m = j - 1 OBVIOUS
  <2>2. m \in 0 .. Len(p) /\ s = SubSeq(p, 1, m) BY <1>1, <1>2, <2>1
  <2>3. s \in Seq(Nat) /\ Len(s) = m /\ \A x \in 1 .. m : s[x] = p[x]
    BY <2>2
  <2> QED BY <2>1, <2>3
<1>4. SubSeq(q, 1, j - 1) = s <=> Len(s) = j - 1 /\ \A x \in 1 .. (j - 1) : s[x] = q[x]
  BY <1>1, <1>3, SubSeqIs
<1> QED BY <1>2, <1>3, <1>4

LEMMA BeforeAsymmetric ==
  ASSUME NEW p \in Seq(Nat), NEW q \in Seq(Nat), PathBefore(p, q)
  PROVE  ~PathBefore(q, p) /\ p # q
<1>1. /\ IsStrictPrefix(p, q) <=> Len(p) < Len(q) /\ \A x \in 1 .. Len(p) : p[x] = q[x]
      /\ IsStrictPrefix(q, p) <=> Len(q) < Len(p) /\ \A x \in 1 .. Len(q) : q[x] = p[x]
      /\ Len(p) \in Nat /\ Len(q) \in Nat /\ DOMAIN p = 1 .. Len(p) /\ DOMAIN q = 1 .. Len(q)
  BY PrefixIs
<1> DEFINE Fork(j) == /\ j \in DOMAIN p \cap DOMAIN q
                      /\ \A x \in 1 .. (j - 1) : p[x] = q[x]
                      /\ p[j] # q[j]
<1>2. ASSUME NEW j, Fork(j) PROVE ~IsStrictPrefix(p, q) /\ ~IsStrictPrefix(q, p)
  BY <1>1, <1>2
<1>3. ASSUME NEW j, Fork(j), NEW k, Fork(k) PROVE j = k
  <2>1. j \in Nat /\ k \in Nat /\ j >= 1 /\ k >= 1
    <3>1. j \in 1 .. Len(p) /\ k \in 1 .. Len(p) BY <1>1, <1>3
    <3> QED BY <3>1
  <2>2. CASE j < k
    <3>1. j \in 1 .. (k - 1) BY <2>1, <2>2
    <3> QED BY <3>1, <1>3
  <2>3. CASE k < j
    <3>1. k \in 1 .. (j - 1) BY <2>1, <2>3
    <3> QED BY <3>1, <1>3
  <2> QED BY <2>1, <2>2, <2>3
<1>4. PathBefore(p, q) =>
        \/ IsStrictPrefix(p, q)
        \/ \E j : Fork(j) /\ First(SubSeq(p, 1, j), SubSeq(q, 1, j))
  BY AgreeIs DEF PathBefore
<1>5. PathBefore(q, p) =>
        \/ IsStrictPrefix(q, p)
        \/ \E j : Fork(j) /\ First(SubSeq(q, 1, j), SubSeq(p, 1, j))
  <2>1. \A j \in DOMAIN q \cap DOMAIN p :
          SubSeq(q, 1, j - 1) = SubSeq(p, 1, j - 1) <=> \A x \in 1 .. (j - 1) : q[x] = p[x]
    BY AgreeIs
  <2> QED BY <2>1 DEF PathBefore
<1>6. ASSUME NEW j, Fork(j), First(SubSeq(p, 1, j), SubSeq(q, 1, j)),
             First(SubSeq(q, 1, j), SubSeq(p, 1, j))
      PROVE FALSE
  <2>1. PICK a : a = SubSeq(p, 1, j) OBVIOUS
  <2>2. PICK b : b = SubSeq(q, 1, j) OBVIOUS
  <2>3. Len(a) = j /\ a[j] = p[j] /\ Len(b) = j /\ b[j] = q[j] /\ p[j] \in Nat /\ q[j] \in Nat
    <3>1. j \in 1 .. Len(p) /\ j \in 1 .. Len(q) BY <1>1, <1>6
    <3>2. Len(a) = j /\ a[j] = p[j] /\ p[j] \in Nat BY <3>1, <2>1
    <3>3. Len(b) = j /\ b[j] = q[j] /\ q[j] \in Nat BY <3>1, <2>2
    <3> QED BY <3>2, <3>3
  <2>4. Last(a) = p[j] /\ Last(b) = q[j] BY <2>3 DEF Last
  <2>5. First(a, b) /\ First(b, a) BY <1>6, <2>1, <2>2
  <2> QED BY <2>3, <2>4, <2>5 DEF First, IsDir
<1>7. p # q
  <2>1. ~IsStrictPrefix(p, p) BY DEF IsStrictPrefix
  <2> QED BY <1>4, <2>1
<1>8. CASE IsStrictPrefix(p, q)
  <2> HIDE DEF Fork
  <2>1. ~IsStrictPrefix(q, p) BY <1>1, <1>8
  <2> QED BY <1>2, <1>5, <1>7, <1>8, <2>1
<1>9. CASE \E j : Fork(j) /\ First(SubSeq(p, 1, j), SubSeq(q, 1, j))
  <2> HIDE DEF Fork
  <2>1. PICK j : Fork(j) /\ First(SubSeq(p, 1, j), SubSeq(q, 1, j)) BY <1>9
  <2>2. ~IsStrictPrefix(q, p) BY <2>1, <1>2
  <2> QED BY <1>3, <1>5, <1>6, <1>7, <2>1, <2>2
<1> HIDE DEF Fork
<1> QED BY <1>4, <1>8, <1>9

\* Two paths through the entries of one directory.
LEMMA FrameOrder ==
  ASSUME NEW f \in Frame, EntriesOf(f), f.i > 0, NEW p \in Seq(Nat), NEW q \in Seq(Nat),
         IsStrictPrefix(f.dn, p), IsStrictPrefix(f.dn, q),
         NEW x \in DOMAIN f.entries, NEW y \in DOMAIN f.entries, x < y,
         p[Len(f.dn) + 1] = f.entries[x], q[Len(f.dn) + 1] = f.entries[y]
  PROVE  PathBefore(p, q)
<1>1. f.dn \in Seq(Nat) /\ Len(f.dn) \in Nat /\ f.entries \in Seq(Nat) BY DEF Frame
<1>2. PICK m : m = Len(f.dn) + 1 OBVIOUS
<1>3. /\ Len(f.dn) < Len(p) /\ \A z \in 1 .. Len(f.dn) : f.dn[z] = p[z]
  BY <1>1, PrefixIs
<1>4. /\ Len(f.dn) < Len(q) /\ \A z \in 1 .. Len(f.dn) : f.dn[z] = q[z]
  BY <1>1, PrefixIs
<1>5. m \in DOMAIN p \cap DOMAIN q /\ m \in 0 .. Len(p) /\ m \in 0 .. Len(q)
  <2>1. Len(p) \in Nat /\ Len(q) \in Nat /\ DOMAIN p = 1 .. Len(p) /\ DOMAIN q = 1 .. Len(q)
    OBVIOUS
  <2>2. m \in Nat /\ m >= 1 /\ m <= Len(p) /\ m <= Len(q)
    <3>1. Len(f.dn) < Len(p) /\ Len(f.dn) < Len(q) BY <1>3, <1>4
    <3>2. PICK L : L = Len(f.dn) OBVIOUS
    <3>3. L \in Nat /\ L < Len(p) /\ L < Len(q) /\ m = L + 1 BY <1>1, <1>2, <3>1, <3>2
    <3> QED BY ONLY <2>1, <3>3
  <2> QED BY <2>1, <2>2
<1>6. ASSUME NEW r \in Seq(Nat), NEW a \in Nat, m \in 0 .. Len(r), r[m] = a,
             \A z \in 1 .. Len(f.dn) : f.dn[z] = r[z]
      PROVE  SubSeq(r, 1, m) = Append(f.dn, a)
  <2>1. PICK s : s = Append(f.dn, a) OBVIOUS
  <2>2. /\ s \in Seq(Nat) /\ Len(s) = m /\ s[m] = a
        /\ \A z \in 1 .. Len(f.dn) : s[z] = f.dn[z]
    <3>1. PICK d \in Seq(Nat) : d = f.dn BY <1>1
    <3>2. s = Append(d, a) /\ m = Len(d) + 1 BY <1>2, <2>1, <3>1
    <3> QED BY <3>1, <3>2, AppendIs
  <2>3. \A z \in 1 .. m : s[z] = r[z]
    <3> TAKE z \in 1 .. m
    <3>1. z = m \/ z \in 1 .. Len(f.dn) BY <1>1, <1>2
    <3> QED BY <3>1, <2>2, <1>6
  <2> QED BY <2>1, <2>2, <2>3, <1>6, SubSeqIs
<1>7. f.entries[x] \in Nat /\ f.entries[y] \in Nat
  <2>1. PICK e \in Seq(Nat) : e = f.entries BY <1>1
  <2>2. x \in DOMAIN e /\ y \in DOMAIN e BY <2>1
  <2>3. e[x] \in Nat /\ e[y] \in Nat BY ONLY <2>2, e \in Seq(Nat)
  <2> QED BY <2>1, <2>3
<1>8. SubSeq(p, 1, m) = Append(f.dn, f.entries[x]) BY <1>2, <1>3, <1>5, <1>6, <1>7
<1>9. SubSeq(q, 1, m) = Append(f.dn, f.entries[y]) BY <1>2, <1>4, <1>5, <1>6, <1>7
<1>10. First(SubSeq(p, 1, m), SubSeq(q, 1, m)) BY <1>8, <1>9 DEF EntriesOf
<1>11. p[m] # q[m]
  <2>1. x # y BY <1>1
  <2> QED BY <2>1, <1>2 DEF EntriesOf
<1>12. SubSeq(p, 1, m - 1) = SubSeq(q, 1, m - 1)
  <2>1. \A z \in 1 .. (m - 1) : p[z] = q[z]
    <3>1. m - 1 = Len(f.dn) BY <1>1, <1>2
    <3> QED BY <3>1, <1>3, <1>4
  <2> QED BY <2>1, <1>5, AgreeIs
<1> QED BY <1>5, <1>10, <1>11, <1>12 DEF PathBefore
\* What is printed comes before what is pending: they part at an activation
\* that has passed the entry of the one and not that of the other.
LEMMA DoneFirst ==
  ASSUME Typed, Places(stack), Fits,
         NEW p \in DOMAIN fs, Reached(n, p), ~PendingIn(stack, p),
         NEW q \in Seq(Nat), PendingIn(stack, q)
  PROVE  PathBefore(p, q)
<1>1. PICK j \in DOMAIN stack : IsStrictPrefix(stack[j].dn, q)
                                /\ q[Len(stack[j].dn) + 1] \in Remaining(stack[j])
  BY DEF PendingIn
<1>2. /\ stack \in Seq(Frame) /\ Len(stack) \in Nat /\ DOMAIN stack = 1 .. Len(stack)
      /\ stack # <<>> /\ j \in Nat /\ j >= 1 /\ j <= Len(stack)
  <2>1. stack \in Seq(Frame) BY DEF Typed
  <2> QED BY <2>1, <1>1
<1>3. /\ p \in Seq(Nat) /\ n \in DOMAIN directories /\ dir(n) \in Seq(Nat)
      /\ IsStrictPrefix(dir(n), p) /\ Len(dir(n)) \in Nat
  <2>1. n \in DOMAIN directories BY <1>2 DEF Places, ChainOf
  <2> QED BY <2>1, TreeTyped, DirTyped DEF Reached
<1>4. \A h \in DOMAIN stack : /\ Len(stack[h].dn) = Len(dir(n)) + h - 1
                              /\ stack[h] \in Frame /\ FrameOK(stack[h]) /\ EntriesOf(stack[h])
                              /\ stack[h].dn \in Seq(Nat)
  <2> TAKE h \in DOMAIN stack
  <2>1. stack[h] \in Frame /\ FrameOK(stack[h]) BY DEF Typed
  <2> QED BY <2>1 DEF Places, ChainOf, Frame
<1>5. PICK f : f = stack[j] OBVIOUS
<1>6. /\ f \in Frame /\ FrameOK(f) /\ EntriesOf(f) /\ f.dn \in Seq(Nat)
      /\ f.i \in Nat /\ Len(f.entries) \in Nat /\ DOMAIN f.entries = 1 .. Len(f.entries)
      /\ IsStrictPrefix(f.dn, q) /\ q[Len(f.dn) + 1] \in Remaining(f)
  BY <1>1, <1>4, <1>5 DEF Frame
<1> DEFINE H == {h \in 1 .. j : IsStrictPrefix(stack[h].dn, p)}
<1>7. PICK h \in H : \A k \in H : k <= h
  <2>1. H \subseteq Nat OBVIOUS
  <2>2. 1 \in H
    <3>1. stack[1].dn = dir(n) BY <1>2 DEF Places, ChainOf
    <3> QED BY <3>1, <1>2, <1>3
  <2>3. IsFiniteSet(H)
    <3>1. IsFiniteSet(1 .. j) BY <1>2, FS_Interval
    <3> QED BY <3>1, FS_Subset
  <2> HIDE DEF H
  <2>4. Max(H) \in H /\ \A k \in H : k <= Max(H) BY <2>1, <2>2, <2>3, MaxLemma
  <2> QED BY <2>4
<1>8. PICK g : g = stack[h] OBVIOUS
<1>9. h \in DOMAIN stack /\ h \in Nat /\ h >= 1 /\ h <= j BY <1>2, <1>7
<1>10. /\ g \in Frame /\ FrameOK(g) /\ EntriesOf(g) /\ g.dn \in Seq(Nat)
       /\ g.i \in Nat /\ Len(g.entries) \in Nat /\ DOMAIN g.entries = 1 .. Len(g.entries)
       /\ Len(g.dn) = Len(dir(n)) + h - 1 /\ IsStrictPrefix(g.dn, p)
  BY <1>4, <1>7, <1>8, <1>9 DEF Frame
<1>11. p[Len(g.dn) + 1] \in Children(g.dn) /\ p[Len(g.dn) + 1] \notin Remaining(g)
  <2>1. Len(g.dn) >= Len(dir(n)) BY <1>3, <1>9, <1>10
  <2>2. p[Len(g.dn) + 1] \in Children(g.dn) BY <1>3, <1>10, <2>1, BelowFrame
  <2> QED BY <2>2, <1>8, <1>9, <1>10 DEF PendingIn
<1>12. g.i > 0
  <2>1. g.i # 0 BY <1>11 DEF Remaining
  <2> QED BY <2>1, <1>10
<1>13. PICK x \in DOMAIN g.entries : p[Len(g.dn) + 1] = g.entries[x] /\ x < g.i
  <2>1. g.unread = {} BY <1>10, <1>12 DEF FrameOK
  <2>2. p[Len(g.dn) + 1] \in Range(g.entries) BY <1>10, <1>11, <2>1 DEF EntriesOf
  <2>3. PICK x \in DOMAIN g.entries : p[Len(g.dn) + 1] = g.entries[x] BY <2>2 DEF Range
  <2>4. x \notin g.i .. Len(g.entries) BY <1>11, <1>12, <2>3 DEF Remaining
  <2>5. x < g.i BY <2>4, <1>10
  <2> QED BY <2>3, <2>5
<1>14. CASE h = j
  <2>1. f = g BY <1>14, <1>5, <1>8
  <2>2. PICK y \in g.i .. Len(g.entries) : q[Len(g.dn) + 1] = g.entries[y]
    <3>1. g.i # 0 BY <1>10, <1>12
    <3>2. Remaining(g) = {g.entries[z] : z \in g.i .. Len(g.entries)} BY <3>1 DEF Remaining
    <3> QED BY <1>6, <2>1, <3>2
  <2>3. y \in DOMAIN g.entries /\ x < y
    <3>1. x \in Nat /\ y \in Nat BY <1>10
    <3> QED BY <3>1, <1>10, <1>12, <1>13
  <2> QED BY ONLY <1>3, <1>6, <1>10, <1>12, <1>13, <2>1, <2>2, <2>3, FrameOrder, q \in Seq(Nat)
<1>15. CASE h # j
  <2>1. h \in 1 .. (j - 1) BY <1>9, <1>15, <1>2
  <2>2. Through(g, f.dn) /\ Len(f.dn) = Len(dir(n)) + j - 1
    BY <1>1, <1>4, <1>5, <1>8, <2>1 DEF Places, ChainOf
  <2>3. Len(g.dn) \in Nat /\ Len(f.dn) \in Nat /\ Len(q) \in Nat /\ Len(p) \in Nat
        /\ Len(g.dn) < Len(f.dn)
    <3>1. Len(g.dn) \in Nat /\ Len(f.dn) \in Nat /\ Len(q) \in Nat /\ Len(p) \in Nat
      BY ONLY <1>3, <1>6, <1>10, q \in Seq(Nat), LenProperties
    <3>2. PICK a : a = Len(g.dn) OBVIOUS
    <3>3. PICK b : b = Len(f.dn) OBVIOUS
    <3>4. a = Len(dir(n)) + (h - 1) /\ b = Len(dir(n)) + (j - 1) BY <2>2, <1>10, <3>2, <3>3
    <3>5. h < j BY <1>2, <1>9, <1>15
    <3>6. a < b BY ONLY <3>4, <3>5, <1>2, <1>3, <1>9
    <3> QED BY <3>1, <3>2, <3>3, <3>6
  <2>4. Len(f.dn) < Len(q) /\ \A z \in 1 .. Len(f.dn) : f.dn[z] = q[z]
    BY <1>6, PrefixIs
  <2>5. IsStrictPrefix(g.dn, q)
    <3>1. \A z \in 1 .. Len(g.dn) : g.dn[z] = q[z]
      BY <2>2, <2>3, <2>4 DEF Through
    <3>2. Len(g.dn) < Len(q) BY <2>3, <2>4
    <3> QED BY <3>1, <3>2, <1>10, PrefixIs
  <2>6. PICK y : y = g.i - 1 OBVIOUS
  <2>7. g.i > 1 /\ y \in DOMAIN g.entries /\ q[Len(g.dn) + 1] = g.entries[y]
    <3>1. g.i > 1 /\ f.dn[Len(g.dn) + 1] = g.entries[y] BY <2>2, <2>6 DEF Through
    <3>2. g.i <= Len(g.entries) + 1 BY <1>10 DEF FrameOK
    <3>3. Len(g.dn) + 1 \in 1 .. Len(f.dn) BY <2>3
    <3>4. y \in DOMAIN g.entries BY <3>1, <3>2, <2>6, <1>10
    <3>5. q[Len(g.dn) + 1] = f.dn[Len(g.dn) + 1] BY <3>3, <2>4
    <3> QED BY <3>1, <3>4, <3>5
  <2>8. CASE x < y
    BY ONLY <1>3, <1>10, <1>12, <1>13, <2>5, <2>7, <2>8, FrameOrder, q \in Seq(Nat)
  <2>9. CASE ~(x < y)
    <3>1. x = y
      <4>1. x \in Nat /\ y \in Nat /\ g.i = y + 1
        <5>1. g.i \in Nat /\ g.entries \in Seq(Nat) BY <1>10 DEF Frame
        <5>2. y \in Nat /\ g.i = y + 1
          <6>1. g.i > 1 BY <2>7
          <6>2. g.i \in Nat BY <5>1
          <6> QED BY ONLY <2>6, <6>1, <6>2
        <5>3. x \in Nat BY <5>1, <1>13
        <5> QED BY <5>2, <5>3
      <4> QED BY <4>1, <2>9, <1>13
    <3>2. PICK k : k = h + 1 OBVIOUS
    <3>3. k \in DOMAIN stack /\ k \in Nat /\ k <= j /\ k # h /\ k > h /\ k >= 1
      BY <3>2, <1>2, <1>9, <2>1
    <3>4. PICK d : d = stack[k].dn OBVIOUS
    <3>5. d \in Seq(Nat) /\ Len(d) = Len(g.dn) + 1
      <4>1. d \in Seq(Nat) /\ Len(d) = Len(dir(n)) + k - 1 BY <1>4, <3>3, <3>4
      <4>2. Len(d) = Len(dir(n)) + (k - 1) /\ Len(g.dn) = Len(dir(n)) + (h - 1)
        BY <4>1, <1>10
      <4> QED BY <4>1, <4>2, <3>2, <3>3, <1>3, <1>9
    <3>6. Through(g, d)
      <4>1. h \in 1 .. (k - 1) BY <3>2, <1>9
      <4> QED BY <4>1, <3>3, <3>4, <1>8 DEF Places, ChainOf
    <3>7. Len(g.dn) < Len(p) /\ \A z \in 1 .. Len(g.dn) : g.dn[z] = p[z]
      BY <1>3, <1>10, PrefixIs
    <3>8. \A z \in 1 .. Len(d) : d[z] = p[z]
      <4> TAKE z \in 1 .. Len(d)
      <4>1. CASE z = Len(g.dn) + 1 BY <4>1, <3>1, <3>6, <2>6, <1>13 DEF Through
      <4>2. CASE z # Len(g.dn) + 1
        <5>1. z \in 1 .. Len(g.dn) BY <4>2, <3>5, <2>3
        <5> QED BY <5>1, <3>6, <3>7 DEF Through
      <4> QED BY <4>1, <4>2
    <3>9. ~IsStrictPrefix(d, p)
      <4>1. k \notin H
        <5>1. ~(k <= h) BY <3>3, <1>9
        <5> HIDE DEF H
        <5> QED BY <5>1, <1>7
      <4>2. k \in 1 .. j BY <3>3, <1>2
      <4> QED BY <4>1, <4>2, <3>4
    <3>10. p = d
      <4>1. ~(Len(d) < Len(p)) BY <3>5, <3>8, <3>9, <1>3, PrefixIs
      <4>2. Len(d) = Len(p) BY <4>1, <3>5, <3>7, <2>3
      <4> QED BY <4>2, <3>5, <3>8, <1>3, PathEqual
    <3>11. IsStrictPrefix(d, q)
      <4>1. CASE k = j BY <4>1, <1>5, <1>6, <3>4
      <4>2. CASE k # j
        <5>1. k \in 1 .. (j - 1) BY <4>2, <3>3, <1>2
        <5>2. Through(stack[k], f.dn) BY <5>1, <1>1, <1>5 DEF Places, ChainOf
        <5>3. \A z \in 1 .. Len(d) : f.dn[z] = d[z] BY <5>2, <3>4 DEF Through
        <5>4. Len(d) < Len(f.dn)
          <6>1. Len(d) = Len(dir(n)) + (k - 1) /\ Len(f.dn) = Len(dir(n)) + (j - 1)
            BY <1>4, <3>3, <3>4, <2>2
          <6> QED BY <6>1, <5>1, <1>2, <1>3, <3>3
        <5>5. Len(d) \in Nat BY <3>5
        <5>6. \A z \in 1 .. Len(d) : d[z] = q[z] BY <5>3, <5>4, <5>5, <2>3, <2>4
        <5>7. Len(d) < Len(q) BY <5>4, <5>5, <2>3, <2>4
        <5> QED BY <5>6, <5>7, <3>5, PrefixIs
      <4> QED BY <4>1, <4>2
    <3> QED BY <3>10, <3>11 DEF PathBefore
  <2> QED BY <2>8, <2>9
<1> QED BY <1>14, <1>15
-----------------------------------------------------------------------------
(* The lines.                                                              *)

\* Path p has a line of this kind in the listing of argument k.
PrintedAs(k, p, kind) ==
  \/ p = dir(k) /\ kind = "name"
  \/ p = dir(k) /\ kind = "error" /\ ~Opens(p, 0)
  \/ /\ p \in DOMAIN fs /\ Shown(k, p)
     /\ kind = IF HasMetadata(p) \/ "v" \notin flags THEN "entry" ELSE "denied"
  \/ /\ p \in DOMAIN fs /\ Shown(k, p) /\ HasMetadata(p) /\ IsDir(p)
     /\ kind = "error" /\ ~Opens(p, Len(p) - Len(dir(k)))

LEMMA LinesAre ==
  ASSUME Typed, NEW k \in DOMAIN directories, NEW l
  PROVE  l \in Lines(k) <=> \E p, kind : /\ l = [arg |-> k, path |-> p, kind |-> kind]
                                         /\ PrintedAs(k, p, kind)
<1>1. dir(k) \in Seq(Nat) /\ Len(dir(k)) - Len(dir(k)) = 0
  <2>1. dir(k) \in Seq(Nat) /\ Len(dir(k)) \in Nat BY DirTyped
  <2> QED BY <2>1
<1> DEFINE shown == {p \in DOMAIN fs : Shown(k, p)}
           opened == {dir(k)} \cup {p \in shown : HasMetadata(p) /\ IsDir(p)}
           line(p, kind) == [arg |-> k, path |-> p, kind |-> kind]
           kindOf(p) == IF HasMetadata(p) \/ "v" \notin flags THEN "entry" ELSE "denied"
           failed == {p \in opened : ~Opens(p, Len(p) - Len(dir(k)))}
<1>2. Lines(k) = ({line(dir(k), "name")} \cup {line(p, kindOf(p)) : p \in shown})
                 \cup {line(p, "error") : p \in failed}
  BY DEF Lines
<1>3. l \in Lines(k) <=> \/ l = line(dir(k), "name")
                         \/ \E p \in shown : l = line(p, kindOf(p))
                         \/ \E p \in failed : l = line(p, "error")
  BY <1>2
<1>4. (\E p \in failed : l = line(p, "error")) <=>
        \/ l = line(dir(k), "error") /\ ~Opens(dir(k), 0)
        \/ \E p \in shown : /\ l = line(p, "error") /\ HasMetadata(p) /\ IsDir(p)
                            /\ ~Opens(p, Len(p) - Len(dir(k)))
  BY <1>1
<1>5. (\E p, kind : l = line(p, kind) /\ PrintedAs(k, p, kind)) <=>
        \/ l = line(dir(k), "name")
        \/ l = line(dir(k), "error") /\ ~Opens(dir(k), 0)
        \/ \E p \in shown : l = line(p, kindOf(p))
        \/ \E p \in shown : /\ l = line(p, "error") /\ HasMetadata(p) /\ IsDir(p)
                            /\ ~Opens(p, Len(p) - Len(dir(k)))
  BY DEF PrintedAs
<1> HIDE DEF shown, failed
<1> QED BY <1>3, <1>4, <1>5

LEMMA ShownIs ==
  ASSUME NEW k, NEW p, Shown(k, p)
  PROVE  Reached(k, p) /\ IsStrictPrefix(dir(k), p) /\ p # dir(k)
BY DEF Shown, Reached, IsStrictPrefix

\* The lines of the arguments before argument m, and those of the current one
\* that are not pending.
Listed(m) == UNION {Lines(k) : k \in 1 .. (m - 1)}
Done(s) == {l \in Lines(n) : ~PendingIn(s, l.path)}
Ordered(o) == \A i, j \in DOMAIN o : i < j => Precedes(o[i], o[j])

Output ==
  /\ status = "start" => n = 1
  /\ status # "start" => n <= Len(directories) + 1
  /\ status \in {"start", "main", "exited"} => Range(out) = Listed(n)
  /\ status = "walk" => n <= Len(directories) /\ Range(out) = Listed(n) \cup Done(stack)
  /\ status = "exited" => n > Len(directories)
  /\ \/ stack = <<>> /\ Range(out) = Listed(n)
     \/ n <= Len(directories) /\ Range(out) = Listed(n) \cup Done(stack)
  /\ Ordered(out)
  /\ status = "undefined" => \E k \in DOMAIN directories, p \in DOMAIN fs :
       Reached(k, p) /\ 2 * (Len(p) - Len(dir(k))) > WIDTH - 3

\* Only processDir has activations.
Idle == status \in {"start", "main", "exited"} => stack = <<>>

Walked == Typed /\ Idle /\ Places(stack) /\ (Fits => Output)

LEMMA ListedIs ==
  ASSUME Typed, NEW m \in Nat, m <= Len(directories) + 1
  PROVE  /\ \A l \in Listed(m) : \E k \in DOMAIN directories :
              k < m /\ l \in Lines(k) /\ l.arg = k
         /\ \A k \in DOMAIN directories : k < m => Lines(k) \subseteq Listed(m)
         /\ m \in DOMAIN directories => Listed(m + 1) = Listed(m) \cup Lines(m)
<1>1. directories \in Seq(Seq(Nat)) /\ DOMAIN directories = 1 .. Len(directories)
      /\ Len(directories) \in Nat
  BY DEF Typed
<1>2. \A k \in 1 .. (m - 1) : k \in DOMAIN directories /\ k < m BY <1>1
<1>3. \A k \in DOMAIN directories : k < m => k \in 1 .. (m - 1) BY <1>1
<1>4. ASSUME NEW k \in DOMAIN directories, NEW l \in Lines(k) PROVE l.arg = k
  BY <1>4, LinesAre
<1>5. \A l \in Listed(m) : \E k \in DOMAIN directories : k < m /\ l \in Lines(k) /\ l.arg = k
  BY <1>2, <1>4 DEF Listed
<1>6. m \in DOMAIN directories => Listed(m + 1) = Listed(m) \cup Lines(m)
  <2>1. m \in DOMAIN directories => 1 .. (m + 1 - 1) = 1 .. (m - 1) \cup {m}
    BY <1>1
  <2> QED BY <2>1 DEF Listed
<1> QED BY <1>3, <1>5, <1>6 DEF Listed

\* A line of the current argument is about the directory or a path reached.
LEMMA LinePath ==
  ASSUME Typed, NEW k \in DOMAIN directories, NEW l \in Lines(k)
  PROVE  /\ l.arg = k
         /\ l.path = dir(k) \/ (l.path \in DOMAIN fs /\ Reached(k, l.path))
<1>1. PICK p, kind : l = [arg |-> k, path |-> p, kind |-> kind] /\ PrintedAs(k, p, kind)
  BY LinesAre
<1> QED BY <1>1, ShownIs DEF PrintedAs

\* The directory of the argument is never pending.
LEMMA RootPrinted ==
  ASSUME Typed, NEW s \in Seq(Frame), ChainOf(s), n \in DOMAIN directories
  PROVE  ~PendingIn(s, dir(n))
<1> SUFFICES ASSUME NEW j \in DOMAIN s, IsStrictPrefix(s[j].dn, dir(n)) PROVE FALSE
  BY DEF PendingIn
<1>1. Len(s[j].dn) = Len(dir(n)) + (j - 1) /\ j \in Nat /\ j >= 1
  <2>1. Len(s[j].dn) = Len(dir(n)) + j - 1 BY DEF ChainOf
  <2>2. j \in 1 .. Len(s) OBVIOUS
  <2>3. Len(dir(n)) \in Nat BY DirTyped
  <2> QED BY <2>1, <2>2, <2>3
<1>2. s[j].dn \in Seq(Nat) /\ dir(n) \in Seq(Nat) /\ Len(dir(n)) \in Nat
  <2>1. s[j] \in Frame OBVIOUS
  <2>2. s[j].dn \in Seq(Nat) BY <2>1 DEF Frame
  <2> QED BY <2>2, DirTyped
<1>3. Len(s[j].dn) < Len(dir(n)) BY <1>2, PrefixIs
<1> QED BY <1>1, <1>2, <1>3

LEMMA PrecedesIs ==
  ASSUME NEW l, NEW m, l.path \in Seq(Nat), m.path \in Seq(Nat)
  PROVE  Precedes(l, m) <=> \/ l.arg < m.arg
                            \/ /\ l.arg = m.arg
                               /\ \/ l.path = m.path /\ l.kind # "error" /\ m.kind = "error"
                                  \/ PathBefore(l.path, m.path)
<1>1. PICK p : p = l.path OBVIOUS
<1>2. PICK q : q = m.path OBVIOUS
<1>3. ASSUME NEW j \in DOMAIN p \cap DOMAIN q
      PROVE  First(SubSeq(p, 1, j), SubSeq(q, 1, j)) <=>
               IF IsDir(SubSeq(p, 1, j)) # IsDir(SubSeq(q, 1, j))
               THEN IsDir(SubSeq(p, 1, j)) ELSE SubSeq(p, 1, j)[j] < SubSeq(q, 1, j)[j]
  <2>1. p \in Seq(Nat) /\ q \in Seq(Nat) BY <1>1, <1>2
  <2>2. j \in 0 .. Len(p) /\ j \in 0 .. Len(q) BY <2>1
  <2>3. Len(SubSeq(p, 1, j)) = j /\ Len(SubSeq(q, 1, j)) = j BY <2>1, <2>2
  <2>4. Last(SubSeq(p, 1, j)) = SubSeq(p, 1, j)[j] /\ Last(SubSeq(q, 1, j)) = SubSeq(q, 1, j)[j]
    BY <2>3 DEF Last
  <2> QED BY <2>4 DEF First
<1>4. PathBefore(p, q) <=>
        \/ IsStrictPrefix(p, q)
        \/ \E j \in DOMAIN p \cap DOMAIN q :
             /\ SubSeq(p, 1, j - 1) = SubSeq(q, 1, j - 1)
             /\ p[j] # q[j]
             /\ IF IsDir(SubSeq(p, 1, j)) # IsDir(SubSeq(q, 1, j))
                THEN IsDir(SubSeq(p, 1, j)) ELSE SubSeq(p, 1, j)[j] < SubSeq(q, 1, j)[j]
  BY <1>3 DEF PathBefore
<1> QED BY <1>1, <1>2, <1>4 DEF Precedes
\* A printed line comes before any line about the current entry.
LEMMA PrintedFirst ==
  ASSUME Typed, Places(stack), Fits, AtEntry, n <= Len(directories),
         NEW l \in Listed(n) \cup Done(stack), NEW kind
  PROVE  Precedes(l, Line(entry, kind)) /\ l.path \in Seq(Nat)
<1>1. PICK e : e = entry OBVIOUS
<1>2. n \in DOMAIN directories /\ e \in Seq(Nat) /\ Reached(n, e) /\ PendingIn(stack, e)
      /\ dir(n) \in Seq(Nat)
  BY <1>1, EntryReached, EntryLemma, EntryIsPending, DirTyped
<1>3. PICK m : m = Line(e, kind) OBVIOUS
<1>4. m.arg = n /\ m.path = e /\ m.kind = kind BY <1>3 DEF Line
<1>5. n \in Nat /\ n <= Len(directories) + 1 /\ DOMAIN directories \subseteq Nat
  BY DEF Typed
<1>6. CASE l \in Listed(n)
  <2>1. PICK k \in DOMAIN directories : k < n /\ l \in Lines(k) /\ l.arg = k
    BY <1>5, <1>6, ListedIs
  <2>2. l.path \in Seq(Nat) BY <2>1, LinePath, TreeTyped, DirTyped
  <2>3. l.arg < m.arg BY <2>1, <1>4
  <2>4. Precedes(l, m) BY <2>2, <2>3, <1>2, <1>4, PrecedesIs
  <2> QED BY <2>2, <2>4, <1>1, <1>3
<1>7. CASE l \in Done(stack)
  <2>1. l \in Lines(n) /\ ~PendingIn(stack, l.path) BY <1>7 DEF Done
  <2>2. l.arg = n /\ (l.path = dir(n) \/ (l.path \in DOMAIN fs /\ Reached(n, l.path)))
    BY <2>1, <1>2, LinePath
  <2>3. l.path \in Seq(Nat) BY <2>2, TreeTyped, <1>2
  <2>4. PathBefore(l.path, e)
    <3>1. CASE l.path = dir(n)
      BY <3>1, <1>2 DEF Reached, PathBefore
    <3>2. CASE l.path # dir(n)
      <4>1. PICK p \in DOMAIN fs : p = l.path BY <2>2, <3>2
      <4>2. Reached(n, p) /\ ~PendingIn(stack, p) BY <2>1, <2>2, <3>2, <4>1
      <4>3. PathBefore(p, e) BY <4>2, <1>2, DoneFirst
      <4> QED BY <4>1, <4>3
    <3> QED BY <3>1, <3>2
  <2>5. Precedes(l, m) BY <2>2, <2>3, <2>4, <1>2, <1>4, PrecedesIs
  <2> QED BY <2>3, <2>5, <1>1, <1>3
<1> QED BY <1>6, <1>7

LEMMA AppendOrdered ==
  ASSUME NEW o \in Seq(LineType), Ordered(o), NEW m \in LineType,
         \A l \in Range(o) : Precedes(l, m), NEW r, r = Append(o, m)
  PROVE  Ordered(r) /\ Range(r) = Range(o) \cup {m} /\ r \in Seq(LineType)
<1>1. /\ r \in Seq(LineType) /\ Len(r) = Len(o) + 1 /\ r[Len(o) + 1] = m
      /\ DOMAIN r = 1 .. (Len(o) + 1) /\ DOMAIN o = 1 .. Len(o) /\ Len(o) \in Nat
      /\ \A j \in DOMAIN o : r[j] = o[j]
  OBVIOUS
<1>2. \A j \in DOMAIN r : j \in DOMAIN o \/ j = Len(o) + 1 BY <1>1
<1>3. Range(r) = Range(o) \cup {m}
  <2>1. Len(o) + 1 \in DOMAIN r /\ \A j \in DOMAIN o : j \in DOMAIN r BY <1>1
  <2> QED BY <1>1, <1>2, <2>1 DEF Range
<1>4. Ordered(r)
  <2> SUFFICES ASSUME NEW i \in DOMAIN r, NEW j \in DOMAIN r, i < j PROVE Precedes(r[i], r[j])
    BY DEF Ordered
  <2>1. i \in DOMAIN o BY <1>1
  <2>2. CASE j \in DOMAIN o BY <2>1, <2>2, <1>1 DEF Ordered
  <2>3. CASE j = Len(o) + 1
    <3>1. r[i] \in Range(o) BY <2>1, <1>1 DEF Range
    <3> QED BY <3>1, <2>3, <1>1
  <2> QED BY <1>2, <2>2, <2>3
<1> QED BY <1>1, <1>3, <1>4

\* How primed lines relate to the current ones.
LEMMA LinesPrime ==
  ASSUME fs' = fs, flags' = flags, directories' = directories
  PROVE  /\ \A k : Lines(k)' = Lines(k)
         /\ \A k, p : Reached(k, p)' = Reached(k, p)
         /\ \A k : dir(k)' = dir(k)
         /\ \A l, m : Precedes(l, m)' = Precedes(l, m)
         /\ Fits' = Fits
<1>1. \A k : dir(k)' = dir(k) BY DEF dir
<1>2. \A k, p : Reached(k, p)' = Reached(k, p)
  BY DEF Reached, Above, dir, Opens, HasMetadata
<1>3. \A k : Lines(k)' = Lines(k)
  BY DEF Lines, Shown, Reached, Above, dir, Opens, HasMetadata, IsDir
<1>4. \A l, m : Precedes(l, m)' = Precedes(l, m)
  BY DEF Precedes, IsDir
<1>5. Fits' = Fits BY DEF Fits, Children
<1> QED BY <1>1, <1>2, <1>3, <1>4, <1>5

LEMMA OrderedPrime ==
  ASSUME fs' = fs, NEW o, o = out'
  PROVE  Ordered(out)' <=> Ordered(o)
BY DEF Ordered, Precedes, IsDir

LEMMA SameOutput ==
  ASSUME UNCHANGED <<fs, flags, directories, n>>,
         NEW t, t = stack', NEW o, o = out'
  PROVE  /\ Listed(n)' = Listed(n) /\ Done(stack)' = Done(t)
         /\ Ordered(out)' <=> Ordered(o)
         /\ Range(out)' = Range(o)
<1>1. Listed(n)' = UNION {Lines(k)' : k \in 1 .. (n - 1)} BY DEF Listed
<1>2. Listed(n)' = Listed(n) BY <1>1, LinesPrime DEF Listed
<1>3. \A p : PendingIn(stack, p)' <=> PendingIn(t, p)
  BY DEF PendingIn, Remaining, Children
<1>4. Done(stack)' = {l \in Lines(n)' : ~PendingIn(stack, l.path)'}
  <2>1. Done(stack) = {l \in Lines(n) : ~PendingIn(stack, l.path)} BY DEF Done
  <2> QED BY DEF Done
<1>5. Lines(n)' = Lines(n)
  <2>1. PICK m : m = n OBVIOUS
  <2>2. Lines(m)' = Lines(m) BY LinesPrime
  <2>3. m = n' BY <2>1
  <2> QED BY <2>1, <2>2, <2>3 DEF Lines, Shown, Reached, Above, dir, Opens, HasMetadata, IsDir
<1>6. Done(stack)' = Done(t) BY <1>3, <1>4, <1>5 DEF Done
<1>7. Ordered(out)' <=> Ordered(o) BY OrderedPrime
<1>8. Range(out)' = Range(o) BY DEF Range
<1> QED BY <1>2, <1>6, <1>7, <1>8

LEMMA WalkOutput ==
  ASSUME Output, status = "walk", UNCHANGED <<fs, flags, directories, n, status>>,
         NEW t, t = stack', NEW o, o = out',
         Range(o) = Listed(n) \cup Done(t), Ordered(o)
  PROVE  Output'
<1>1. Range(out)' = Listed(n)' \cup Done(stack)' /\ Ordered(out)'
  BY SameOutput
<1>2. n <= Len(directories) BY DEF Output
<1>3. n' = n /\ directories' = directories /\ status' = "walk" OBVIOUS
<1>4. n' <= Len(directories') /\ n' <= Len(directories') + 1 BY <1>2, <1>3 DEF Output
<1> QED BY <1>1, <1>3, <1>4 DEF Output

\* A step of an activation in its own directory leaves what is pending alone.
LEMMA SetTopPending ==
  ASSUME Typed, stack # <<>>, NEW f \in Frame, f.dn = top.dn, Remaining(f) = Remaining(top),
         NEW t, t = SetTop(f), NEW p
  PROVE  PendingIn(t, p) <=> PendingIn(stack, p)
<1>1. /\ DOMAIN t = DOMAIN stack /\ t[Len(stack)] = f
      /\ \A j \in 1 .. (Len(stack) - 1) : t[j] = stack[j]
  BY SetTopLemma
<1>2. /\ stack \in Seq(Frame) /\ Len(stack) \in Nat \ {0}
      /\ DOMAIN stack = 1 .. Len(stack) /\ top = stack[Len(stack)]
  BY TopLemma DEF Typed
<1>3. \A j \in DOMAIN stack : t[j].dn = stack[j].dn /\ Remaining(t[j]) = Remaining(stack[j])
  <2> TAKE j \in DOMAIN stack
  <2>1. j = Len(stack) \/ j \in 1 .. (Len(stack) - 1) BY <1>2
  <2> QED BY <2>1, <1>1, <1>2
<1> QED BY <1>1, <1>3 DEF PendingIn

LEMMA SamePending ==
  ASSUME NEW s, NEW t, \A p : PendingIn(t, p) <=> PendingIn(s, p)
  PROVE  Done(t) = Done(s)
BY DEF Done

LEMMA ReadEntryPending ==
  ASSUME Typed, ReadEntry, NEW t, t = stack'
  PROVE  \A p : PendingIn(t, p) <=> PendingIn(stack, p)
<1>1. stack # <<>> /\ top \in Frame /\ FrameOK(top) /\ top.i = 0
  BY TopLemma DEF ReadEntry
<1>2. PICK name \in top.unread :
        stack' = SetTop([top EXCEPT !.unread = @ \ {name}, !.capacity = Grow(top),
                                    !.entries = Append(@, name)])
  BY DEF ReadEntry
<1>3. PICK f : f = [top EXCEPT !.unread = @ \ {name}, !.capacity = Grow(top),
                              !.entries = Append(@, name)]
  OBVIOUS
<1>4. f.dn = top.dn /\ f.i = 0
  BY <1>1, <1>3 DEF Frame
<1>5. f \in Frame
  <2>1. name \in Nat /\ top.entries \in Seq(Nat) /\ Grow(top) \in Nat
    BY <1>1, GrowLemma DEF Frame
  <2>2. Append(top.entries, name) \in Seq(Nat) BY <2>1
  <2> QED BY <1>1, <1>3, <2>1, <2>2 DEF Frame
<1>6. Remaining(f) = Remaining(top) BY <1>1, <1>4 DEF Remaining
<1>7. t = SetTop(f) BY <1>2, <1>3
<1> QED BY <1>1, <1>4, <1>5, <1>6, <1>7, SetTopPending

LEMMA ReadEntryOutput == Walked /\ Fits /\ ReadEntry => Output'
<1> SUFFICES ASSUME Walked, Fits, ReadEntry PROVE Output'
  OBVIOUS
<1>1. UNCHANGED <<fs, flags, directories, n, status>> /\ status = "walk" /\ out' = out
  BY DEF ReadEntry, mainVars
<1>2. Output BY DEF Walked
<1>3. PICK t : t = stack' OBVIOUS
<1>4. \A p : PendingIn(t, p) <=> PendingIn(stack, p)
  BY <1>3, ReadEntryPending DEF Walked
<1>5. Done(t) = Done(stack) BY <1>4, SamePending
<1>6. Range(out) = Listed(n) \cup Done(t) /\ Ordered(out)
  BY <1>1, <1>2, <1>5 DEF Output
<1>7. PICK o : o = out' OBVIOUS
<1>8. o = out BY <1>1, <1>7
<1> QED BY <1>1, <1>2, <1>3, <1>6, <1>7, <1>8, WalkOutput

LEMMA SortPending ==
  ASSUME Typed, Places(stack), Fits, Sort, NEW t, t = stack'
  PROVE  \A p : PendingIn(t, p) <=> PendingIn(stack, p)
<1>1. fs' = fs BY DEF Sort, mainVars
<1>2. Typed' /\ Places(stack)' BY SortTyped, SortPlaces
<1>3. stack # <<>> /\ top \in Frame /\ top.i = 0 /\ top = stack[Len(stack)]
      /\ Len(stack) \in DOMAIN stack /\ top.unread = {}
  BY TopLemma DEF Sort
<1>4. PICK names : names = Contents(top.entries) OBVIOUS
<1>5. PICK at \in Bijection(DOMAIN names, DOMAIN names) :
        stack' = SetTop([top EXCEPT !.i = 1,
                                    !.entries = [k \in DOMAIN names |-> names[at[k]]]])
  BY <1>4 DEF Sort
<1>6. PICK f : f = [top EXCEPT !.i = 1, !.entries = [k \in DOMAIN names |-> names[at[k]]]]
  OBVIOUS
<1>7. t = SetTop(f) BY <1>5, <1>6
<1>8. f.dn = top.dn /\ f.i = 1 BY <1>3, <1>6 DEF Frame
<1>9. t[Len(stack)] = f /\ DOMAIN t = DOMAIN stack
  BY <1>3, <1>7 DEF SetTop, Typed
<1>10. f \in Frame
  <2>1. t \in Seq(Frame) BY <1>2 DEF Typed, Frame
  <2> QED BY <2>1, <1>3, <1>9
<1>11. EntriesOf(f)
  <2>1. \A j \in DOMAIN t : EntriesOf(t[j])
    <3>1. Fits' BY <1>1 DEF Fits, Children
    <3>2. (\A j \in DOMAIN stack : EntriesOf(stack[j]))' BY <1>2, <3>1 DEF Places
    <3> QED BY <1>1, <3>2 DEF EntriesOf, First, IsDir, Children
  <2> QED BY <2>1, <1>3, <1>9
<1>12. Remaining(f) = Remaining(top)
  <2>1. Range(f.entries) = Children(f.dn)
    <3>1. f.unread = {} BY <1>3, <1>6 DEF Frame
    <3> QED BY <3>1, <1>11 DEF EntriesOf
  <2>2. f.i .. Len(f.entries) = DOMAIN f.entries
    <3>1. f.entries \in Seq(Nat) BY <1>10 DEF Frame
    <3> QED BY <3>1, <1>8
  <2>3. Remaining(f) = {f.entries[x] : x \in DOMAIN f.entries} BY <2>2, <1>8 DEF Remaining
  <2>4. Remaining(f) = Children(f.dn) BY <2>1, <2>3 DEF Range
  <2> QED BY <2>4, <1>3, <1>8 DEF Remaining
<1> QED BY <1>3, <1>7, <1>8, <1>10, <1>12, SetTopPending

LEMMA SortOutput == Walked /\ Fits /\ Sort => Output'
<1> SUFFICES ASSUME Walked, Fits, Sort PROVE Output'
  OBVIOUS
<1>1. UNCHANGED <<fs, flags, directories, n, status>> /\ status = "walk" /\ out' = out
  BY DEF Sort, mainVars
<1>2. Output BY DEF Walked
<1>3. PICK t : t = stack' OBVIOUS
<1>4. \A p : PendingIn(t, p) <=> PendingIn(stack, p)
  BY <1>3, SortPending DEF Walked
<1>5. Done(t) = Done(stack) BY <1>4, SamePending
<1>6. Range(out) = Listed(n) \cup Done(t) /\ Ordered(out)
  BY <1>1, <1>2, <1>5 DEF Output
<1>7. PICK o : o = out' OBVIOUS
<1>8. o = out BY <1>1, <1>7
<1> QED BY <1>1, <1>2, <1>3, <1>6, <1>7, <1>8, WalkOutput

LEMMA ReturnPending ==
  ASSUME Typed, Return, NEW t, t = stack'
  PROVE  \A p : PendingIn(t, p) <=> PendingIn(stack, p)
<1>1. stack # <<>> BY DEF Return
<1>2. t = Front(stack) BY DEF Return
<1>3. /\ \A j \in DOMAIN t : j \in DOMAIN stack /\ t[j] = stack[j]
      /\ \A j \in DOMAIN stack : j \in DOMAIN t \/ j = Len(stack)
  <2>1. stack \in Seq(Frame) /\ Len(stack) \in Nat \ {0} BY <1>1, TopLemma DEF Typed
  <2>2. \A j \in DOMAIN t : j \in 1 .. (Len(stack) - 1)
    BY <1>1, <1>2, FrontLemma
  <2>3. \A j \in 1 .. (Len(stack) - 1) : j \in DOMAIN t /\ j \in DOMAIN stack /\ t[j] = stack[j]
    BY <1>1, <1>2, FrontLemma
  <2>4. \A j \in DOMAIN stack : j \in 1 .. (Len(stack) - 1) \/ j = Len(stack) BY <2>1
  <2> QED BY <2>2, <2>3, <2>4
<1>4. Remaining(top) = {}
  <2>1. top \in Frame /\ top.i > Len(top.entries) BY <1>1, TopLemma DEF Return
  <2>2. top.i # 0 /\ top.i .. Len(top.entries) = {} BY <2>1 DEF Frame
  <2> QED BY <2>2 DEF Remaining
<1>5. top = stack[Len(stack)] BY <1>1, TopLemma
<1> QED BY <1>3, <1>4, <1>5 DEF PendingIn

LEMMA ReturnOutput == Walked /\ Fits /\ Return => Output'
<1> SUFFICES ASSUME Walked, Fits, Return PROVE Output'
  OBVIOUS
<1>1. UNCHANGED <<fs, flags, directories, n, status>> /\ status = "walk" /\ out' = out
  BY DEF Return, mainVars
<1>2. Output BY DEF Walked
<1>3. PICK t : t = stack' OBVIOUS
<1>4. \A p : PendingIn(t, p) <=> PendingIn(stack, p)
  BY <1>3, ReturnPending DEF Walked
<1>5. Done(t) = Done(stack) BY <1>4, SamePending
<1>6. Range(out) = Listed(n) \cup Done(t) /\ Ordered(out)
  BY <1>1, <1>2, <1>5 DEF Output
<1>7. PICK o : o = out' OBVIOUS
<1>8. o = out BY <1>1, <1>7
<1> QED BY <1>1, <1>2, <1>3, <1>6, <1>7, <1>8, WalkOutput

LEMMA EntryPlaces == Typed /\ Places(stack) /\ (Entry \/ NoMetadata) => Places(stack)'
<1> SUFFICES ASSUME Typed, Places(stack), Entry \/ NoMetadata PROVE Places(stack)'
  OBVIOUS
<1>1. fs' = fs /\ directories' = directories /\ n' = n /\ AtEntry
  BY DEF Entry, NoMetadata, mainVars
<1>2. PICK t : t = stack' OBVIOUS
<1>3. t = Passed \/ (/\ Opens(entry, Len(stack)) /\ fs[top.dn].searchable
                    /\ t = Append(Passed, New(entry)))
  BY <1>2, EntryCases DEF Entry, NoMetadata
<1>4. Places(t) BY <1>1, <1>3, PassedPlaces, PushPlaces
<1> QED BY <1>1, <1>2, <1>4, PlacesPrime

\* The lines about the current entry.
LEMMA EntryLines ==
  ASSUME Typed, Places(stack), AtEntry, NEW l
  PROVE  l \in Lines(n) /\ l.path = entry <=>
           /\ "d" \in flags => fs[top.dn].searchable /\ IsDir(entry)
           /\ \/ l = Line(entry, IF fs[top.dn].searchable \/ "v" \notin flags
                                 THEN "entry" ELSE "denied")
              \/ /\ l = Line(entry, "error") /\ fs[top.dn].searchable /\ IsDir(entry)
                 /\ ~Opens(entry, Len(stack))
<1>1. PICK e : e = entry OBVIOUS
<1>2. /\ n \in DOMAIN directories /\ e \in DOMAIN fs /\ Reached(n, e) /\ e # dir(n)
      /\ Len(e) - Len(dir(n)) = Len(stack)
  <2>1. e \in DOMAIN fs BY <1>1, EntryLemma
  <2>2. Len(e) > Len(dir(n)) /\ Len(e) - Len(dir(n)) = Len(stack) /\ Reached(n, e)
        /\ n \in DOMAIN directories
    BY <1>1, EntryReached
  <2>3. Len(dir(n)) \in Nat BY <2>2, DirTyped
  <2> QED BY <2>1, <2>2, <2>3
<1>3. HasMetadata(e) = fs[top.dn].searchable
  <2>1. Front(e) = top.dn BY <1>1, EntryLemma, AppendIs DEF entry
  <2> QED BY <2>1 DEF HasMetadata
<1>4. Shown(n, e) <=> ("d" \in flags => fs[top.dn].searchable /\ IsDir(e))
  BY <1>2, <1>3 DEF Shown
<1>5. \A kind : PrintedAs(n, e, kind) <=>
        /\ "d" \in flags => fs[top.dn].searchable /\ IsDir(e)
        /\ \/ kind = IF fs[top.dn].searchable \/ "v" \notin flags THEN "entry" ELSE "denied"
           \/ /\ kind = "error" /\ fs[top.dn].searchable /\ IsDir(e)
              /\ ~Opens(e, Len(stack))
  BY <1>2, <1>3, <1>4 DEF PrintedAs
<1>6. l \in Lines(n) /\ l.path = e <=>
        \E kind : l = [arg |-> n, path |-> e, kind |-> kind] /\ PrintedAs(n, e, kind)
  <2>1. l \in Lines(n) <=> \E p, kind : /\ l = [arg |-> n, path |-> p, kind |-> kind]
                                        /\ PrintedAs(n, p, kind)
    BY <1>2, LinesAre
  <2>2. ASSUME NEW p, NEW kind, l = [arg |-> n, path |-> p, kind |-> kind] PROVE l.path = p
    BY <2>2
  <2> QED BY <2>1, <2>2
<1> QED BY <1>1, <1>5, <1>6 DEF Line

LEMMA DoneAfter ==
  ASSUME Typed, Places(stack), Fits, Entry \/ NoMetadata, NEW t, t = stack'
  PROVE  Done(t) = Done(stack) \cup {l \in Lines(n) : l.path = entry}
<1>1. AtEntry BY DEF Entry, NoMetadata
<1>2. PICK e : e = entry OBVIOUS
<1>3. n \in DOMAIN directories /\ e # dir(n) /\ e \in DOMAIN fs
  BY <1>1, <1>2, EntryReached, EntryLemma DEF Reached, IsStrictPrefix
<1>4. t \in Seq(Frame) /\ ChainOf(t)
  <2>1. Typed' BY EntryTyped, NoMetadataTyped
  <2>2. Places(stack)' BY EntryPlaces
  <2>3. fs' = fs /\ directories' = directories /\ n' = n
    BY DEF Entry, NoMetadata, mainVars
  <2>4. t = Passed \/ (/\ Opens(entry, Len(stack)) /\ fs[top.dn].searchable
                      /\ t = Append(Passed, New(entry)))
    BY EntryCases DEF Entry, NoMetadata
  <2>5. Places(t) BY <1>1, <2>4, PassedPlaces, PushPlaces
  <2> QED BY <2>1, <2>5 DEF Typed, Places, Frame
<1>5. ~PendingIn(t, dir(n)) /\ ~PendingIn(stack, dir(n))
  BY <1>3, <1>4, RootPrinted DEF Places, Typed
<1>6. ASSUME NEW l \in Lines(n)
      PROVE  PendingIn(t, l.path) <=> PendingIn(stack, l.path) /\ l.path # e
  <2>1. CASE l.path = dir(n) BY <2>1, <1>5
  <2>2. CASE l.path # dir(n)
    <3>1. PICK p : p = l.path OBVIOUS
    <3>2. p \in DOMAIN fs /\ Reached(n, p) BY <1>3, <2>2, <3>1, LinePath
    <3>3. PendingIn(t, p) <=> PendingIn(stack, p) /\ p # e
      BY <1>2, <3>2, EntryPending
    <3> QED BY <3>1, <3>3
  <2> QED BY <2>1, <2>2
<1> QED BY <1>2, <1>6 DEF Done

LEMMA OneLine ==
  ASSUME Typed, Places(stack), Fits, Output, AtEntry,
         NEW kind \in {"name", "entry", "denied", "error"},
         NEW m, m = Line(entry, kind), NEW r, r = Append(out, m)
  PROVE  /\ Ordered(r) /\ Range(r) = Range(out) \cup {m} /\ r \in Seq(LineType)
         /\ \A l \in Range(out) : Precedes(l, m)
<1>1. out \in Seq(LineType) BY DEF Typed
<1>2. m \in LineType BY EntryLemma, LineTyped
<1>3. Range(out) = Listed(n) \cup Done(stack) /\ Ordered(out) /\ n <= Len(directories)
  BY DEF Output, AtEntry
<1>4. \A l \in Range(out) : Precedes(l, m) BY <1>3, PrintedFirst
<1> QED BY <1>1, <1>2, <1>3, <1>4, AppendOrdered

LEMMA TwoLines ==
  ASSUME Typed, Places(stack), Fits, Output, AtEntry,
         NEW m, m = Line(entry, "entry"), NEW e, e = Line(entry, "error"),
         NEW r, r = Append(Append(out, m), e)
  PROVE  Ordered(r) /\ Range(r) = Range(out) \cup {m, e} /\ r \in Seq(LineType)
<1>1. PICK o : o = Append(out, m) OBVIOUS
<1>2. Ordered(o) /\ Range(o) = Range(out) \cup {m} /\ o \in Seq(LineType)
  BY <1>1, OneLine
<1>3. e \in LineType BY EntryLemma, LineTyped
<1>4. PICK x : x = Append(out, e) OBVIOUS
<1>5. \A l \in Range(out) : Precedes(l, e) BY <1>4, OneLine
<1>6. Precedes(m, e)
  <2>1. m.arg = e.arg /\ m.path = e.path /\ m.kind = "entry" /\ e.kind = "error"
    BY DEF Line
  <2> QED BY <2>1 DEF Precedes
<1>7. \A l \in Range(o) : Precedes(l, e) BY <1>2, <1>5, <1>6
<1>8. Ordered(r) /\ Range(r) = Range(o) \cup {e} /\ r \in Seq(LineType)
  BY <1>1, <1>2, <1>3, <1>7, AppendOrdered
<1> QED BY <1>2, <1>8

LEMMA NoMetadataOutput == Walked /\ Fits /\ NoMetadata => Output'
<1> SUFFICES ASSUME Walked, Fits, NoMetadata PROVE Output'
  OBVIOUS
<1>1. UNCHANGED <<fs, flags, directories, n, status>> /\ status = "walk" /\ AtEntry
      /\ ~fs[top.dn].searchable
  BY DEF NoMetadata, mainVars, AtEntry
<1>2. Typed /\ Places(stack) /\ Output BY DEF Walked
<1>3. PICK t : t = stack' OBVIOUS
<1>4. PICK o : o = out' OBVIOUS
<1>5. Done(t) = Done(stack) \cup {l \in Lines(n) : l.path = entry}
  BY <1>2, <1>3, DoneAfter
<1>6. Range(out) = Listed(n) \cup Done(stack) /\ Ordered(out)
  BY <1>1, <1>2 DEF Output
<1>7. PICK m : m = Line(entry, IF "v" \in flags THEN "denied" ELSE "entry") OBVIOUS
<1>8. \A l : l \in Lines(n) /\ l.path = entry <=> "d" \notin flags /\ l = m
  BY <1>1, <1>2, <1>7, EntryLines
<1>9. CASE "d" \in flags
  <2>1. Done(t) = Done(stack) BY <1>5, <1>8, <1>9
  <2>2. o = out BY <1>4, <1>9 DEF NoMetadata
  <2>3. Range(o) = Listed(n) \cup Done(t) /\ Ordered(o) BY <1>6, <2>1, <2>2
  <2> QED BY <1>1, <1>2, <1>3, <1>4, <2>3, WalkOutput
<1>10. CASE "d" \notin flags
  <2>1. {l \in Lines(n) : l.path = entry} = {m} BY <1>8, <1>10
  <2>2. o = Append(out, m) BY <1>4, <1>7, <1>10 DEF NoMetadata
  <2>3. Range(o) = Range(out) \cup {m} /\ Ordered(o)
    <3>1. CASE "v" \in flags BY <3>1, <1>1, <1>2, <1>7, <2>2, OneLine
    <3>2. CASE "v" \notin flags BY <3>2, <1>1, <1>2, <1>7, <2>2, OneLine
    <3> QED BY <3>1, <3>2
  <2>4. Range(o) = Listed(n) \cup Done(t) BY <1>5, <1>6, <2>1, <2>3
  <2> QED BY <1>1, <1>2, <1>3, <1>4, <2>3, <2>4, WalkOutput
<1> QED BY <1>9, <1>10

LEMMA EntryOutput == Walked /\ Fits /\ Entry => Output'
<1> SUFFICES ASSUME Walked, Fits, Entry PROVE Output'
  OBVIOUS
<1>1. UNCHANGED <<fs, flags, directories, n, status>> /\ status = "walk" /\ AtEntry
      /\ fs[top.dn].searchable
  BY DEF Entry, mainVars, AtEntry
<1>2. Typed /\ Places(stack) /\ Output BY DEF Walked
<1>3. PICK t : t = stack' OBVIOUS
<1>4. PICK o : o = out' OBVIOUS
<1>5. Done(t) = Done(stack) \cup {l \in Lines(n) : l.path = entry}
  BY <1>2, <1>3, DoneAfter
<1>6. Range(out) = Listed(n) \cup Done(stack) /\ Ordered(out) /\ out \in Seq(LineType)
  BY <1>1, <1>2 DEF Output, Typed
<1>7. PICK m : m = Line(entry, "entry") OBVIOUS
<1>8. PICK e : e = Line(entry, "error") OBVIOUS
<1>9. \A l : l \in Lines(n) /\ l.path = entry <=>
        /\ "d" \in flags => IsDir(entry)
        /\ l = m \/ (l = e /\ IsDir(entry) /\ ~Opens(entry, Len(stack)))
  BY <1>1, <1>2, <1>7, <1>8, EntryLines
<1>10. \/ "d" \in flags /\ ~IsDir(entry) /\ out' = out
       \/ ~IsDir(entry) /\ "d" \notin flags /\ out' = Append(out, m)
       \/ IsDir(entry) /\ Opens(entry, Len(stack)) /\ out' = out \o <<m>>
       \/ IsDir(entry) /\ ~Opens(entry, Len(stack)) /\ out' = (out \o <<m>>) \o <<e>>
  BY <1>2, <1>7, <1>8, EntryCases
<1>11. m \in LineType /\ e \in LineType BY <1>1, <1>2, <1>7, <1>8, EntryLemma, LineTyped
<1>12. out \o <<m>> = Append(out, m) /\ (out \o <<m>>) \o <<e>> = Append(Append(out, m), e)
  BY <1>6, <1>11
<1>13. CASE "d" \in flags /\ ~IsDir(entry)
  <2>1. Done(t) = Done(stack) BY <1>5, <1>9, <1>13
  <2>2. o = out BY <1>4, <1>10, <1>13
  <2>3. Range(o) = Listed(n) \cup Done(t) /\ Ordered(o) BY <1>6, <2>1, <2>2
  <2> QED BY <1>1, <1>2, <1>3, <1>4, <2>3, WalkOutput
<1>14. CASE (IsDir(entry) /\ Opens(entry, Len(stack))) \/ (~IsDir(entry) /\ "d" \notin flags)
  <2>1. {l \in Lines(n) : l.path = entry} = {m} BY <1>9, <1>14
  <2>2. o = Append(out, m) BY <1>4, <1>10, <1>12, <1>14
  <2>3. Range(o) = Range(out) \cup {m} /\ Ordered(o)
    BY <1>1, <1>2, <1>7, <2>2, OneLine
  <2>4. Range(o) = Listed(n) \cup Done(t) BY <1>5, <1>6, <2>1, <2>3
  <2> QED BY <1>1, <1>2, <1>3, <1>4, <2>3, <2>4, WalkOutput
<1>15. CASE IsDir(entry) /\ ~Opens(entry, Len(stack))
  <2>1. {l \in Lines(n) : l.path = entry} = {m, e} BY <1>9, <1>15
  <2>2. o = Append(Append(out, m), e) BY <1>4, <1>10, <1>12, <1>15
  <2>3. Range(o) = Range(out) \cup {m, e} /\ Ordered(o)
    BY <1>1, <1>2, <1>7, <1>8, <2>2, TwoLines
  <2>4. Range(o) = Listed(n) \cup Done(t) BY <1>5, <1>6, <2>1, <2>3
  <2> QED BY <1>1, <1>2, <1>3, <1>4, <2>3, <2>4, WalkOutput
<1> QED BY <1>13, <1>14, <1>15

\* The activation of an argument that can be opened.
LEMMA NewPlaces ==
  ASSUME Typed, n \in DOMAIN directories, Opens(dir(n), 0), NEW t, t = <<New(dir(n))>>
  PROVE  Places(t)
<1>1. PICK d : d = dir(n) OBVIOUS
<1>2. PICK f : f = New(d) OBVIOUS
<1>3. /\ f.dn = d /\ f.i = 0 /\ f.entries = <<>> /\ f.unread = Children(d)
  BY <1>2 DEF New
<1>4. t = <<f>> /\ DOMAIN t = {1} /\ t[1] = f BY <1>1, <1>2
<1>5. Len(d) \in Nat BY <1>1, DirTyped
<1>6. EntriesOf(f)
  <2>1. DOMAIN f.entries = {} /\ Range(f.entries) = {} BY <1>3 DEF Range
  <2> QED BY <2>1, <1>3 DEF EntriesOf
<1>7. ChainOf(t)
  <2>1. Len(d) = Len(d) + 1 - 1 BY <1>5
  <2>2. 1 - 1 = 0 /\ ~(1 > 1) /\ \A h \in 1 .. (1 - 1) : FALSE OBVIOUS
  <2> QED BY <2>1, <2>2, <1>1, <1>3, <1>4 DEF ChainOf
<1> QED BY <1>4, <1>6, <1>7 DEF Places

LEMMA NoPlaces ==
  ASSUME NEW t, t = <<>>
  PROVE  Places(t)
BY DEF Places, ChainOf

LEMMA EmptyPlaces ==
  ASSUME stack' = <<>>
  PROVE  Places(stack)'
BY DEF Places, ChainOf

LEMMA DirectoryCases ==
  ASSUME Typed, Directory
  PROVE  /\ n \in DOMAIN directories /\ status = "main" /\ status' = "walk"
         /\ UNCHANGED <<fs, flags, directories, n>>
         /\ Opens(dir(n), 0) => /\ stack' = <<New(dir(n))>>
                                /\ out' = Append(out, Line(dir(n), "name"))
         /\ ~Opens(dir(n), 0) => /\ stack' = <<>>
                                 /\ out' = Append(Append(out, Line(dir(n), "name")),
                                                  Line(dir(n), "error"))
<1>1. n \in DOMAIN directories BY DEF Directory, Typed
<1>2. PICK d : d = dir(n) OBVIOUS
<1>3. Call(<<>>, d, <<Line(d, "name")>>) BY <1>2 DEF Directory, dir
<1>4. Len(<<>>) = 0 /\ Append(<<>>, New(d)) = <<New(d)>> OBVIOUS
<1>5. d \in Seq(Nat) BY <1>1, <1>2, DirTyped
<1>6. PICK m : m = Line(d, "name") OBVIOUS
<1>7. PICK e : e = Line(d, "error") OBVIOUS
<1>8. m \in LineType /\ e \in LineType /\ out \in Seq(LineType)
  BY <1>5, <1>6, <1>7, LineTyped DEF Typed
<1>9. out \o <<m>> = Append(out, m) /\ (out \o <<m>>) \o <<e>> = Append(Append(out, m), e)
  BY <1>8
<1>10. /\ Opens(d, 0) => stack' = <<New(d)>> /\ out' = out \o <<m>>
       /\ ~Opens(d, 0) => stack' = <<>> /\ out' = (out \o <<m>>) \o <<e>>
  BY <1>3, <1>4, <1>6, <1>7 DEF Call, New
<1>11. /\ status = "main" /\ status' = "walk"
       /\ UNCHANGED <<fs, flags, directories, n>>
  BY DEF Directory, mainVars
<1> QED BY <1>1, <1>2, <1>6, <1>7, <1>9, <1>10, <1>11

LEMMA DirectoryPlaces == Typed /\ Directory => Places(stack)'
<1> SUFFICES ASSUME Typed, Directory PROVE Places(stack)'
  OBVIOUS
<1>1. PICK t : t = stack' OBVIOUS
<1>2. Places(t) BY <1>1, DirectoryCases, NewPlaces, NoPlaces
<1>3. fs' = fs /\ directories' = directories /\ n' = n BY DirectoryCases
<1> QED BY <1>1, <1>2, <1>3, PlacesPrime

\* The lines about the directory of an argument itself.
LEMMA RootLines ==
  ASSUME Typed, n \in DOMAIN directories, NEW l
  PROVE  l \in Lines(n) /\ l.path = dir(n) <=>
           \/ l = Line(dir(n), "name")
           \/ l = Line(dir(n), "error") /\ ~Opens(dir(n), 0)
<1>1. PICK d : d = dir(n) OBVIOUS
<1>2. ~Shown(n, d) BY <1>1, ShownIs
<1>3. \A kind : PrintedAs(n, d, kind) <=> kind = "name" \/ (kind = "error" /\ ~Opens(d, 0))
  BY <1>1, <1>2 DEF PrintedAs
<1>4. l \in Lines(n) /\ l.path = d <=>
        \E kind : l = [arg |-> n, path |-> d, kind |-> kind] /\ PrintedAs(n, d, kind)
  <2>1. l \in Lines(n) <=> \E p, kind : /\ l = [arg |-> n, path |-> p, kind |-> kind]
                                        /\ PrintedAs(n, p, kind)
    BY LinesAre
  <2>2. ASSUME NEW p, NEW kind, l = [arg |-> n, path |-> p, kind |-> kind] PROVE l.path = p
    BY <2>2
  <2> QED BY <2>1, <2>2
<1> QED BY <1>1, <1>3, <1>4 DEF Line

\* When an argument has just been opened, all that can be reached is pending.
LEMMA RootPending ==
  ASSUME Typed, n \in DOMAIN directories,
         NEW t, Opens(dir(n), 0) => t = <<New(dir(n))>>, ~Opens(dir(n), 0) => t = <<>>
  PROVE  /\ \A p \in DOMAIN fs : Reached(n, p) => PendingIn(t, p)
         /\ ~PendingIn(t, dir(n))
<1>1. PICK d : d = dir(n) OBVIOUS
<1>2. d \in Seq(Nat) /\ Len(d) \in Nat BY <1>1, DirTyped
<1>3. ASSUME NEW p \in DOMAIN fs, Reached(n, p)
      PROVE  Opens(d, 0) /\ PendingIn(t, p)
  <2>1. p \in Seq(Nat) /\ IsStrictPrefix(d, p) BY <1>1, <1>3, TreeTyped DEF Reached
  <2>2. Opens(d, 0)
    <3>1. Len(d) < Len(p) /\ \A x \in 1 .. Len(d) : d[x] = p[x] BY <1>2, <2>1, PrefixIs
    <3>2. Len(d) \in Len(d) .. (Len(p) - 1) /\ Len(d) - Len(d) = 0 BY <1>2, <2>1, <3>1
    <3>3. SubSeq(p, 1, Len(d)) = d
      <4>1. Len(d) \in 0 .. Len(p) BY <1>2, <2>1, <3>1
      <4> QED BY <1>2, <2>1, <3>1, <4>1, SubSeqIs
    <3> QED BY <1>1, <1>3, <2>1, <3>2, <3>3, ReachedIs
  <2>3. p[Len(d) + 1] \in Children(d) BY <1>1, <1>2, <1>3, <2>1, BelowFrame
  <2>4. t = <<New(d)>> /\ New(d).dn = d /\ New(d).i = 0 BY <1>1, <2>2 DEF New
  <2>5. 1 \in DOMAIN t /\ t[1].dn = d /\ Remaining(t[1]) = Children(d)
    BY <2>4 DEF Remaining
  <2> QED BY <2>1, <2>2, <2>3, <2>5 DEF PendingIn
<1>4. ~PendingIn(t, d)
  <2> SUFFICES ASSUME NEW j \in DOMAIN t, IsStrictPrefix(t[j].dn, d) PROVE FALSE
    BY DEF PendingIn
  <2>1. t = <<New(d)>> \/ t = <<>> BY <1>1
  <2>2. t[j].dn = d BY <2>1 DEF New
  <2> QED BY <2>2 DEF IsStrictPrefix
<1> QED BY <1>1, <1>3, <1>4

\* Only the lines about the directory itself are done then.
LEMMA RootDone ==
  ASSUME Typed, n \in DOMAIN directories,
         NEW t, Opens(dir(n), 0) => t = <<New(dir(n))>>, ~Opens(dir(n), 0) => t = <<>>
  PROVE  Done(t) = {l \in Lines(n) : l.path = dir(n)}
<1>1. PICK d : d = dir(n) OBVIOUS
<1>2. ~PendingIn(t, d) /\ \A p \in DOMAIN fs : Reached(n, p) => PendingIn(t, p)
  BY <1>1, RootPending
<1>3. ASSUME NEW l \in Lines(n) PROVE PendingIn(t, l.path) <=> l.path # d
  <2>1. l.path = d \/ (l.path \in DOMAIN fs /\ Reached(n, l.path)) BY <1>1, LinePath
  <2> QED BY <1>2, <2>1
<1> QED BY <1>1, <1>3 DEF Done

LEMMA DirectoryOutput == Walked /\ Fits /\ Directory => Output'
<1> SUFFICES ASSUME Walked, Fits, Directory PROVE Output'
  OBVIOUS
<1>1. Typed /\ Output BY DEF Walked
<1>2. /\ n \in DOMAIN directories /\ status = "main" /\ status' = "walk"
      /\ UNCHANGED <<fs, flags, directories, n>>
  BY <1>1, DirectoryCases
<1>3. Range(out) = Listed(n) /\ Ordered(out) /\ out \in Seq(LineType)
  BY <1>1, <1>2 DEF Output, Typed
<1>4. PICK d : d = dir(n) OBVIOUS
<1>5. PICK m : m = Line(d, "name") OBVIOUS
<1>6. PICK e : e = Line(d, "error") OBVIOUS
<1>7. PICK t : t = stack' OBVIOUS
<1>8. PICK o : o = out' OBVIOUS
<1>9. /\ Opens(d, 0) => t = <<New(d)>> /\ o = Append(out, m)
      /\ ~Opens(d, 0) => t = <<>> /\ o = Append(Append(out, m), e)
  BY <1>1, <1>4, <1>5, <1>6, <1>7, <1>8, DirectoryCases
<1>10. Done(t) = {l \in Lines(n) : l.path = d} BY <1>1, <1>2, <1>4, <1>9, RootDone
<1>11. \A l : l \in Lines(n) /\ l.path = d <=> l = m \/ (l = e /\ ~Opens(d, 0))
  BY <1>1, <1>2, <1>4, <1>5, <1>6, RootLines
<1>12. d \in Seq(Nat) /\ m \in LineType /\ e \in LineType
  BY <1>1, <1>2, <1>4, <1>5, <1>6, DirTyped, LineTyped
<1>13. ASSUME NEW l \in Range(out) PROVE Precedes(l, m) /\ Precedes(l, e)
  <2>1. n \in Nat /\ n <= Len(directories) + 1 BY <1>1, <1>2 DEF Typed
  <2>2. l.arg < n BY <1>1, <1>3, <1>13, <2>1, ListedIs
  <2>3. m.arg = n /\ e.arg = n BY <1>5, <1>6 DEF Line
  <2> QED BY <2>2, <2>3 DEF Precedes
<1>14. PICK r : r = Append(out, m) OBVIOUS
<1>15. Ordered(r) /\ Range(r) = Range(out) \cup {m} /\ r \in Seq(LineType)
  BY <1>3, <1>12, <1>13, <1>14, AppendOrdered
<1>16. Ordered(o) /\ Range(o) = Listed(n) \cup Done(t)
  <2>1. CASE Opens(d, 0)
    <3>1. Done(t) = {m} BY <1>10, <1>11, <2>1
    <3> QED BY <1>3, <1>9, <1>14, <1>15, <2>1, <3>1
  <2>2. CASE ~Opens(d, 0)
    <3>1. Done(t) = {m, e} BY <1>10, <1>11, <2>2
    <3>2. Precedes(m, e) BY <1>5, <1>6 DEF Precedes, Line
    <3>3. \A l \in Range(r) : Precedes(l, e) BY <1>13, <1>15, <3>2
    <3>4. o = Append(r, e) BY <1>9, <1>14, <2>2
    <3>5. Ordered(o) /\ Range(o) = Range(r) \cup {e}
      BY <1>12, <1>15, <3>3, <3>4, AppendOrdered
    <3> QED BY <1>3, <1>15, <3>1, <3>5
  <2> QED BY <2>1, <2>2
<1>17. Range(out)' = Listed(n)' \cup Done(stack)' /\ Ordered(out)'
  BY <1>2, <1>7, <1>8, <1>16, SameOutput
<1>18. n' = n /\ directories' = directories /\ n' <= Len(directories')
       /\ n' <= Len(directories') + 1
  BY <1>1, <1>2 DEF Typed
<1> QED BY <1>2, <1>17, <1>18 DEF Output

\* A step that leaves the walk as it is.
LEMMA StopOutput ==
  ASSUME Output, UNCHANGED <<fs, flags, directories, n, stack, out>>,
         status # "start", status' \in {"failed", "undefined"},
         status' = "undefined" => \E k \in DOMAIN directories, p \in DOMAIN fs :
           Reached(k, p) /\ 2 * (Len(p) - Len(dir(k))) > WIDTH - 3
  PROVE  Output'
<1>1. PICK t : t = stack' OBVIOUS
<1>2. PICK o : o = out' OBVIOUS
<1>3. t = stack /\ o = out BY <1>1, <1>2
<1>4. /\ Listed(n)' = Listed(n) /\ Done(stack)' = Done(stack)
      /\ Ordered(out)' <=> Ordered(out)
      /\ Range(out)' = Range(out)
  BY <1>1, <1>2, <1>3, SameOutput
<1>5. status' # "start" /\ status' # "main" /\ status' # "walk" /\ status' # "exited"
  OBVIOUS
<1>6. n' = n /\ directories' = directories /\ stack' = stack OBVIOUS
<1>7. n' <= Len(directories') + 1 BY <1>6 DEF Output
<1>8. Ordered(out)' BY <1>4 DEF Output
<1>9. \/ stack' = <<>> /\ Range(out)' = Listed(n)'
      \/ n' <= Len(directories') /\ Range(out)' = Listed(n)' \cup Done(stack)'
  BY <1>4, <1>6 DEF Output
<1>10. (status = "undefined" => \E k \in DOMAIN directories, p \in DOMAIN fs :
          Reached(k, p) /\ 2 * (Len(p) - Len(dir(k))) > WIDTH - 3)'
  <2>1. SUFFICES ASSUME status' = "undefined"
                 PROVE  (\E k \in DOMAIN directories, p \in DOMAIN fs :
                           Reached(k, p) /\ 2 * (Len(p) - Len(dir(k))) > WIDTH - 3)'
    OBVIOUS
  <2>2. PICK k \in DOMAIN directories, p \in DOMAIN fs :
          Reached(k, p) /\ 2 * (Len(p) - Len(dir(k))) > WIDTH - 3
    BY <2>1
  <2>3. Reached(k, p)' /\ dir(k)' = dir(k) BY <2>2, LinesPrime
  <2>4. k \in DOMAIN directories' /\ p \in DOMAIN fs' BY <1>6, <2>2
  <2> QED BY <2>2, <2>3, <2>4
<1> QED BY <1>5, <1>7, <1>8, <1>9, <1>10 DEF Output

\* An entry whose name has no columns left is nested as deep as that.
LEMMA OverrunOutput == Walked /\ Fits /\ Overrun => Output'
<1> SUFFICES ASSUME Walked, Fits, Overrun PROVE Output'
  OBVIOUS
<1>1. Typed /\ Places(stack) /\ Output /\ AtEntry /\ status = "walk" /\ status' = "undefined"
      /\ UNCHANGED <<fs, flags, directories, n, stack, out>>
  BY DEF Walked, Overrun, AtEntry, mainVars
<1>2. PICK e : e = entry OBVIOUS
<1>3. PICK k : k = n OBVIOUS
<1>4. /\ Reached(k, e) /\ k \in DOMAIN directories /\ e \in DOMAIN fs
      /\ Len(e) - Len(dir(k)) = Len(stack)
  BY <1>1, <1>2, <1>3, EntryReached, EntryLemma
<1>5. 2 * Len(stack) > WIDTH - 3
  <2>1. Len(stack) \in Nat BY <1>1 DEF Typed
  <2>2. depth + 1 = Len(stack) BY <2>1 DEF depth
  <2> QED BY <2>2 DEF Overrun, Overruns
<1>6. 2 * (Len(e) - Len(dir(k))) > WIDTH - 3 BY <1>4, <1>5
<1> QED BY <1>1, <1>4, <1>6, StopOutput

LEMMA PanicOutput == Walked /\ Fits /\ Panic => Output'
<1> SUFFICES ASSUME Walked, Fits, Panic PROVE Output'
  OBVIOUS
<1>1. Output /\ status = "walk" /\ status' = "failed"
      /\ UNCHANGED <<fs, flags, directories, n, stack, out>>
  BY DEF Walked, Panic, mainVars
<1> QED BY <1>1, StopOutput

LEMMA ParseOutput == Walked /\ Fits /\ Parse => Output'
<1> SUFFICES ASSUME Walked, Fits, Parse PROVE Output'
  OBVIOUS
<1>1. Typed /\ Typed' /\ Output /\ status = "start" /\ stack = <<>>
  BY ParseTyped DEF Walked, Parse, Idle
<1>2. n' = n /\ n = 1 /\ out' = out /\ stack' = stack BY <1>1 DEF Output, Parse
<1>3. status' \in {"main", "failed"} BY DEF Parse
<1>4. Listed(n) = {} /\ Listed(n)' = {} BY <1>2 DEF Listed
<1>5. Range(out) = {} BY <1>1, <1>4 DEF Output
<1>6. DOMAIN out = {} BY <1>5 DEF Range
<1>7. Range(out)' = {} /\ Ordered(out)' BY <1>2, <1>6 DEF Range, Ordered
<1>8. n' <= Len(directories') + 1
  <2>1. Len(directories') \in Nat BY <1>1 DEF Typed
  <2> QED BY <2>1, <1>2
<1> QED BY <1>1, <1>2, <1>3, <1>4, <1>7, <1>8 DEF Output

LEMMA SummaryOutput == Walked /\ Fits /\ Summary => Output'
<1> SUFFICES ASSUME Walked, Fits, Summary PROVE Output'
  OBVIOUS
<1>1. /\ Typed /\ Output /\ status = "walk" /\ stack = <<>> /\ n' = n + 1 /\ status' = "main"
      /\ UNCHANGED <<fs, flags, directories, stack, out>>
  BY DEF Walked, Summary, mainVars
<1>2. n <= Len(directories) /\ Range(out) = Listed(n) \cup Done(stack) /\ Ordered(out)
  BY <1>1 DEF Output
<1>3. n \in Nat \ {0} /\ n \in DOMAIN directories /\ Len(directories) \in Nat
  BY <1>1, <1>2 DEF Typed
<1>4. Done(stack) = Lines(n) BY <1>1 DEF Done, PendingIn
<1>5. PICK m : m = n + 1 OBVIOUS
<1>6. Range(out) = Listed(m)
  <2>1. Listed(n + 1) = Listed(n) \cup Lines(n)
    <3>1. n <= Len(directories) + 1 BY <1>2, <1>3
    <3> QED BY <1>1, <1>3, <3>1, ListedIs
  <2> QED BY <1>2, <1>4, <1>5, <2>1
<1>7. Listed(n)' = Listed(m)
  <2>1. Listed(n)' = UNION {Lines(k)' : k \in 1 .. (n' - 1)} BY DEF Listed
  <2>2. n' = m BY <1>1, <1>5
  <2> QED BY <1>1, <2>1, <2>2, LinesPrime DEF Listed
<1>8. PICK o : o = out' OBVIOUS
<1>9. o = out BY <1>1, <1>8
<1>10. Range(out)' = Range(out) BY <1>1 DEF Range
<1>11. Ordered(out)'
  <2>1. fs' = fs BY <1>1
  <2>2. Ordered(o) BY <1>2, <1>9
  <2> QED BY <1>8, <2>1, <2>2, OrderedPrime
<1>12. n' <= Len(directories') + 1 /\ stack' = <<>> BY <1>1, <1>2, <1>3
<1> QED BY <1>1, <1>6, <1>7, <1>10, <1>11, <1>12 DEF Output

LEMMA TotalOutput == Walked /\ Fits /\ Total => Output'
<1> SUFFICES ASSUME Walked, Fits, Total PROVE Output'
  OBVIOUS
<1>1. /\ Output /\ status = "main" /\ status' = "exited" /\ n > Len(directories)
      /\ UNCHANGED <<fs, flags, directories, n, stack, out>> /\ stack = <<>>
  BY DEF Walked, Total, mainVars, Idle
<1>2. PICK t : t = stack' OBVIOUS
<1>3. PICK o : o = out' OBVIOUS
<1>4. Listed(n)' = Listed(n) /\ (Ordered(out)' <=> Ordered(out)) /\ Range(out)' = Range(out)
  <2>1. t = stack /\ o = out BY <1>1, <1>2, <1>3
  <2> QED BY <1>1, <1>2, <1>3, <2>1, SameOutput
<1>5. Range(out) = Listed(n) /\ Ordered(out) /\ n <= Len(directories) + 1 BY <1>1 DEF Output
<1>6. n' > Len(directories') /\ n' <= Len(directories') + 1 /\ stack' = <<>> BY <1>1, <1>5
<1> QED BY <1>1, <1>4, <1>5, <1>6 DEF Output

LEMMA StutterOutput == Output /\ UNCHANGED vars => Output'
<1> SUFFICES ASSUME Output, UNCHANGED vars PROVE Output'
  OBVIOUS
<1>1. UNCHANGED <<fs, flags, directories, n, stack, out, status>> BY DEF vars, mainVars
<1>2. PICK t : t = stack' OBVIOUS
<1>3. PICK o : o = out' OBVIOUS
<1>4. /\ Listed(n)' = Listed(n) /\ Done(stack)' = Done(stack)
      /\ Ordered(out)' <=> Ordered(out)
      /\ Range(out)' = Range(out)
  <2>1. t = stack /\ o = out BY <1>1, <1>2, <1>3
  <2> QED BY <1>1, <1>2, <1>3, <2>1, SameOutput
<1>5. (\E k \in DOMAIN directories, p \in DOMAIN fs :
         Reached(k, p) /\ 2 * (Len(p) - Len(dir(k))) > WIDTH - 3)' <=>
      \E k \in DOMAIN directories, p \in DOMAIN fs :
         Reached(k, p) /\ 2 * (Len(p) - Len(dir(k))) > WIDTH - 3
  BY <1>1, LinesPrime DEF Reached, Above, dir, Opens, HasMetadata
<1>6. n' = n /\ directories' = directories /\ stack' = stack /\ status' = status BY <1>1
<1> QED BY <1>4, <1>5, <1>6 DEF Output

LEMMA InitWalked == Init => Walked
<1> SUFFICES ASSUME Init PROVE Walked
  OBVIOUS
<1>1. Typed /\ Idle BY InitTyped DEF Init, Idle
<1>2. /\ n = 1 /\ stack = <<>> /\ out = <<>> /\ status = "start" /\ directories = <<>>
  BY DEF Init
<1>3. Places(stack) BY <1>2, NoPlaces
<1>4. Listed(n) = {} /\ Range(out) = {} /\ Ordered(out)
  BY <1>2 DEF Listed, Range, Ordered
<1>5. Output BY <1>2, <1>4 DEF Output
<1> QED BY <1>1, <1>3, <1>5 DEF Walked

LEMMA ReturnPlaces == Typed /\ Places(stack) /\ Return => Places(stack)'
<1> SUFFICES ASSUME Typed, Places(stack), Return PROVE Places(stack)'
  OBVIOUS
<1>1. fs' = fs /\ directories' = directories /\ n' = n /\ stack # <<>>
  BY DEF Return, mainVars
<1>2. PICK t : t = stack' OBVIOUS
<1>3. t = Front(stack) BY <1>2 DEF Return
<1>4. Places(t) BY <1>1, <1>3, FrontPlaces
<1> QED BY <1>1, <1>2, <1>4, PlacesPrime

LEMMA SamePlaces ==
  Places(stack) /\ UNCHANGED <<fs, directories, n, stack>> => Places(stack)'
<1> SUFFICES ASSUME Places(stack), UNCHANGED <<fs, directories, n, stack>>
             PROVE  Places(stack)'
  OBVIOUS
<1>1. PICK t : t = stack' OBVIOUS
<1>2. Places(t) BY <1>1
<1> QED BY <1>1, <1>2, PlacesPrime

LEMMA NextIdle == Typed /\ Idle /\ [Next]_vars => Idle'
<1> SUFFICES ASSUME Typed, Idle, [Next]_vars PROVE Idle'
  OBVIOUS
<1>1. CASE Parse BY <1>1 DEF Parse, Idle
<1>2. CASE Directory BY <1>2 DEF Directory, Idle
<1>3. CASE ReadEntry BY <1>3 DEF ReadEntry, Idle
<1>4. CASE Sort BY <1>4 DEF Sort, Idle
<1>5. CASE Overrun BY <1>5 DEF Overrun, Idle
<1>6. CASE NoMetadata BY <1>6 DEF NoMetadata, AtEntry, Idle
<1>7. CASE Entry
  <2>1. status' = "walk" BY <1>7 DEF Entry, AtEntry
  <2> QED BY <2>1 DEF Idle
<1>8. CASE Return BY <1>8 DEF Return, Idle
<1>9. CASE Summary
  <2>1. stack' = <<>> BY <1>9 DEF Summary, mainVars
  <2> QED BY <2>1 DEF Idle
<1>10. CASE Total
  <2>1. stack' = <<>> BY <1>10 DEF Total, Idle, mainVars
  <2> QED BY <2>1 DEF Idle
<1>11. CASE Panic BY <1>11 DEF Panic, Idle
<1>12. CASE UNCHANGED vars BY <1>12 DEF vars, Idle
<1> QED BY <1>1, <1>2, <1>3, <1>4, <1>5, <1>6, <1>7, <1>8, <1>9, <1>10, <1>11, <1>12 DEF Next

LEMMA NextPlaces == Typed /\ Idle /\ Places(stack) /\ [Next]_vars => Places(stack)'
<1> SUFFICES ASSUME Typed, Idle, Places(stack), [Next]_vars PROVE Places(stack)'
  OBVIOUS
<1>1. CASE Parse
  <2>1. stack' = <<>> BY <1>1 DEF Parse, Idle
  <2> QED BY <2>1, EmptyPlaces
<1>2. CASE Directory BY <1>2, DirectoryPlaces
<1>3. CASE ReadEntry BY <1>3, ReadEntryPlaces
<1>4. CASE Sort BY <1>4, SortPlaces
<1>5. CASE NoMetadata \/ Entry BY <1>5, EntryPlaces
<1>6. CASE Return BY <1>6, ReturnPlaces
<1>7. CASE Summary
  <2>1. stack' = <<>> BY <1>7 DEF Summary, mainVars
  <2> QED BY <2>1, EmptyPlaces
<1>8. CASE Overrun \/ Total \/ Panic \/ UNCHANGED vars
  <2>1. UNCHANGED <<fs, directories, n, stack>>
    BY <1>8 DEF Overrun, Total, Panic, vars, mainVars
  <2> QED BY <2>1, SamePlaces
<1> QED BY <1>1, <1>2, <1>3, <1>4, <1>5, <1>6, <1>7, <1>8 DEF Next

LEMMA NextWalked == Walked /\ [Next]_vars => Walked'
<1> SUFFICES ASSUME Walked, [Next]_vars PROVE Walked'
  OBVIOUS
<1>1. Typed' /\ Idle' /\ Places(stack)'
  BY NextTyped, NextIdle, NextPlaces DEF Walked
<1>2. Fits' <=> Fits
  <2>1. fs' = fs
    BY EntryCases DEF Next, vars, mainVars, Parse, Directory, ReadEntry, Sort, Overrun,
       NoMetadata, Entry, Return, Summary, Total, Panic
  <2> QED BY <2>1 DEF Fits, Children
<1>3. ASSUME Fits PROVE Output'
  <2>1. CASE Parse BY <1>3, <2>1, ParseOutput
  <2>2. CASE Directory BY <1>3, <2>2, DirectoryOutput
  <2>3. CASE ReadEntry BY <1>3, <2>3, ReadEntryOutput
  <2>4. CASE Sort BY <1>3, <2>4, SortOutput
  <2>5. CASE Overrun BY <1>3, <2>5, OverrunOutput
  <2>6. CASE NoMetadata BY <1>3, <2>6, NoMetadataOutput
  <2>7. CASE Entry BY <1>3, <2>7, EntryOutput
  <2>8. CASE Return BY <1>3, <2>8, ReturnOutput
  <2>9. CASE Summary BY <1>3, <2>9, SummaryOutput
  <2>10. CASE Total BY <1>3, <2>10, TotalOutput
  <2>11. CASE Panic BY <1>3, <2>11, PanicOutput
  <2>12. CASE UNCHANGED vars BY <1>3, <2>12, StutterOutput DEF Walked
  <2> QED BY <2>1, <2>2, <2>3, <2>4, <2>5, <2>6, <2>7, <2>8, <2>9, <2>10, <2>11, <2>12 DEF Next
<1> QED BY <1>1, <1>2, <1>3 DEF Walked

\* What comes before a printed line is printed.
LEMMA NothingSkipped ==
  ASSUME Typed, Places(stack), Fits, Output, NEW z \in Range(out),
         NEW k \in DOMAIN directories, NEW l \in Lines(k), Precedes(l, z)
  PROVE  l \in Range(out)
<1>1. n \in Nat /\ n <= Len(directories) + 1 /\ DOMAIN directories \subseteq Nat \ {0}
      /\ DOMAIN directories = 1 .. Len(directories) /\ Len(directories) \in Nat
  <2>1. directories \in Seq(Seq(Nat)) /\ n \in Nat BY DEF Typed
  <2>2. DOMAIN directories = 1 .. Len(directories) /\ Len(directories) \in Nat BY <2>1
  <2>3. status = "start" => n = 1 BY DEF Output
  <2>4. status # "start" => n <= Len(directories) + 1 BY DEF Output
  <2> QED BY <2>1, <2>2, <2>3, <2>4
<1>2. /\ \A y \in Listed(n) : \E h \in DOMAIN directories : h < n /\ y \in Lines(h) /\ y.arg = h
      /\ \A h \in DOMAIN directories : h < n => Lines(h) \subseteq Listed(n)
  BY <1>1, ListedIs
<1>3. l.arg = k /\ (l.path = dir(k) \/ (l.path \in DOMAIN fs /\ Reached(k, l.path)))
  BY LinePath
<1>4. l.path \in Seq(Nat) BY <1>3, DirTyped, TreeTyped
<1>5. z \in Listed(n) \/ (n \in DOMAIN directories /\ z \in Done(stack))
  <2>1. n \in Nat \ {0} BY DEF Typed
  <2>2. n <= Len(directories) => n \in DOMAIN directories BY <1>1, <2>1
  <2>3. Range(out) = Listed(n) \/ (n <= Len(directories) /\ Range(out) = Listed(n) \cup Done(stack))
    BY DEF Output
  <2> QED BY <2>2, <2>3
<1>6. Listed(n) \subseteq Range(out) BY DEF Output
<1>7. CASE k < n BY <1>2, <1>6, <1>7
<1>8. CASE z \in Listed(n) /\ ~(k < n)
  <2>1. PICK h \in DOMAIN directories : h < n /\ z \in Lines(h) /\ z.arg = h BY <1>2, <1>8
  <2>2. z.path \in Seq(Nat) BY <2>1, LinePath, DirTyped, TreeTyped
  <2>3. l.arg < z.arg \/ l.arg = z.arg BY <1>4, <2>2, PrecedesIs
  <2> QED BY <1>1, <1>3, <1>8, <2>1, <2>3
<1>9. CASE n \in DOMAIN directories /\ z \in Done(stack) /\ ~(k < n)
  <2>1. z \in Lines(n) /\ ~PendingIn(stack, z.path) BY <1>9 DEF Done
  <2>2. z.arg = n /\ (z.path = dir(n) \/ (z.path \in DOMAIN fs /\ Reached(n, z.path)))
    BY <1>9, <2>1, LinePath
  <2>3. z.path \in Seq(Nat) /\ dir(n) \in Seq(Nat) BY <1>9, <2>2, DirTyped, TreeTyped
  <2>4. l.arg < z.arg \/ l.arg = z.arg BY <1>4, <2>3, PrecedesIs
  <2>5. k = n BY <1>1, <1>3, <1>9, <2>2, <2>4
  <2>6. CASE ~PendingIn(stack, l.path)
    <3>1. l \in Done(stack) BY <2>5, <2>6 DEF Done
    <3>2. Done(stack) \subseteq Range(out) \/ (stack = <<>> /\ Range(out) = Listed(n))
      BY DEF Output
    <3>3. CASE stack = <<>> /\ Range(out) = Listed(n)
      <4>1. PICK h \in DOMAIN directories : h < n /\ z.arg = h BY <1>2, <3>3
      <4> QED BY <1>1, <2>2, <4>1
    <3> QED BY <3>1, <3>2, <3>3
  <2>7. CASE PendingIn(stack, l.path)
    <3>1. ~PendingIn(stack, dir(n)) BY <1>9, RootPrinted DEF Places, Typed
    <3>2. l.path # dir(n) /\ Reached(n, l.path) /\ l.path # z.path
      BY <1>3, <2>1, <2>5, <2>7, <3>1
    <3>3. PathBefore(z.path, l.path)
      <4>1. CASE z.path = dir(n) BY <4>1, <3>2 DEF Reached, PathBefore
      <4>2. CASE z.path # dir(n)
        <5>1. PICK p \in DOMAIN fs : p = z.path BY <2>2, <4>2
        <5>2. PICK q \in Seq(Nat) : q = l.path BY <1>4
        <5>3. Reached(n, p) /\ ~PendingIn(stack, p) BY <2>1, <2>2, <4>2, <5>1
        <5>4. PathBefore(p, q) BY <2>7, <5>2, <5>3, DoneFirst
        <5> QED BY <5>1, <5>2, <5>4
      <4> QED BY <4>1, <4>2
    <3>4. ~PathBefore(l.path, z.path) BY <1>4, <2>3, <3>3, BeforeAsymmetric
    <3>5. l.arg < z.arg BY <1>4, <2>3, <3>2, <3>4, PrecedesIs
    <3> QED BY <1>1, <1>3, <2>2, <2>5, <3>5
  <2> QED BY <2>6, <2>7
<1> QED BY <1>5, <1>7, <1>8, <1>9

LEMMA WalkedGivesLists == Walked => ListsTheTree
<1> SUFFICES ASSUME Walked, Fits
             PROVE  LET expected == UNION {Lines(k) : k \in DOMAIN directories}
                    IN /\ Range(out) \subseteq expected
                       /\ \A i, j \in DOMAIN out : i < j => Precedes(out[i], out[j])
                       /\ out # <<>> => \A l \in expected :
                            Precedes(l, Last(out)) => l \in Range(out)
                       /\ status = "exited" => expected = Range(out)
                       /\ status = "undefined" => \E k \in DOMAIN directories, p \in DOMAIN fs :
                            Reached(k, p) /\ 2 * (Len(p) - Len(dir(k))) > WIDTH - 3
  BY DEF ListsTheTree
<1> DEFINE expected == UNION {Lines(k) : k \in DOMAIN directories}
<1>1. Typed /\ Places(stack) /\ Output BY DEF Walked
<1>2. n \in Nat /\ n <= Len(directories) + 1 /\ DOMAIN directories = 1 .. Len(directories)
      /\ Len(directories) \in Nat /\ out \in Seq(LineType)
  BY <1>1 DEF Typed, Output
<1>3. /\ \A y \in Listed(n) : \E h \in DOMAIN directories : h < n /\ y \in Lines(h)
      /\ \A h \in DOMAIN directories : h < n => Lines(h) \subseteq Listed(n)
  BY <1>1, <1>2, ListedIs
<1>4. Range(out) \subseteq expected
  <2>1. Listed(n) \subseteq expected BY <1>3
  <2>2. n <= Len(directories) => Done(stack) \subseteq expected
    <3> SUFFICES ASSUME n <= Len(directories) PROVE Done(stack) \subseteq expected
      OBVIOUS
    <3>1. n \in DOMAIN directories BY <1>1 DEF Typed
    <3> QED BY <3>1 DEF Done
  <2>3. Range(out) = Listed(n) \/ (n <= Len(directories) /\ Range(out) = Listed(n) \cup Done(stack))
    BY <1>1 DEF Output
  <2> QED BY <2>1, <2>2, <2>3
<1>5. \A i, j \in DOMAIN out : i < j => Precedes(out[i], out[j])
  BY <1>1 DEF Output, Ordered
<1>6. out # <<>> => \A l \in expected : Precedes(l, Last(out)) => l \in Range(out)
  <2> SUFFICES ASSUME out # <<>>, NEW l \in expected, Precedes(l, Last(out))
               PROVE  l \in Range(out)
    OBVIOUS
  <2>1. PICK k \in DOMAIN directories : l \in Lines(k) OBVIOUS
  <2>2. Last(out) \in Range(out)
    <3>1. Len(out) \in DOMAIN out /\ Last(out) = out[Len(out)] BY <1>2 DEF Last
    <3> QED BY <3>1 DEF Range
  <2> QED BY <1>1, <2>1, <2>2, NothingSkipped
<1>7. status = "exited" => expected = Range(out)
  <2> SUFFICES ASSUME status = "exited" PROVE expected = Range(out)
    OBVIOUS
  <2>1. Range(out) = Listed(n) /\ n > Len(directories) BY <1>1 DEF Output
  <2>2. \A h \in DOMAIN directories : h < n BY <1>2, <2>1
  <2> QED BY <1>3, <1>4, <2>1, <2>2
<1>8. status = "undefined" => \E k \in DOMAIN directories, p \in DOMAIN fs :
        Reached(k, p) /\ 2 * (Len(p) - Len(dir(k))) > WIDTH - 3
  BY <1>1 DEF Output
<1> QED BY <1>4, <1>5, <1>6, <1>7, <1>8

LEMMA AlwaysWalked == Spec => []Walked
<1>1. Init => Walked BY InitWalked
<1>2. Walked /\ [Next]_vars => Walked' BY NextWalked
<1> QED BY <1>1, <1>2, PTL DEF Spec

\* Whatever order readdir and qsort choose and wherever the program stops, what
\* it has printed is an initial part of the promised listing, in its order, and
\* all of it when the program has exited.
THEOREM DirTreeListsTheTree == Spec => []ListsTheTree
<1>1. Walked => ListsTheTree BY WalkedGivesLists
<1> QED BY <1>1, AlwaysWalked, PTL

-----------------------------------------------------------------------------
(* The statistics.                                                         *)

Visited(s) == {p \in DOMAIN fs : Reached(n, p) /\ ~PendingIn(s, p)}

Sizes == [p \in DOMAIN fs |-> fs[p].size]
CountOf(c, S) ==
  IF c = "size" THEN SumFunctionOnSet(Sizes, {p \in S : HasMetadata(p)})
  ELSE Cardinality({p \in S : ClassOf(p) = c})
CountsOne(c, p) ==
  IF c = "size" THEN IF HasMetadata(p) THEN fs[p].size ELSE 0
  ELSE IF ClassOf(p) = c THEN 1 ELSE 0

LEMMA CountsAre ==
  ASSUME Typed, NEW k, NEW c \in DOMAIN Zero
  PROVE  Counts(k)[c] = CountOf(c, {p \in DOMAIN fs : Reached(k, p)})
<1> DEFINE reached == {p \in DOMAIN fs : Reached(k, p)}
           known == {q \in reached : HasMetadata(q)}
           sizes == [p \in known |-> fs[p].size]
<1>1. Counts(k)[c] = IF c = "size" THEN SumFunction(sizes)
                     ELSE Cardinality({p \in reached : ClassOf(p) = c})
  BY DEF Counts
<1>2. SumFunction(sizes) = SumFunctionOnSet(Sizes, known)
  <2>1. DOMAIN sizes = known /\ \A p \in known : sizes[p] = Sizes[p] BY DEF Sizes
  <2>2. IsFiniteSet(known)
    <3>1. known \in SUBSET DOMAIN fs OBVIOUS
    <3> QED BY <3>1, TreeTyped, FS_Subset
  <2>3. SumFunction(sizes) = SumFunctionOnSet(sizes, known) BY <2>1 DEF SumFunction
  <2> HIDE DEF sizes, known
  <2>4. SumFunctionOnSet(sizes, known) = SumFunctionOnSet(Sizes, known) BY <2>1, <2>2, SumSame
  <2> QED BY <2>3, <2>4
<1> QED BY <1>1, <1>2 DEF CountOf

LEMMA CountNat ==
  ASSUME Typed, NEW S \in SUBSET DOMAIN fs, NEW c
  PROVE  CountOf(c, S) \in Nat /\ IsFiniteSet(S)
<1>1. IsFiniteSet(S) BY TreeTyped, FS_Subset
<1>2. PICK T : T = {p \in S : HasMetadata(p)} OBVIOUS
<1>3. IsFiniteSet(T) /\ \A p \in T : Sizes[p] \in Nat
  <2>1. IsFiniteSet(T) BY <1>1, <1>2, FS_Subset
  <2>2. \A p \in DOMAIN fs : Sizes[p] \in Nat BY TreeTyped DEF Sizes, Metadata
  <2> QED BY <1>2, <2>1, <2>2
<1>4. SumFunctionOnSet(Sizes, T) \in Nat BY <1>3, SumNat
<1>5. Cardinality({p \in S : ClassOf(p) = c}) \in Nat
  <2>1. {p \in S : ClassOf(p) = c} \in SUBSET S OBVIOUS
  <2> QED BY <1>1, <2>1, FS_Subset, FS_CardinalityType
<1> QED BY <1>1, <1>2, <1>4, <1>5 DEF CountOf

\* One path more.
LEMMA CountAdd ==
  ASSUME Typed, NEW S \in SUBSET DOMAIN fs, NEW e \in DOMAIN fs, e \notin S, NEW c
  PROVE  CountOf(c, S \cup {e}) = CountOf(c, S) + CountsOne(c, e)
<1>1. IsFiniteSet(S) BY CountNat
<1>2. CASE c = "size"
  <2>1. PICK T : T = {p \in S : HasMetadata(p)} OBVIOUS
  <2>2. PICK V : V = {p \in S \cup {e} : HasMetadata(p)} OBVIOUS
  <2>3. V = IF HasMetadata(e) THEN T \cup {e} ELSE T BY <2>1, <2>2
  <2>4. IsFiniteSet(T) /\ e \notin T
    <3>1. IsFiniteSet(T) BY <1>1, <2>1, FS_Subset
    <3> QED BY <2>1, <3>1
  <2>5. \A p \in DOMAIN fs : Sizes[p] = fs[p].size /\ Sizes[p] \in Nat
    BY TreeTyped DEF Sizes, Metadata
  <2>6. CountOf(c, S) = SumFunctionOnSet(Sizes, T) /\ CountOf(c, S \cup {e}) = SumFunctionOnSet(Sizes, V)
    BY <1>2, <2>1, <2>2 DEF CountOf
  <2>7. CASE HasMetadata(e)
    <3>1. \A p \in T \cup {e} : Sizes[p] \in Nat BY <2>1, <2>5
    <3>2. SumFunctionOnSet(Sizes, T \cup {e}) = SumFunctionOnSet(Sizes, T) + Sizes[e]
      BY <2>4, <3>1, SumAdd
    <3> QED BY <1>2, <2>3, <2>5, <2>6, <2>7, <3>2 DEF CountsOne
  <2>8. CASE ~HasMetadata(e)
    <3>1. CountOf(c, S) \in Nat BY CountNat
    <3> QED BY <1>2, <2>3, <2>6, <2>8, <3>1 DEF CountsOne
  <2> QED BY <2>7, <2>8
<1>3. CASE c # "size"
  <2>1. PICK T : T = {p \in S : ClassOf(p) = c} OBVIOUS
  <2>2. PICK V : V = {p \in S \cup {e} : ClassOf(p) = c} OBVIOUS
  <2>3. V = IF ClassOf(e) = c THEN T \cup {e} ELSE T BY <2>1, <2>2
  <2>4. IsFiniteSet(T) /\ e \notin T
    <3>1. IsFiniteSet(T) BY <1>1, <2>1, FS_Subset
    <3> QED BY <2>1, <3>1
  <2>5. Cardinality(T \cup {e}) = Cardinality(T) + 1 /\ Cardinality(T) \in Nat
    BY <2>4, FS_AddElement, FS_CardinalityType
  <2>6. CountOf(c, S) = Cardinality(T) /\ CountOf(c, S \cup {e}) = Cardinality(V)
    BY <1>3, <2>1, <2>2 DEF CountOf
  <2>7. CASE ClassOf(e) = c BY <1>3, <2>3, <2>5, <2>6, <2>7 DEF CountsOne
  <2>8. CASE ClassOf(e) # c BY <1>3, <2>3, <2>5, <2>6, <2>8 DEF CountsOne
  <2> QED BY <2>7, <2>8
<1> QED BY <1>2, <1>3

LEMMA CountNothing ==
  ASSUME NEW c
  PROVE  CountOf(c, {}) = 0
<1>1. {p \in {} : HasMetadata(p)} = {} /\ {p \in {} : ClassOf(p) = c} = {} OBVIOUS
<1>2. SumFunctionOnSet(Sizes, {}) = 0 BY SumEmpty
<1>3. Cardinality({}) = 0 BY FS_EmptySet
<1> QED BY <1>1, <1>2, <1>3 DEF CountOf

\* The summary of an argument, and the grand total.
Summed(c) == [d \in DOMAIN directories |-> Counts(d)[c]]
Grand == [c \in DOMAIN Zero |-> SumFunction(Summed(c))]
Expected(k) == Printed(IF k \in DOMAIN directories THEN Counts(k) ELSE Grand)
Tallies(d, S) == \A c \in DOMAIN Zero : d[c] = CountOf(c, S)

Tally ==
  /\ status = "walk" => Tallies(dstat, Visited(stack))
  /\ status \in {"start", "main", "walk"} =>
       /\ Len(printed) = IF "s" \in flags THEN n - 1 ELSE 0
       /\ "s" \in flags => \A c \in Wanted : tstat[c] = SumFunctionOnSet(Summed(c), 1 .. (n - 1))
  /\ \A k \in DOMAIN printed : printed[k] = Expected(k)

Totalled == Walked /\ (Fits => Tally)

LEMMA CountsPrime ==
  ASSUME UNCHANGED <<fs, directories>>
  PROVE  /\ \A k : Counts(k)' = Counts(k)
         /\ \A c : Summed(c)' = Summed(c)
<1>1. \A k : Counts(k)' = Counts(k)
  BY DEF Counts, ClassOf, Reached, Above, dir, Opens, HasMetadata
<1> QED BY <1>1 DEF Summed

LEMMA ExpectedPrime ==
  ASSUME UNCHANGED <<fs, flags, directories>>
  PROVE  \A k : Expected(k)' = Expected(k)
<1>1. \A c : Summed(c)' = Summed(c) BY CountsPrime
<1>2. Grand' = Grand BY <1>1 DEF Grand, Zero, Class
<1>3. \A k : Counts(k)' = Counts(k) BY CountsPrime
<1>4. \A r : Printed(r)' = Printed(r) BY DEF Printed, Wanted, Zero, Class
<1> QED BY <1>2, <1>3, <1>4 DEF Expected, Printed, Wanted

LEMMA TalliesPrime ==
  ASSUME UNCHANGED <<fs, directories, n>>, NEW t, t = stack', NEW d, d = dstat'
  PROVE  Tallies(dstat, Visited(stack))' <=> Tallies(d, Visited(t))
<1>1. PICK V : V = Visited(t) OBVIOUS
<1>2. Visited(stack)' = V
  <2>1. \A p : PendingIn(stack, p)' <=> PendingIn(t, p)
    BY DEF PendingIn, Remaining, Children
  <2>2. PICK k : k = n OBVIOUS
  <2>3. \A p : Reached(n, p)' <=> Reached(k, p)
    BY <2>2 DEF Reached, Above, dir, Opens, HasMetadata
  <2> QED BY <1>1, <2>1, <2>2, <2>3 DEF Visited
<1>3. \A c : CountOf(c, V)' = CountOf(c, V)
  BY DEF CountOf, Sizes, ClassOf, HasMetadata
<1>4. \A c : CountOf(c, Visited(stack))' = CountOf(c, V)
  BY <1>2, <1>3 DEF CountOf
<1> QED BY <1>1, <1>4 DEF Tallies, Zero

LEMMA SameVisited ==
  ASSUME NEW t, \A p \in DOMAIN fs : PendingIn(t, p) <=> PendingIn(stack, p)
  PROVE  Visited(t) = Visited(stack)
BY DEF Visited

\* A step that leaves the statistics alone.
LEMMA SameTally ==
  ASSUME Tally, UNCHANGED <<fs, flags, directories, n, dstat, tstat, printed>>,
         NEW t, t = stack',
         status' = "walk" => status = "walk" /\ Visited(t) = Visited(stack),
         status' \in {"start", "main"} => status' = status
  PROVE  Tally'
<1>1. status' = "walk" => Tallies(dstat, Visited(stack))'
  <2> SUFFICES ASSUME status' = "walk" PROVE Tallies(dstat, Visited(stack))'
    OBVIOUS
  <2>1. Tallies(dstat, Visited(t)) BY DEF Tally
  <2>2. PICK d : d = dstat' OBVIOUS
  <2>3. d = dstat BY <2>2
  <2> QED BY <2>1, <2>2, <2>3, TalliesPrime
<1>2. status' \in {"start", "main", "walk"} => status \in {"start", "main", "walk"}
  OBVIOUS
<1>3. (Len(printed) = IF "s" \in flags THEN n - 1 ELSE 0)'
      <=> Len(printed) = IF "s" \in flags THEN n - 1 ELSE 0
  OBVIOUS
<1>4. (\A c \in Wanted : tstat[c] = SumFunctionOnSet(Summed(c), 1 .. (n - 1)))'
      <=> \A c \in Wanted : tstat[c] = SumFunctionOnSet(Summed(c), 1 .. (n - 1))
  <2>1. Wanted' = Wanted BY DEF Wanted, Zero
  <2>2. \A c : Summed(c)' = Summed(c) BY CountsPrime
  <2>3. n' = n /\ tstat' = tstat OBVIOUS
  <2> QED BY <2>1, <2>2, <2>3
<1>5. (\A k \in DOMAIN printed : printed[k] = Expected(k))'
  <2>1. \A k : Expected(k)' = Expected(k) BY ExpectedPrime
  <2>2. printed' = printed OBVIOUS
  <2>3. \A k \in DOMAIN printed : printed[k] = Expected(k) BY DEF Tally
  <2> QED BY <2>1, <2>2, <2>3
<1>6. flags' = flags OBVIOUS
<1> QED BY <1>1, <1>2, <1>3, <1>4, <1>5, <1>6 DEF Tally

LEMMA WalkTally == Totalled /\ Fits /\ (ReadEntry \/ Sort \/ Return) => Tally'
<1> SUFFICES ASSUME Totalled, Fits, ReadEntry \/ Sort \/ Return PROVE Tally'
  OBVIOUS
<1>1. Tally /\ Typed /\ Places(stack) BY DEF Totalled, Walked
<1>2. UNCHANGED <<fs, flags, directories, n, dstat, tstat, printed, status>>
  BY DEF ReadEntry, Sort, Return, mainVars, statVars
<1>3. PICK t : t = stack' OBVIOUS
<1>4. \A p : PendingIn(t, p) <=> PendingIn(stack, p)
  BY <1>1, <1>3, ReadEntryPending, SortPending, ReturnPending
<1>5. Visited(t) = Visited(stack) BY <1>4, SameVisited
<1> QED BY <1>1, <1>2, <1>3, <1>5, SameTally

LEMMA StopTally == Tally /\ (Overrun \/ Panic \/ UNCHANGED vars) => Tally'
<1> SUFFICES ASSUME Tally, Overrun \/ Panic \/ UNCHANGED vars PROVE Tally'
  OBVIOUS
<1>1. UNCHANGED <<fs, flags, directories, n, dstat, tstat, printed, stack>>
  BY DEF Overrun, Panic, vars, mainVars, statVars
<1>2. status' = status \/ status' \in {"undefined", "failed"}
  BY DEF Overrun, Panic, vars
<1>3. PICK t : t = stack' OBVIOUS
<1>4. Visited(t) = Visited(stack) BY <1>1, <1>3
<1>5. status' = "walk" => status = "walk" /\ Visited(t) = Visited(stack) BY <1>2, <1>4
<1>6. status' \in {"start", "main"} => status' = status BY <1>2
<1> QED BY <1>1, <1>3, <1>5, <1>6, SameTally

LEMMA ParseTally == Totalled /\ Fits /\ Parse => Tally'
<1> SUFFICES ASSUME Totalled, Fits, Parse PROVE Tally'
  OBVIOUS
<1>1. /\ Tally /\ Output /\ Typed /\ status = "start" /\ status' \in {"main", "failed"}
      /\ UNCHANGED <<flags, n, tstat, printed>>
  BY DEF Totalled, Walked, Parse, mainVars, statVars
<1>2. n = 1 BY <1>1 DEF Output
<1>3. Len(printed) = 0
  <2>1. Len(printed) = IF "s" \in flags THEN n - 1 ELSE 0 BY <1>1 DEF Tally
  <2> QED BY <1>2, <2>1
<1>4. DOMAIN printed' = {} /\ Len(printed') = 0 BY <1>1, <1>3 DEF Typed
<1>5. 1 .. (n - 1) = {} BY <1>2
<1>6. "s" \in flags' => (\A c \in Wanted : tstat[c] = SumFunctionOnSet(Summed(c), 1 .. (n - 1)))'
  <2> SUFFICES ASSUME "s" \in flags, NEW c \in Wanted'
               PROVE  tstat'[c] = SumFunctionOnSet(Summed(c)', 1 .. (n' - 1))
    BY <1>1
  <2>1. c \in Wanted BY <1>1 DEF Wanted, Zero
  <2>2. tstat[c] = SumFunctionOnSet(Summed(c), {}) BY <1>1, <1>5, <2>1 DEF Tally
  <2>3. tstat[c] = 0 BY <2>2, SumEmpty
  <2>4. 1 .. (n' - 1) = {} BY <1>1, <1>5
  <2>5. PICK f : f = Summed(c)' OBVIOUS
  <2>6. SumFunctionOnSet(f, {}) = 0 BY SumEmpty
  <2> QED BY <1>1, <2>3, <2>4, <2>5, <2>6
<1>7. Len(printed') = IF "s" \in flags' THEN n' - 1 ELSE 0 BY <1>1, <1>2, <1>4
<1> QED BY <1>1, <1>4, <1>6, <1>7 DEF Tally

LEMMA DirectoryTally == Totalled /\ Fits /\ Directory => Tally'
<1> SUFFICES ASSUME Totalled, Fits, Directory PROVE Tally'
  OBVIOUS
<1>1. /\ Tally /\ Typed /\ n \in DOMAIN directories /\ status = "main" /\ status' = "walk"
      /\ UNCHANGED <<fs, flags, directories, n>>
  BY DirectoryCases DEF Totalled, Walked
<1>2. UNCHANGED <<tstat, printed>> /\ dstat' = Zero BY DEF Directory
<1>3. PICK t : t = stack' OBVIOUS
<1>4. Visited(t) = {}
  <2>1. /\ Opens(dir(n), 0) => t = <<New(dir(n))>>
        /\ ~Opens(dir(n), 0) => t = <<>>
    BY <1>1, <1>3, DirectoryCases
  <2>2. \A p \in DOMAIN fs : Reached(n, p) => PendingIn(t, p)
    BY <1>1, <2>1, RootPending
  <2> QED BY <2>2 DEF Visited
<1>5. Tallies(dstat, Visited(stack))'
  <2>1. PICK d : d = dstat' OBVIOUS
  <2>2. Tallies(d, Visited(t)) BY <1>2, <1>4, <2>1, CountNothing DEF Tallies, Zero
  <2> QED BY <1>1, <1>3, <2>1, <2>2, TalliesPrime
<1>6. Len(printed') = IF "s" \in flags' THEN n' - 1 ELSE 0 BY <1>1, <1>2 DEF Tally
<1>7. "s" \in flags' => (\A c \in Wanted : tstat[c] = SumFunctionOnSet(Summed(c), 1 .. (n - 1)))'
  <2>1. Wanted' = Wanted BY <1>1 DEF Wanted, Zero
  <2>2. \A c : Summed(c)' = Summed(c) BY <1>1, CountsPrime
  <2>3. "s" \in flags => \A c \in Wanted : tstat[c] = SumFunctionOnSet(Summed(c), 1 .. (n - 1))
    BY <1>1 DEF Tally
  <2>4. n' = n /\ tstat' = tstat /\ flags' = flags BY <1>1, <1>2
  <2> QED BY <2>1, <2>2, <2>3, <2>4
<1>8. (\A k \in DOMAIN printed : printed[k] = Expected(k))'
  <2>1. \A k : Expected(k)' = Expected(k) BY <1>1, ExpectedPrime
  <2>2. \A k \in DOMAIN printed : printed[k] = Expected(k) BY <1>1 DEF Tally
  <2> QED BY <1>2, <2>1, <2>2
<1> QED BY <1>1, <1>5, <1>6, <1>7, <1>8 DEF Tally

LEMMA EntryTally == Totalled /\ Fits /\ (Entry \/ NoMetadata) => Tally'
<1> SUFFICES ASSUME Totalled, Fits, Entry \/ NoMetadata PROVE Tally'
  OBVIOUS
<1>1. /\ Tally /\ Typed /\ Places(stack) /\ AtEntry /\ status = "walk" /\ status' = "walk"
      /\ UNCHANGED <<fs, flags, directories, n, tstat, printed>>
  BY DEF Totalled, Walked, Entry, NoMetadata, AtEntry, mainVars
<1>2. PICK t : t = stack' OBVIOUS
<1>3. PICK e : e = entry OBVIOUS
<1>4. e \in DOMAIN fs /\ Reached(n, e) /\ PendingIn(stack, e) /\ Front(e) = top.dn
      /\ fs[e] \in Metadata
  <2>1. e \in Seq(Nat) /\ e \in DOMAIN fs /\ fs[e] \in Metadata BY <1>1, <1>3, EntryLemma
  <2>2. PendingIn(stack, e) BY <1>1, <1>3, <2>1, EntryIsPending
  <2>3. Front(e) = top.dn BY <1>1, <1>3, EntryLemma, AppendIs DEF entry
  <2> QED BY <1>1, <1>3, <2>1, <2>2, <2>3, EntryReached
<1>5. PICK S : S = Visited(stack) OBVIOUS
<1>6. Visited(t) = S \cup {e} /\ e \notin S /\ S \in SUBSET DOMAIN fs
  <2>1. \A p \in DOMAIN fs : Reached(n, p) =>
          (PendingIn(t, p) <=> PendingIn(stack, p) /\ p # e)
    BY <1>1, <1>2, <1>3, EntryPending
  <2> QED BY <1>4, <1>5, <2>1 DEF Visited
<1>7. PICK d : d = dstat' OBVIOUS
<1>8. DOMAIN dstat = DOMAIN Zero /\ \A c \in DOMAIN Zero : dstat[c] \in Nat
  BY <1>1 DEF Typed, Statistics
<1>9. \A c \in DOMAIN Zero : d[c] = dstat[c] + CountsOne(c, e)
  <2>1. CASE Entry
    <3>1. HasMetadata(e) /\ ClassOf(e) = fs[e].type
      BY <1>4, <2>1 DEF Entry, HasMetadata, ClassOf
    <3>2. d = Counted(dstat, fs[e]) BY <1>3, <1>7, <2>1 DEF Entry
    <3>3. \A c \in DOMAIN Zero :
            d[c] = IF c = "size" THEN dstat[c] + fs[e].size
                   ELSE IF c = fs[e].type THEN dstat[c] + 1 ELSE dstat[c]
      BY <1>8, <3>2 DEF Counted
    <3>4. \A c \in DOMAIN Zero :
            CountsOne(c, e) = IF c = "size" THEN fs[e].size ELSE IF fs[e].type = c THEN 1 ELSE 0
      BY <3>1 DEF CountsOne
    <3> QED BY <1>8, <3>3, <3>4
  <2>2. CASE NoMetadata
    <3>1. ~HasMetadata(e) /\ ClassOf(e) = "file"
      BY <1>4, <2>2 DEF NoMetadata, HasMetadata, ClassOf
    <3>2. \A c \in DOMAIN Zero : d[c] = IF c = "file" THEN dstat[c] + 1 ELSE dstat[c]
      BY <1>7, <1>8, <2>2 DEF NoMetadata
    <3>3. \A c \in DOMAIN Zero : CountsOne(c, e) = IF c = "file" THEN 1 ELSE 0
      BY <3>1 DEF CountsOne
    <3> QED BY <1>8, <3>2, <3>3
  <2> QED BY <2>1, <2>2
<1>10. Tallies(d, Visited(t))
  <2>1. \A c \in DOMAIN Zero : dstat[c] = CountOf(c, S) BY <1>1, <1>5 DEF Tally, Tallies
  <2>2. \A c \in DOMAIN Zero : CountOf(c, S \cup {e}) = CountOf(c, S) + CountsOne(c, e)
    BY <1>1, <1>4, <1>6, CountAdd
  <2> QED BY <1>6, <1>9, <2>1, <2>2 DEF Tallies
<1>11. Tallies(dstat, Visited(stack))' BY <1>1, <1>2, <1>7, <1>10, TalliesPrime
<1>12. Len(printed') = IF "s" \in flags' THEN n' - 1 ELSE 0 BY <1>1 DEF Tally
<1>13. "s" \in flags' => (\A c \in Wanted : tstat[c] = SumFunctionOnSet(Summed(c), 1 .. (n - 1)))'
  <2>1. Wanted' = Wanted BY <1>1 DEF Wanted, Zero
  <2>2. \A c : Summed(c)' = Summed(c) BY <1>1, CountsPrime
  <2>3. "s" \in flags => \A c \in Wanted : tstat[c] = SumFunctionOnSet(Summed(c), 1 .. (n - 1))
    BY <1>1 DEF Tally
  <2>4. n' = n /\ tstat' = tstat /\ flags' = flags BY <1>1
  <2> QED BY <2>1, <2>2, <2>3, <2>4
<1>14. (\A k \in DOMAIN printed : printed[k] = Expected(k))'
  <2>1. \A k : Expected(k)' = Expected(k) BY <1>1, ExpectedPrime
  <2>2. \A k \in DOMAIN printed : printed[k] = Expected(k) BY <1>1 DEF Tally
  <2> QED BY <1>1, <2>1, <2>2
<1> QED BY <1>1, <1>11, <1>12, <1>13, <1>14 DEF Tally

LEMMA PrintedIs ==
  ASSUME NEW r, NEW s, \A c \in Wanted : r[c] = s[c]
  PROVE  Printed(r) = Printed(s)
BY DEF Printed, Restrict

\* One summary more.
LEMMA AppendExpected ==
  ASSUME Typed, UNCHANGED <<fs, flags, directories>>, NEW k, k = Len(printed) + 1,
         NEW r, r = Expected(k), printed' = Append(printed, r),
         \A j \in DOMAIN printed : printed[j] = Expected(j)
  PROVE  /\ (\A j \in DOMAIN printed : printed[j] = Expected(j))'
         /\ Len(printed') = k
<1>1. printed \in Seq(Summaries) BY DEF Typed
<1>2. PICK o : o = printed' OBVIOUS
<1>3. /\ DOMAIN o = 1 .. k /\ Len(o) = k /\ o[k] = r
      /\ \A j \in DOMAIN o : j \in DOMAIN printed \/ j = k
      /\ \A j \in DOMAIN printed : o[j] = printed[j]
  BY <1>1, <1>2
<1>4. \A j : Expected(j)' = Expected(j) BY ExpectedPrime
<1>5. \A j \in DOMAIN o : o[j] = Expected(j) BY <1>3
<1> QED BY <1>2, <1>3, <1>4, <1>5

LEMMA SummaryTally == Totalled /\ Fits /\ Summary => Tally'
<1> SUFFICES ASSUME Totalled, Fits, Summary PROVE Tally'
  OBVIOUS
<1>1. /\ Tally /\ Typed /\ Output /\ status = "walk" /\ status' = "main" /\ n' = n + 1
      /\ UNCHANGED <<fs, flags, directories>> /\ stack = <<>>
  BY DEF Totalled, Walked, Summary, mainVars
<1>2. n \in Nat \ {0} /\ n \in DOMAIN directories
  <2>1. n <= Len(directories) BY <1>1 DEF Output
  <2> QED BY <1>1, <2>1 DEF Typed
<1>3. \A c \in DOMAIN Zero : dstat[c] = Counts(n)[c]
  <2>1. Visited(stack) = {p \in DOMAIN fs : Reached(n, p)}
    BY <1>1 DEF Visited, PendingIn
  <2> QED BY <1>1, <2>1, CountsAre DEF Tally, Tallies
<1>4. Wanted \subseteq DOMAIN Zero BY DEF Wanted, Zero, Class
<1>5. CASE "s" \notin flags
  <2>1. printed' = printed BY <1>5 DEF Summary
  <2>2. \A k : Expected(k)' = Expected(k) BY <1>1, ExpectedPrime
  <2>3. (\A k \in DOMAIN printed : printed[k] = Expected(k))'
    <3>1. \A k \in DOMAIN printed : printed[k] = Expected(k) BY <1>1 DEF Tally
    <3> QED BY <2>1, <2>2, <3>1
  <2>4. Len(printed) = 0 BY <1>1, <1>5 DEF Tally
  <2> QED BY <1>1, <1>5, <2>1, <2>3, <2>4 DEF Tally
<1>6. CASE "s" \in flags
  <2>1. /\ printed' = Append(printed, Printed(dstat))
        /\ tstat' = [c \in DOMAIN tstat |-> IF c \in Wanted THEN tstat[c] + dstat[c] ELSE tstat[c]]
    BY <1>6 DEF Summary
  <2>2. Printed(dstat) = Expected(n)
    <3>1. Printed(dstat) = Printed(Counts(n)) BY <1>3, <1>4, PrintedIs
    <3> QED BY <1>2, <3>1 DEF Expected
  <2>3. Len(printed) = n - 1 /\ \A k \in DOMAIN printed : printed[k] = Expected(k)
    BY <1>1, <1>6 DEF Tally
  <2>4. n = Len(printed) + 1 BY <1>2, <2>3
  <2>5. (\A k \in DOMAIN printed : printed[k] = Expected(k))' /\ Len(printed') = n
    <3>1. PICK k : k = n OBVIOUS
    <3>2. PICK r : r = Printed(dstat) OBVIOUS
    <3> QED BY <1>1, <2>1, <2>2, <2>3, <2>4, <3>1, <3>2, AppendExpected
  <2>6. (\A c \in Wanted : tstat[c] = SumFunctionOnSet(Summed(c), 1 .. (n - 1)))'
    <3>1. Wanted' = Wanted BY <1>1 DEF Wanted, Zero
    <3>2. \A c : Summed(c)' = Summed(c) BY <1>1, CountsPrime
    <3>3. ASSUME NEW c \in Wanted
          PROVE  tstat'[c] = SumFunctionOnSet(Summed(c), 1 .. n)
      <4>1. c \in DOMAIN Zero /\ c \in DOMAIN tstat BY <1>1, <1>4 DEF Typed, Statistics
      <4>2. tstat'[c] = tstat[c] + dstat[c] BY <2>1, <4>1
      <4>3. PICK f : f = Summed(c) OBVIOUS
      <4>4. \A k \in DOMAIN directories : f[k] = Counts(k)[c] /\ f[k] \in Nat
        <5>1. \A k \in DOMAIN directories : f[k] = Counts(k)[c] BY <4>3 DEF Summed
        <5>2. \A k : Counts(k)[c] \in Nat
          <6> TAKE k
          <6>1. PICK T : T = {p \in DOMAIN fs : Reached(k, p)} OBVIOUS
          <6>2. CountOf(c, T) \in Nat BY <1>1, <6>1, CountNat
          <6> QED BY <1>1, <4>1, <6>1, <6>2, CountsAre
        <5> QED BY <5>1, <5>2
      <4>5. PICK R : R = 1 .. (n - 1) OBVIOUS
      <4>6. n \notin R /\ IsFiniteSet(R) /\ 1 .. n = R \cup {n} /\ R \cup {n} \subseteq DOMAIN directories
        <5>1. IsFiniteSet(R) BY <1>2, <4>5, FS_Interval
        <5>2. 1 .. n = R \cup {n} /\ n \notin R BY <1>2, <4>5
        <5>3. DOMAIN directories = 1 .. Len(directories) /\ Len(directories) \in Nat
          BY <1>1 DEF Typed
        <5> QED BY <5>1, <5>2, <5>3, <1>2
      <4>7. SumFunctionOnSet(f, R \cup {n}) = SumFunctionOnSet(f, R) + f[n]
        BY <4>4, <4>6, SumAdd
      <4>8. tstat[c] = SumFunctionOnSet(f, R) BY <1>1, <1>6, <4>3, <4>5 DEF Tally
      <4>9. dstat[c] = f[n] BY <1>2, <1>3, <4>1, <4>4
      <4> QED BY <4>2, <4>3, <4>6, <4>7, <4>8, <4>9
    <3>4. n' - 1 = n BY <1>1, <1>2
    <3> QED BY <3>1, <3>2, <3>3, <3>4
  <2>7. Len(printed') = n' - 1 BY <1>1, <1>2, <2>5
  <2> QED BY <1>1, <1>6, <2>5, <2>6, <2>7 DEF Tally
<1> QED BY <1>5, <1>6

LEMMA TotalTally == Totalled /\ Fits /\ Total => Tally'
<1> SUFFICES ASSUME Totalled, Fits, Total PROVE Tally'
  OBVIOUS
<1>1. /\ Tally /\ Typed /\ Output /\ status = "main" /\ status' = "exited"
      /\ n > Len(directories) /\ UNCHANGED <<fs, flags, directories>>
  BY DEF Totalled, Walked, Total, mainVars
<1>2. n \in Nat /\ n - 1 = Len(directories) /\ DOMAIN directories = 1 .. (n - 1)
      /\ n \notin DOMAIN directories
  <2>1. n <= Len(directories) + 1 BY <1>1 DEF Output
  <2>2. n \in Nat /\ Len(directories) \in Nat /\ DOMAIN directories = 1 .. Len(directories)
    BY <1>1 DEF Typed
  <2>3. n - 1 = Len(directories) BY <1>1, <2>1, <2>2
  <2> QED BY <1>1, <2>2, <2>3
<1>3. \A k \in DOMAIN printed : printed[k] = Expected(k) BY <1>1 DEF Tally
<1>4. (\A k \in DOMAIN printed : printed[k] = Expected(k))'
  <2>1. CASE printed' = printed
    <3>1. \A k : Expected(k)' = Expected(k) BY <1>1, ExpectedPrime
    <3> QED BY <1>3, <2>1, <3>1
  <2>2. CASE "s" \in flags /\ printed' = Append(printed, Printed(tstat))
    <3>1. Len(printed) = n - 1 BY <1>1, <2>2 DEF Tally
    <3>2. \A c \in Wanted : tstat[c] = Grand[c]
      <4> TAKE c \in Wanted
      <4>1. c \in DOMAIN Zero BY DEF Wanted, Zero, Class
      <4>2. Grand[c] = SumFunction(Summed(c)) BY <4>1 DEF Grand
      <4>3. DOMAIN Summed(c) = 1 .. (n - 1) BY <1>2 DEF Summed
      <4>4. SumFunction(Summed(c)) = SumFunctionOnSet(Summed(c), 1 .. (n - 1))
        BY <4>3 DEF SumFunction
      <4> QED BY <1>1, <2>2, <4>2, <4>4 DEF Tally
    <3>3. Printed(tstat) = Expected(n) BY <1>2, <3>2, PrintedIs DEF Expected
    <3>4. PICK k : k = n OBVIOUS
    <3>5. PICK r : r = Printed(tstat) OBVIOUS
    <3>6. k = Len(printed) + 1 BY <1>2, <3>1, <3>4
    <3> QED BY <1>1, <1>3, <2>2, <3>3, <3>4, <3>5, <3>6, AppendExpected
  <2> QED BY <2>1, <2>2 DEF Total
<1> QED BY <1>1, <1>4 DEF Tally

LEMMA InitTotalled == Init => Totalled
<1> SUFFICES ASSUME Init PROVE Totalled
  OBVIOUS
<1>1. Walked BY InitWalked
<1>2. n = 1 /\ printed = <<>> /\ tstat = Zero /\ status = "start" BY DEF Init
<1>3. \A c \in Wanted : tstat[c] = SumFunctionOnSet(Summed(c), 1 .. (n - 1))
  <2>1. 1 .. (n - 1) = {} BY <1>2
  <2>2. \A c \in Wanted : c \in DOMAIN Zero BY DEF Wanted, Zero, Class
  <2>3. \A c \in Wanted : tstat[c] = 0 BY <1>2, <2>2 DEF Zero
  <2> QED BY <2>1, <2>3, SumEmpty
<1>4. Len(printed) = 0 /\ DOMAIN printed = {} /\ n - 1 = 0 BY <1>2
<1>5. Tally BY <1>2, <1>3, <1>4 DEF Tally
<1> QED BY <1>1, <1>5 DEF Totalled

LEMMA NextTotalled == Totalled /\ [Next]_vars => Totalled'
<1> SUFFICES ASSUME Totalled, [Next]_vars PROVE Totalled'
  OBVIOUS
<1>1. Walked' BY NextWalked DEF Totalled
<1>2. Fits' <=> Fits
  <2>1. fs' = fs
    BY EntryCases DEF Next, vars, mainVars, Parse, Directory, ReadEntry, Sort, Overrun,
       NoMetadata, Entry, Return, Summary, Total, Panic
  <2> QED BY <2>1 DEF Fits, Children
<1>3. ASSUME Fits PROVE Tally'
  <2>1. CASE Parse BY <1>3, <2>1, ParseTally
  <2>2. CASE Directory BY <1>3, <2>2, DirectoryTally
  <2>3. CASE ReadEntry \/ Sort \/ Return BY <1>3, <2>3, WalkTally
  <2>4. CASE Overrun \/ Panic \/ UNCHANGED vars BY <1>3, <2>4, StopTally DEF Totalled
  <2>5. CASE Entry \/ NoMetadata BY <1>3, <2>5, EntryTally
  <2>6. CASE Summary BY <1>3, <2>6, SummaryTally
  <2>7. CASE Total BY <1>3, <2>7, TotalTally
  <2> QED BY <2>1, <2>2, <2>3, <2>4, <2>5, <2>6, <2>7 DEF Next
<1> QED BY <1>1, <1>2, <1>3 DEF Totalled

LEMMA TotalledGivesCounts == Totalled => CountsTheTree
<1> SUFFICES ASSUME Totalled, Fits, NEW k \in DOMAIN printed
             PROVE  printed[k] = Printed(IF k \in DOMAIN directories THEN Counts(k)
                       ELSE [c \in DOMAIN Zero |->
                               SumFunction([d \in DOMAIN directories |-> Counts(d)[c]])])
  BY DEF CountsTheTree
<1>1. printed[k] = Expected(k) BY DEF Totalled, Tally
<1> QED BY <1>1 DEF Expected, Grand, Summed

\* However the entries are read and whatever may not be looked at: each summary
\* counts every entry reached from its own directory once and in its class, and
\* the grand total is the sum of the summaries.
THEOREM DirTreeCountsTheTree == Spec => []CountsTheTree
<1>1. Init => Totalled BY InitTotalled
<1>2. Totalled /\ [Next]_vars => Totalled' BY NextTotalled
<1>3. Totalled => CountsTheTree BY TotalledGivesCounts
<1> QED BY <1>1, <1>2, <1>3, PTL DEF Spec
=============================================================================

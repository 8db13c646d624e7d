--------------------------- MODULE ColumnsProofs ---------------------------
(***************************************************************************)
(* Proofs about Columns: the columns mirror git, and what is read-only     *)
(* stays, for any repository and arguments, any sizes of the terminal and  *)
(* any number of operations.                                               *)
(***************************************************************************)
EXTENDS Columns, RewritesProofs

LEMMA FunctionIsSeq ==
    ASSUME NEW n \in Nat, NEW f, f = [i \in 1..n |-> f[i]]
    PROVE  f \in Seq(ToSet(f)) /\ Len(f) = n /\ DOMAIN f = 1..n
<1>1. DOMAIN f = 1..n
  OBVIOUS
<1>2. f \in [1..n -> ToSet(f)]
  BY <1>1 DEF ToSet
<1>3. f \in Seq(ToSet(f))
  BY <1>2, SeqDef
<1>4. Len(f) \in Nat /\ DOMAIN f = 1..Len(f)
  BY <1>3, LenProperties
<1>5. Len(f) = n
  BY <1>1, <1>4
<1>. QED  BY <1>1, <1>3, <1>5

LEMMA IsRevExcept ==
    ASSUME NEW v, IsRev(v), NEW c
    PROVE  LET w == [v EXCEPT !.commit = c]
           IN  /\ IsRev(w) /\ w.ref = v.ref /\ w.skip = v.skip /\ w.readOnly = v.readOnly
               /\ w.commit = c
<1>1. v = [ref |-> v.ref, skip |-> v.skip, readOnly |-> v.readOnly, commit |-> v.commit]
  BY DEF IsRev
<1>2. [v EXCEPT !.commit = c] = [ref |-> v.ref, skip |-> v.skip, readOnly |-> v.readOnly, commit |-> c]
  BY <1>1
<1>. QED  BY <1>2 DEF IsRev

LEMMA IsRevRenamed ==
    ASSUME NEW v, IsRev(v), NEW m
    PROVE  LET w == [v EXCEPT !.ref = m]
           IN  /\ IsRev(w) /\ w.ref = m /\ w.skip = v.skip /\ w.readOnly = v.readOnly
<1>1. v = [ref |-> v.ref, skip |-> v.skip, readOnly |-> v.readOnly, commit |-> v.commit]
  BY DEF IsRev
<1>2. [v EXCEPT !.ref = m] = [ref |-> m, skip |-> v.skip, readOnly |-> v.readOnly, commit |-> v.commit]
  BY <1>1
<1>. QED  BY <1>2 DEF IsRev

LEMMA IsRevRestored ==
    ASSUME NEW v, IsRev(v), NEW m, NEW c
    PROVE  [v EXCEPT !.ref = m, !.commit = c] =
               [ref |-> m, skip |-> v.skip, readOnly |-> v.readOnly, commit |-> c]
<1>. DEFINE u == [v EXCEPT !.ref = m]
<1>1. v = [ref |-> v.ref, skip |-> v.skip, readOnly |-> v.readOnly, commit |-> v.commit]
  BY DEF IsRev
<1>2. u = [ref |-> m, skip |-> v.skip, readOnly |-> v.readOnly, commit |-> v.commit]
  BY <1>1
<1>3. [v EXCEPT !.ref = m, !.commit = c] = [u EXCEPT !.commit = c]
  OBVIOUS
<1>. HIDE DEF u
<1>4. [u EXCEPT !.commit = c] =
          [ref |-> m, skip |-> v.skip, readOnly |-> v.readOnly, commit |-> c]
  BY <1>2
<1>. QED  BY <1>3, <1>4

(***************************************************************************)
(* _reload() of revs that fit refs and histories                           *)
(***************************************************************************)
LEMMA FitAfterReload ==
    ASSUME NEW rs, NEW r, NEW h, RevsFit(rs, r, h)
    PROVE  /\ RevsFit(Reloaded(rs, r), r, h)
           /\ DOMAIN Reloaded(rs, r) = DOMAIN rs
           /\ \A i \in DOMAIN rs : /\ Reloaded(rs, r)[i].ref = rs[i].ref
                                   /\ Reloaded(rs, r)[i].readOnly = rs[i].readOnly
                                   /\ Reloaded(rs, r)[i].commit = r[rs[i].ref]
<1>. DEFINE f == Reloaded(rs, r)
<1>1. rs \in Seq(ToSet(rs))
  BY DEF RevsFit
<1>2. Len(rs) \in Nat /\ DOMAIN rs = 1..Len(rs)
  BY <1>1, LenProperties
<1>3. f = [i \in 1..Len(rs) |-> [rs[i] EXCEPT !.commit = r[rs[i].ref]]]
  BY <1>2 DEF Reloaded
<1>. HIDE DEF f
<1>4. f \in Seq(ToSet(f)) /\ DOMAIN f = DOMAIN rs
  BY <1>2, <1>3, FunctionIsSeq
<1>5. ASSUME NEW i \in DOMAIN rs
      PROVE  /\ IsRev(f[i]) /\ f[i].ref = rs[i].ref /\ f[i].skip = rs[i].skip
             /\ f[i].readOnly = rs[i].readOnly /\ f[i].commit = r[rs[i].ref]
  <2>1. IsRev(rs[i])
    BY DEF RevsFit
  <2>2. f[i] = [rs[i] EXCEPT !.commit = r[rs[i].ref]]
    BY <1>2, <1>3
  <2>. QED  BY <2>1, <2>2, IsRevExcept
<1>6. ASSUME NEW i \in DOMAIN f
      PROVE  LET n == f[i].ref
             IN  /\ IsRev(f[i])
                 /\ n \in DOMAIN r /\ n \in DOMAIN h /\ h[n].cur.name = n /\ h[n].cur.head = r[n]
  BY <1>4, <1>5 DEF RevsFit
<1>7. ASSUME NEW i \in DOMAIN f, NEW j \in DOMAIN f, f[i].ref = f[j].ref
      PROVE  f[i].readOnly = f[j].readOnly /\ (f[i].skip = f[j].skip => i = j)
  BY <1>4, <1>5, <1>7 DEF RevsFit
<1>8. RevsFit(f, r, h)
  BY <1>4, <1>6, <1>7 DEF RevsFit
<1>. QED  BY <1>4, <1>5, <1>8 DEF f

LEMMA ReloadMirrors ==
    ASSUME NEW rs, NEW r, NEW h, NEW s \in Sizes, RevsFit(rs, r, h), Reload(rs, r, s),
           refs' = r, histories' = h
    PROVE  /\ RevsFit(revs, refs, histories)'
           /\ (\A i \in DOMAIN revs : revs[i].commit = refs[revs[i].ref])'
           /\ (size \in Sizes /\ columns = Shown(revs, size))'
           /\ DOMAIN revs' = DOMAIN rs
           /\ \A i \in DOMAIN rs : /\ revs'[i].ref = rs[i].ref
                                   /\ revs'[i].readOnly = rs[i].readOnly
<1>1. revs' = Reloaded(rs, r) /\ columns' = Shown(revs', s) /\ size' = s
  BY DEF Reload
<1>2. /\ RevsFit(revs', r, h) /\ DOMAIN revs' = DOMAIN rs
      /\ \A i \in DOMAIN rs : /\ revs'[i].ref = rs[i].ref
                              /\ revs'[i].readOnly = rs[i].readOnly
                              /\ revs'[i].commit = r[rs[i].ref]
  BY <1>1, FitAfterReload
<1>3. RevsFit(revs, refs, histories)' 
  BY <1>2 DEF RevsFit
<1>. QED  BY <1>1, <1>2, <1>3

\* The columns are revs.
LEMMA ColumnIsRev ==
    ASSUME ColumnsInv, NEW i \in DOMAIN columns
    PROVE  i \in DOMAIN revs /\ columns[i] = revs[i]
<1>1. revs \in Seq(ToSet(revs)) /\ columns = Shown(revs, size) /\ size.width \in Nat
  BY ColumnsAssumption DEF ColumnsInv, RevsFit
<1>2. Len(revs) \in Nat /\ DOMAIN revs = 1..Len(revs)
  BY <1>1, LenProperties
<1>. DEFINE n == IF size.width < Len(revs) THEN size.width ELSE Len(revs)
<1>3. n \in Nat /\ n <= Len(revs) /\ columns = SubSeq(revs, 1, n)
  BY <1>1, <1>2 DEF Shown
<1>. HIDE DEF n
<1>4. \A k \in 1..n : revs[k] \in ToSet(revs)
  BY <1>2, <1>3 DEF ToSet
<1>5. /\ columns \in Seq(ToSet(revs)) /\ Len(columns) = n
      /\ \A k \in 1..n : columns[k] = revs[k]
  <2>1. 1 \in Int /\ n \in Int
    BY <1>3
  <2>2. /\ columns \in Seq(ToSet(revs))
        /\ Len(columns) = IF 1 <= n THEN n - 1 + 1 ELSE 0
        /\ \A k \in 1..(n - 1 + 1) : columns[k] = revs[1 + k - 1]
    BY <1>3, <1>4, <2>1, SubSeqProperties
  <2>. QED  BY <1>3, <2>2
<1>6. i \in 1..n
  BY <1>5, LenProperties
<1>. QED  BY <1>2, <1>3, <1>5, <1>6

\* A rev that can be modified: no rev of its ref is read-only.
LEMMA MutableColumn ==
    ASSUME ColumnsInv, NEW i \in DOMAIN columns
    PROVE  /\ IsRev(columns[i]) /\ KnowsReadOnly(columns[i], revs)
           /\ columns[i].ref \in DOMAIN refs /\ columns[i].ref \in DOMAIN histories
<1>1. i \in DOMAIN revs /\ columns[i] = revs[i]
  BY ColumnIsRev
<1>. QED  BY <1>1 DEF ColumnsInv, RevsFit, KnowsReadOnly

(***************************************************************************)
(* Operations                                                              *)
(***************************************************************************)
ReadOnlyStep ==
    \A i \in DOMAIN revs : revs[i].readOnly =>
       revs[i].ref \in DOMAIN refs' /\ refs'[revs[i].ref] = refs[revs[i].ref]

LEMMA AskedChanges ==
    ASSUME NEW r, NEW o, o.type \in {"Move", "Copy", "Delete", "Combine", "Edit"},
           NEW n \in DOMAIN r
    PROVE  /\ DOMAIN Asked(r, o) = DOMAIN r
           /\ Asked(r, o)[n] # r[n] => \/ n = o.src /\ o.type # "Copy"
                                       \/ n = o.dst /\ o.type \in {"Move", "Copy"}
<1>1. CASE o.type = "Move" /\ o.dst = o.src
  <2>1. PICK a : Asked(r, o) = [r EXCEPT ![o.src] = a]
    BY <1>1 DEF Asked
  <2>. QED  BY <1>1, <2>1
<1>2. CASE o.type = "Move" /\ o.dst # o.src
  <2>1. PICK a, b : Asked(r, o) = [r EXCEPT ![o.src] = a, ![o.dst] = b]
    BY <1>2 DEF Asked
  <2>. QED  BY <1>2, <2>1
<1>3. CASE o.type = "Copy"
  <2>1. PICK a : Asked(r, o) = [r EXCEPT ![o.dst] = a]
    BY <1>3 DEF Asked
  <2>. QED  BY <1>3, <2>1
<1>4. CASE o.type = "Delete"
  <2>1. PICK a : Asked(r, o) = [r EXCEPT ![o.src] = a]
    BY <1>4 DEF Asked
  <2>. QED  BY <1>4, <2>1
<1>5. CASE o.type = "Combine"
  <2>1. PICK a : Asked(r, o) = [r EXCEPT ![o.src] = a]
    BY <1>5 DEF Asked
  <2>. QED  BY <1>5, <2>1
<1>6. CASE o.type = "Edit"
  <2>1. PICK a : Asked(r, o) = [r EXCEPT ![o.src] = a]
    BY <1>6 DEF Asked
  <2>. QED  BY <1>6, <2>1
<1>. QED  BY <1>1, <1>2, <1>3, <1>4, <1>5, <1>6

\* A rev that stands in for another of the same ref.
LEMMA KnowsAfter ==
    ASSUME NEW rs, NEW rs2, NEW v, NEW w, KnowsReadOnly(v, rs), IsRev(w),
           w.ref = v.ref, w.readOnly = v.readOnly, DOMAIN rs2 = DOMAIN rs,
           \A i \in DOMAIN rs : rs2[i].ref = rs[i].ref /\ rs2[i].readOnly = rs[i].readOnly
    PROVE  KnowsReadOnly(w, rs2)
BY DEF KnowsReadOnly

\* Nothing of the revs, the refs and the histories changes.
LEMMA QuietKeeps ==
    ASSUME ColumnsInv, UNCHANGED <<refs, revs, columns, size, histories>>,
           selection' = [rev |-> selection'.rev, commits |-> selection'.commits],
           selection'.rev # None => KnowsReadOnly(selection'.rev, revs),
           phase' = "pressed" => press'.column \in DOMAIN columns
    PROVE  ColumnsInv' /\ ReadOnlyStep
<1>1. ReadOnlyStep
  BY DEF ColumnsInv, RevsFit, ReadOnlyStep
<1>2. (selection'.rev # None => KnowsReadOnly(selection.rev, revs)')
  BY DEF KnowsReadOnly
<1>3. /\ RevsFit(revs, refs, histories)'
      /\ (\A i \in DOMAIN revs : revs[i].commit = refs[revs[i].ref])'
      /\ (size \in Sizes /\ columns = Shown(revs, size))'
  BY DEF ColumnsInv, RevsFit, Shown
<1>. QED  BY <1>1, <1>2, <1>3 DEF ColumnsInv

\* What an operation may be asked to do.
Allowed(type, sel, dst) ==
    /\ sel = [rev |-> sel.rev, commits |-> sel.commits]
    /\ sel.rev # None => KnowsReadOnly(sel.rev, revs)
    /\ type # "Copy" => Mutable(sel.rev)
    /\ \/ type \in {"Delete", "Combine", "Edit"} /\ dst = None
       \/ type \in {"Move", "Copy"} /\ Mutable(dst) /\ KnowsReadOnly(dst, revs)

LEMMA ExecKeeps ==
    ASSUME ColumnsInv, NEW type, NEW sel, NEW dst, NEW position,
           Exec(type, sel, dst, position), Allowed(type, sel, dst), phase' # "pressed"
    PROVE  ColumnsInv' /\ ReadOnlyStep
<1>. DEFINE src == sel.rev.ref
            o == [type |-> type, src |-> src, commits |-> sel.commits,
                  dst |-> IF dst = None THEN None ELSE dst.ref, position |-> position]
            new == Asked(refs, o)
            left == AskedSelection(refs, o).commits
            nop == type = "Move" /\ MoveIsNop(src, sel.commits, dst.ref, position)
            target == IF dst = None THEN sel.rev ELSE dst
            result == [rev |-> [target EXCEPT !.commit = new[target.ref]], commits |-> left]
            srcEntry == Entry(src, new[src], IF dst = None THEN left ELSE {}, sel.commits, sel, result)
            dstEntry == Entry(target.ref, new[target.ref], left,
                              DstSelectionPrev(type, sel, target),
                              IF type = "Copy" THEN NoSelection ELSE sel, result)
            hs == [n \in DOMAIN histories |->
                      IF new[n] = refs[n] THEN histories[n]
                      ELSE Push(histories[n], IF dst # None /\ n = dst.ref THEN dstEntry ELSE srcEntry)]
<1>1. CASE nop \/ LeavesNothing(type, new[src])
  <2>1. selection' = sel /\ UNCHANGED <<refs, revs, columns, size, histories>>
    BY <1>1 DEF Exec
  <2>. QED  BY <2>1, QuietKeeps DEF Allowed
<1>2. CASE ~(nop \/ LeavesNothing(type, new[src]))
  <2>1. refs' = new /\ histories' = hs /\ selection' = result /\ Reload(revs, new, size)
    BY <1>2 DEF Exec
  <2>2. /\ o.type = type /\ o.src = src /\ type \in {"Move", "Copy", "Delete", "Combine", "Edit"}
        /\ dst = None => type \notin {"Move", "Copy"}
        /\ dst # None => o.dst = dst.ref
    BY DEF Allowed, Mutable
  <2>3. ASSUME NEW n \in DOMAIN refs
        PROVE  /\ DOMAIN new = DOMAIN refs
               /\ new[n] # refs[n] => \/ n = src /\ type # "Copy"
                                      \/ dst # None /\ n = dst.ref
    <3>. HIDE DEF o
    <3>1. /\ DOMAIN Asked(refs, o) = DOMAIN refs
          /\ Asked(refs, o)[n] # refs[n] => \/ n = o.src /\ o.type # "Copy"
                                            \/ n = o.dst /\ o.type \in {"Move", "Copy"}
      BY <2>2, AskedChanges
    <3>. QED  BY <2>2, <3>1
  <2>. HIDE DEF new, left, nop
  <2>4. IsRev(target) /\ KnowsReadOnly(target, revs)
    BY DEF Allowed, Mutable, KnowsReadOnly
  <2>5. ASSUME NEW i \in DOMAIN revs
        PROVE  LET n == revs[i].ref
               IN  /\ IsRev(revs[i])
                   /\ n \in DOMAIN new /\ n \in DOMAIN hs
                   /\ hs[n].cur.name = n /\ hs[n].cur.head = new[n]
    <3>. DEFINE n == revs[i].ref
    <3>1. /\ IsRev(revs[i]) /\ n \in DOMAIN refs /\ n \in DOMAIN histories
          /\ histories[n].cur.name = n /\ histories[n].cur.head = refs[n]
      BY DEF ColumnsInv, RevsFit
    <3>. HIDE DEF n
    <3>2. CASE new[n] = refs[n]
      BY <2>3, <3>1, <3>2 DEF n
    <3>3. CASE new[n] # refs[n] /\ dst # None /\ n = dst.ref
      <4>1. hs[n] = Push(histories[n], dstEntry) /\ target = dst
        BY <3>1, <3>3
      <4>2. hs[n].cur.name = n /\ hs[n].cur.head = new[n]
        <5>1. dstEntry.name = target.ref /\ dstEntry.head = new[target.ref]
          BY DEF Entry
        <5>. HIDE DEF srcEntry, dstEntry, hs
        <5>2. hs[n].cur = dstEntry
          BY <4>1 DEF Push
        <5>. QED  BY <3>3, <4>1, <5>1, <5>2
      <4>. QED  BY <2>3, <3>1, <4>2 DEF n
    <3>4. CASE new[n] # refs[n] /\ ~(dst # None /\ n = dst.ref)
      <4>1. hs[n] = Push(histories[n], srcEntry) /\ n = src
        <5>1. n = src
          BY <2>3, <3>1, <3>4
        <5>2. hs[n] = Push(histories[n], srcEntry)
          <6>. HIDE DEF srcEntry, dstEntry
          <6>. QED  BY <3>1, <3>4
        <5>. QED  BY <5>1, <5>2
      <4>2. hs[n].cur.name = n /\ hs[n].cur.head = new[n]
        <5>1. srcEntry.name = src /\ srcEntry.head = new[src]
          BY DEF Entry
        <5>. HIDE DEF srcEntry, hs, src
        <5>2. hs[n].cur = srcEntry
          BY <4>1 DEF Push
        <5>. QED  BY <4>1, <5>1, <5>2
      <4>. QED  BY <2>3, <3>1, <4>2 DEF n
    <3>. QED  BY <3>2, <3>3, <3>4
  <2>6. RevsFit(revs, new, hs)
    <3>. HIDE DEF hs
    <3>. QED  BY <2>5 DEF ColumnsInv, RevsFit
  <2>7. /\ RevsFit(revs, refs, histories)'
        /\ (\A i \in DOMAIN revs : revs[i].commit = refs[revs[i].ref])'
        /\ (size \in Sizes /\ columns = Shown(revs, size))'
        /\ DOMAIN revs' = DOMAIN revs
        /\ \A i \in DOMAIN revs : /\ revs'[i].ref = revs[i].ref
                                  /\ revs'[i].readOnly = revs[i].readOnly
    <3>. HIDE DEF hs
    <3>1. size \in Sizes
      BY DEF ColumnsInv
    <3>. QED  BY <2>1, <2>6, <3>1, ReloadMirrors
  <2>8. selection'.rev = [target EXCEPT !.commit = new[target.ref]] /\ selection' = result
    BY <2>1
  <2>9. KnowsReadOnly(selection'.rev, revs')
    <3>. DEFINE w == selection'.rev
    <3>1. IsRev(w) /\ w.ref = target.ref /\ w.readOnly = target.readOnly
      BY <2>4, <2>8, IsRevExcept
    <3>. HIDE DEF w, target
    <3>2. KnowsReadOnly(w, revs')
      BY <2>4, <2>7, <3>1, KnowsAfter
    <3>. QED  BY <3>2 DEF w
  <2>10. KnowsReadOnly(selection.rev, revs)'
    BY <2>9 DEF KnowsReadOnly
  <2>11. (selection = [rev |-> selection.rev, commits |-> selection.commits])'
    BY <2>8
  <2>12. ReadOnlyStep
    <3>1. SUFFICES ASSUME NEW i \in DOMAIN revs, revs[i].readOnly
                   PROVE  revs[i].ref \in DOMAIN new /\ new[revs[i].ref] = refs[revs[i].ref]
      BY <2>1 DEF ReadOnlyStep
    <3>2. revs[i].ref \in DOMAIN refs
      BY DEF ColumnsInv, RevsFit
    <3>3. ~(revs[i].ref = src /\ type # "Copy")
      BY <3>1 DEF Allowed, Mutable, KnowsReadOnly
    <3>4. ~(dst # None /\ revs[i].ref = dst.ref)
      BY <3>1, <2>2 DEF Allowed, Mutable, KnowsReadOnly
    <3>. QED  BY <2>3, <3>2, <3>3, <3>4
  <2>. QED  BY <2>7, <2>10, <2>11, <2>12 DEF ColumnsInv
<1>. QED  BY <1>1, <1>2

(***************************************************************************)
(* The actions                                                             *)
(***************************************************************************)
LEMMA SelectionShape ==
    ASSUME ColumnsInv
    PROVE  /\ selection = [rev |-> selection.rev, commits |-> selection.commits]
           /\ selection.rev # None => KnowsReadOnly(selection.rev, revs)
BY DEF ColumnsInv

LEMMA KeyKeeps ==
    ASSUME ColumnsInv, NEW type \in {"Delete", "Combine", "Edit"}, Key(type)
    PROVE  ColumnsInv' /\ ReadOnlyStep
<1>1. /\ phase' # "pressed" /\ Mutable(selection.rev)
      /\ Exec(type, selection, None, <<>>)
  BY DEF Key
<1>2. Allowed(type, selection, None)
  BY <1>1, SelectionShape DEF Allowed
<1>. QED  BY <1>1, <1>2, ExecKeeps

LEMMA PressKeeps ==
    ASSUME ColumnsInv, NEW i \in DOMAIN columns, NEW x, NEW allow, Press(i, x, allow)
    PROVE  ColumnsInv' /\ ReadOnlyStep
<1>. DEFINE sel == IF Selected(columns[i], x) THEN selection
                   ELSE [rev |-> columns[i], commits |-> {x}]
<1>1. /\ UNCHANGED <<refs, revs, columns, size, histories>> /\ selection' = sel
      /\ phase' = "pressed" => press' = [column |-> i, commit |-> x, dragged |-> FALSE]
  BY DEF Press
<1>2. /\ sel = [rev |-> sel.rev, commits |-> sel.commits]
      /\ sel.rev # None => KnowsReadOnly(sel.rev, revs)
  BY SelectionShape, MutableColumn
<1>. HIDE DEF sel
<1>3. phase' = "pressed" => press'.column \in DOMAIN columns
  BY <1>1
<1>. QED  BY <1>1, <1>2, <1>3, QuietKeeps

LEMMA DragKeeps ==
    ASSUME ColumnsInv, NEW allow, Drag(allow)
    PROVE  ColumnsInv' /\ ReadOnlyStep
<1>1. /\ UNCHANGED <<refs, revs, columns, size, histories, selection>>
      /\ press.column \in DOMAIN columns /\ press' = [press EXCEPT !.dragged = TRUE]
  BY DEF Drag, ColumnsInv
<1>2. press'.column = press.column
  BY <1>1
<1>. QED  BY <1>1, <1>2, SelectionShape, QuietKeeps

LEMMA DropKeeps ==
    ASSUME ColumnsInv, NEW j \in DOMAIN columns, Mutable(columns[j]), NEW b, NEW copy,
           Drop(j, b, copy), Released
    PROVE  ColumnsInv' /\ ReadOnlyStep
<1>. DEFINE type == DropType(selection.rev, copy)
            position == IF b \in Panels(columns[j]) THEN b ELSE <<>>
<1>1. phase' # "pressed"
  BY DEF Released
<1>2. Exec(type, selection, columns[j], position)
  BY DEF Drop
<1>3. Allowed(type, selection, columns[j])
  BY SelectionShape, MutableColumn DEF Allowed, DropType
<1>. HIDE DEF type, position
<1>. QED  BY <1>1, <1>2, <1>3, ExecKeeps

LEMMA PressedColumn ==
    ASSUME ColumnsInv, phase = "pressed"
    PROVE  press.column \in DOMAIN columns
BY DEF ColumnsInv

LEMMA ClickKeeps ==
    ASSUME ColumnsInv, NEW double, Click(double)
    PROVE  ColumnsInv' /\ ReadOnlyStep
<1>. DEFINE c == columns[press.column]
            sel == [rev |-> c, commits |-> {press.commit}]
<1>1. press.column \in DOMAIN columns /\ phase' # "pressed"
  BY PressedColumn DEF Click, Released
<1>2. KnowsReadOnly(c, revs)
  BY <1>1, MutableColumn
<1>3. CASE double /\ Mutable(sel.rev)
  <2>1. Exec("Edit", sel, None, <<>>)
    BY <1>3 DEF Click
  <2>2. Allowed("Edit", sel, None)
    BY <1>2, <1>3 DEF Allowed
  <2>. HIDE DEF sel
  <2>. QED  BY <1>1, <2>1, <2>2, ExecKeeps
<1>4. CASE ~(double /\ Mutable(sel.rev))
  <2>1. selection' = sel /\ UNCHANGED <<refs, revs, columns, size, histories>>
    BY <1>4 DEF Click
  <2>. QED  BY <1>1, <1>2, <2>1, QuietKeeps
<1>. QED  BY <1>3, <1>4

LEMMA SelectKeeps ==
    ASSUME ColumnsInv, NEW new, NEW shift, SelectRect(new, shift),
           new = [rev |-> new.rev, commits |-> new.commits],
           new.rev # None => KnowsReadOnly(new.rev, revs)
    PROVE  ColumnsInv' /\ ReadOnlyStep
<1>1. /\ UNCHANGED <<refs, revs, columns, size, histories>>
      /\ phase' # "pressed"
  BY DEF SelectRect
<1>2. CASE shift /\ (new.commits = {} \/ selection.rev = new.rev)
  <2>1. selection' = [selection EXCEPT !.commits = SymDiff(@, new.commits)]
    BY <1>2 DEF SelectRect
  <2>2. selection' = [rev |-> selection.rev, commits |-> SymDiff(selection.commits, new.commits)]
    BY <2>1, SelectionShape
  <2>. QED  BY <1>1, <2>2, SelectionShape, QuietKeeps
<1>3. CASE ~(shift /\ (new.commits = {} \/ selection.rev = new.rev))
  <2>1. selection' = new
    BY <1>3 DEF SelectRect
  <2>. QED  BY <1>1, <2>1, QuietKeeps
<1>. QED  BY <1>2, <1>3

LEMMA MouseKeeps == ColumnsInv /\ Mouse => ColumnsInv' /\ ReadOnlyStep
<1>. SUFFICES ASSUME ColumnsInv, Mouse PROVE ColumnsInv' /\ ReadOnlyStep
  OBVIOUS
<1>1. ASSUME NEW i \in DOMAIN columns, NEW x \in Panels(columns[i]), NEW allow \in BOOLEAN,
             Press(i, x, allow)
      PROVE  ColumnsInv' /\ ReadOnlyStep
  BY <1>1, PressKeeps
<1>2. ASSUME NEW allow \in BOOLEAN, Drag(allow) PROVE ColumnsInv' /\ ReadOnlyStep
  BY <1>2, DragKeeps
<1>3. ASSUME NEW j \in DOMAIN columns, NEW copy \in BOOLEAN, NEW b \in Drops(j),
             ReleaseDrag(j, b, copy)
      PROVE  ColumnsInv' /\ ReadOnlyStep
  BY <1>3, DropKeeps DEF ReleaseDrag
<1>4. ASSUME NEW copy \in BOOLEAN, ReleaseStaleDrag(copy) PROVE ColumnsInv' /\ ReadOnlyStep
  BY <1>4, DropKeeps, PressedColumn DEF ReleaseStaleDrag
<1>5. ASSUME NEW double \in BOOLEAN, Click(double) PROVE ColumnsInv' /\ ReadOnlyStep
  BY <1>5, ClickKeeps
<1>6. CASE ReleaseNothing
  <2>1. UNCHANGED <<refs, revs, columns, size, histories, selection>> /\ phase' # "pressed"
    BY <1>6 DEF ReleaseNothing, Released
  <2>. QED  BY <2>1, SelectionShape, QuietKeeps
<1>7. ASSUME NEW i \in DOMAIN columns, NEW S, NEW shift \in BOOLEAN,
             SelectRect([rev |-> columns[i], commits |-> S], shift)
      PROVE  ColumnsInv' /\ ReadOnlyStep
  <2>. DEFINE new == [rev |-> columns[i], commits |-> S]
  <2>1. new = [rev |-> new.rev, commits |-> new.commits] /\ KnowsReadOnly(new.rev, revs)
    BY MutableColumn
  <2>2. SelectRect(new, shift)
    BY <1>7
  <2>. HIDE DEF new
  <2>. QED  BY <2>1, <2>2, SelectKeeps
<1>8. ASSUME NEW shift \in BOOLEAN, SelectRect(NoSelection, shift) PROVE ColumnsInv' /\ ReadOnlyStep
  <2>1. /\ NoSelection = [rev |-> NoSelection.rev, commits |-> NoSelection.commits]
        /\ NoSelection.rev = None
    BY DEF NoSelection
  <2>. QED  BY <1>8, <2>1, SelectKeeps
<1>9. ASSUME NEW i \in DOMAIN columns, NEW x, ContextMenu(i, x) PROVE ColumnsInv' /\ ReadOnlyStep
  <2>1. /\ UNCHANGED <<refs, revs, columns, size, histories>> /\ phase' # "pressed"
        /\ selection' = [rev |-> columns[i], commits |-> {x}]
    BY <1>9 DEF ContextMenu
  <2>2. KnowsReadOnly(selection'.rev, revs) /\ selection'.commits = {x}
    BY <2>1, MutableColumn
  <2>. QED  BY <2>1, <2>2, QuietKeeps
<1>. QED  BY <1>1, <1>2, <1>3, <1>4, <1>5, <1>6, <1>7, <1>8, <1>9 DEF Mouse

\* A ref that can be modified is restored under any name that is free.
LEMMA RestoreFits ==
    ASSUME ColumnsInv, NEW n \in DOMAIN refs,
           \A k \in DOMAIN revs : revs[k].ref = n => ~revs[k].readOnly,
           NEW m, NEW c, NEW h, h.cur.name = m, h.cur.head = c, Restore(n, m, c, h)
    PROVE  /\ RevsFit(revs, refs, histories)'
           /\ (\A k \in DOMAIN revs : revs[k].commit = refs[revs[k].ref])'
           /\ (size \in Sizes /\ columns = Shown(revs, size))'
           /\ DOMAIN revs' = DOMAIN revs
           /\ \A k \in DOMAIN revs : /\ revs'[k].ref = IF revs[k].ref = n THEN m ELSE revs[k].ref
                                     /\ revs'[k].readOnly = revs[k].readOnly
           /\ ReadOnlyStep
<1>. DEFINE r == [x \in (DOMAIN refs \ {n}) \cup {m} |-> IF x = m THEN c ELSE refs[x]]
            hs == [x \in (DOMAIN histories \ {n}) \cup {m} |-> IF x = m THEN h ELSE histories[x]]
            rs == Renamed(n, m)
<1>1. /\ m \notin DOMAIN refs \ {n} /\ refs' = r /\ histories' = hs /\ Reload(rs, r, size)
  BY DEF Restore
<1>2. /\ revs \in Seq(ToSet(revs)) /\ size \in Sizes
      /\ \A k \in DOMAIN revs :
            LET x == revs[k].ref
            IN  /\ IsRev(revs[k]) /\ x \in DOMAIN refs /\ x \in DOMAIN histories
                /\ histories[x].cur.name = x /\ histories[x].cur.head = refs[x]
      /\ \A k, l \in DOMAIN revs :
            revs[k].ref = revs[l].ref => /\ revs[k].readOnly = revs[l].readOnly
                                         /\ revs[k].skip = revs[l].skip => k = l
  BY DEF ColumnsInv, RevsFit
<1>3. rs \in Seq(ToSet(rs)) /\ DOMAIN rs = DOMAIN revs
  <2>1. Len(revs) \in Nat /\ DOMAIN revs = 1..Len(revs)
    BY <1>2, LenProperties
  <2>2. rs = [k \in 1..Len(revs) |-> IF revs[k].ref = n THEN [revs[k] EXCEPT !.ref = m] ELSE revs[k]]
    BY <2>1 DEF Renamed
  <2>. HIDE DEF rs
  <2>. QED  BY <2>1, <2>2, FunctionIsSeq
<1>4. ASSUME NEW k \in DOMAIN revs
      PROVE  /\ IsRev(rs[k]) /\ rs[k].ref = IF revs[k].ref = n THEN m ELSE revs[k].ref
             /\ rs[k].skip = revs[k].skip /\ rs[k].readOnly = revs[k].readOnly
  <2>1. rs[k] = IF revs[k].ref = n THEN [revs[k] EXCEPT !.ref = m] ELSE revs[k]
    BY DEF Renamed
  <2>. QED  BY <1>2, <2>1, IsRevRenamed
<1>. HIDE DEF rs
<1>5. ASSUME NEW k \in DOMAIN rs
      PROVE  LET x == rs[k].ref
             IN  /\ IsRev(rs[k]) /\ x \in DOMAIN r /\ x \in DOMAIN hs
                 /\ hs[x].cur.name = x /\ hs[x].cur.head = r[x]
  <2>1. CASE revs[k].ref = n
    BY <1>3, <1>4, <2>1
  <2>2. CASE revs[k].ref # n
    <3>1. rs[k].ref = revs[k].ref /\ rs[k].ref # m /\ rs[k].ref # n
      BY <1>1, <1>2, <1>3, <1>4, <2>2
    <3>2. /\ rs[k].ref \in DOMAIN refs /\ rs[k].ref \in DOMAIN histories
          /\ histories[rs[k].ref].cur.name = rs[k].ref
          /\ histories[rs[k].ref].cur.head = refs[rs[k].ref]
      BY <1>2, <1>3, <3>1
    <3>. QED  BY <1>3, <1>4, <3>1, <3>2
  <2>. QED  BY <2>1, <2>2
<1>6. ASSUME NEW k \in DOMAIN rs, NEW l \in DOMAIN rs, rs[k].ref = rs[l].ref
      PROVE  rs[k].readOnly = rs[l].readOnly /\ (rs[k].skip = rs[l].skip => k = l)
  <2>1. revs[k].ref = revs[l].ref
    BY <1>1, <1>2, <1>3, <1>4, <1>6
  <2>. QED  BY <1>2, <1>3, <1>4, <2>1
<1>. HIDE DEF r, hs
<1>7. RevsFit(rs, r, hs)
  BY <1>3, <1>5, <1>6 DEF RevsFit
<1>8. /\ RevsFit(revs, refs, histories)'
      /\ (\A k \in DOMAIN revs : revs[k].commit = refs[revs[k].ref])'
      /\ (size \in Sizes /\ columns = Shown(revs, size))'
      /\ DOMAIN revs' = DOMAIN rs
      /\ \A k \in DOMAIN rs : revs'[k].ref = rs[k].ref /\ revs'[k].readOnly = rs[k].readOnly
  BY <1>1, <1>2, <1>7, ReloadMirrors
<1>9. ReadOnlyStep
  <2>1. SUFFICES ASSUME NEW k \in DOMAIN revs, revs[k].readOnly
                 PROVE  revs[k].ref \in DOMAIN r /\ r[revs[k].ref] = refs[revs[k].ref]
    BY <1>1 DEF ReadOnlyStep
  <2>2. revs[k].ref # n /\ revs[k].ref \in DOMAIN refs
    BY <1>2, <2>1
  <2>3. revs[k].ref # m
    BY <1>1, <2>2
  <2>. QED  BY <2>2, <2>3 DEF r
<1>. QED  BY <1>3, <1>4, <1>8, <1>9

LEMMA NoReadOnlyRev ==
    ASSUME ColumnsInv, NEW i \in DOMAIN columns, Mutable(columns[i])
    PROVE  /\ \A k \in DOMAIN revs : revs[k].ref = columns[i].ref => ~revs[k].readOnly
           /\ columns[i].ref \in DOMAIN refs /\ columns[i].ref \in DOMAIN histories
           /\ IsRev(columns[i])
BY MutableColumn DEF KnowsReadOnly, Mutable

LEMMA UndoRedoKeeps ==
    ASSUME ColumnsInv, NEW i \in DOMAIN columns, NEW undo \in BOOLEAN, UndoRedo(i, undo)
    PROVE  ColumnsInv' /\ ReadOnlyStep
<1>. DEFINE rev == columns[i]
            n == rev.ref
            h == histories[n]
            to == IF undo THEN PrevPeek(h) ELSE NextPeek(h)
            g == IF undo THEN StepBack(h) ELSE StepForth(h)
<1>1. /\ Mutable(rev) /\ Restore(n, to.name, to.head, g) /\ phase' = phase /\ phase = "idle"
      /\ selection' = [rev |-> [rev EXCEPT !.ref = to.name, !.commit = to.head],
                       commits |-> SelectedByUndo(h.cur, to, undo)]
  BY DEF UndoRedo
<1>2. g.cur = to
  BY DEF StepBack, StepForth
<1>3. /\ \A k \in DOMAIN revs : revs[k].ref = n => ~revs[k].readOnly
      /\ n \in DOMAIN refs /\ IsRev(rev)
  BY <1>1, NoReadOnlyRev
<1>. HIDE DEF rev, n, h, to, g
<1>4. /\ RevsFit(revs, refs, histories)'
      /\ (\A k \in DOMAIN revs : revs[k].commit = refs[revs[k].ref])'
      /\ (size \in Sizes /\ columns = Shown(revs, size))'
      /\ DOMAIN revs' = DOMAIN revs
      /\ \A k \in DOMAIN revs : /\ revs'[k].ref = IF revs[k].ref = n THEN to.name ELSE revs[k].ref
                                /\ revs'[k].readOnly = revs[k].readOnly
      /\ ReadOnlyStep
  <2>1. g.cur.name = to.name /\ g.cur.head = to.head
    BY <1>2
  <2>. QED  BY <1>1, <1>3, <2>1, RestoreFits
<1>5. KnowsReadOnly(selection.rev, revs)'
  <2>. DEFINE w == [rev EXCEPT !.ref = to.name, !.commit = to.head]
  <2>2. w = [ref |-> to.name, skip |-> rev.skip, readOnly |-> rev.readOnly, commit |-> to.head]
    BY <1>3, IsRevRestored
  <2>3. IsRev(w) /\ w.ref = to.name
    BY <2>2 DEF IsRev
  <2>4. ASSUME NEW k \in DOMAIN revs', revs'[k].ref = w.ref PROVE ~revs'[k].readOnly
    <3>1. revs[k].ref = n \/ revs[k].ref = to.name
      BY <1>4, <2>3, <2>4
    <3>2. CASE revs[k].ref = n
      BY <1>3, <1>4, <3>2
    <3>3. CASE revs[k].ref # n
      <4>1. revs[k].ref \in DOMAIN refs \ {n}
        BY <1>4, <3>3 DEF ColumnsInv, RevsFit
      <4>2. to.name \notin DOMAIN refs \ {n}
        BY <1>1 DEF Restore
      <4>. QED  BY <3>1, <3>3, <4>1, <4>2
    <3>. QED  BY <3>2, <3>3
  <2>5. selection'.rev = w
    BY <1>1
  <2>. HIDE DEF w
  <2>. QED  BY <2>3, <2>4, <2>5 DEF KnowsReadOnly
<1>6. (selection = [rev |-> selection.rev, commits |-> selection.commits])'
  BY <1>1
<1>. QED  BY <1>1, <1>4, <1>5, <1>6 DEF ColumnsInv

LEMMA RenameKeeps ==
    ASSUME ColumnsInv, NEW i \in DOMAIN columns, NEW m, Rename(i, m)
    PROVE  ColumnsInv' /\ ReadOnlyStep
<1>. DEFINE rev == columns[i]
            n == rev.ref
            g == Push(histories[n], Entry(m, rev.commit, {}, {}, NoSelection, NoSelection))
<1>1. /\ Mutable(rev) /\ Restore(n, m, rev.commit, g) /\ phase' = phase /\ phase = "idle"
      /\ selection' = SelectionRenamed(n, m, rev.commit)
  BY DEF Rename
<1>2. g.cur.name = m /\ g.cur.head = rev.commit
  BY DEF Push, Entry
<1>3. /\ \A k \in DOMAIN revs : revs[k].ref = n => ~revs[k].readOnly
      /\ n \in DOMAIN refs /\ IsRev(rev)
  BY <1>1, NoReadOnlyRev
<1>. HIDE DEF rev, n, g
<1>4. /\ RevsFit(revs, refs, histories)'
      /\ (\A k \in DOMAIN revs : revs[k].commit = refs[revs[k].ref])'
      /\ (size \in Sizes /\ columns = Shown(revs, size))'
      /\ DOMAIN revs' = DOMAIN revs
      /\ \A k \in DOMAIN revs : /\ revs'[k].ref = IF revs[k].ref = n THEN m ELSE revs[k].ref
                                /\ revs'[k].readOnly = revs[k].readOnly
      /\ ReadOnlyStep
  BY <1>1, <1>2, <1>3, RestoreFits
<1>. DEFINE s == selection.rev
<1>5. /\ selection = [rev |-> s, commits |-> selection.commits]
      /\ s # None => KnowsReadOnly(s, revs)
  BY SelectionShape
\* The revs that get the name can be modified, and no other rev changes its ref.
<1>6. ASSUME NEW k \in DOMAIN revs', revs'[k].readOnly
      PROVE  revs[k].readOnly /\ revs'[k].ref = revs[k].ref /\ revs'[k].ref # m
  <2>1. revs[k].readOnly /\ revs[k].ref # n
    BY <1>3, <1>4, <1>6
  <2>2. revs[k].ref \in DOMAIN refs \ {n}
    BY <1>4, <2>1 DEF ColumnsInv, RevsFit
  <2>3. m \notin DOMAIN refs \ {n}
    BY <1>1 DEF Restore
  <2>. QED  BY <1>4, <2>1, <2>2, <2>3
<1>7. CASE s # None /\ s.ref = n
  <2>. DEFINE w == [ref |-> m, skip |-> s.skip, readOnly |-> s.readOnly, commit |-> rev.commit]
  <2>1. IsRev(s)
    BY <1>5, <1>7 DEF KnowsReadOnly
  <2>2. selection' = [selection EXCEPT !.rev.ref = m, !.rev.commit = rev.commit]
    BY <1>1, <1>7 DEF SelectionRenamed
  <2>3. selection' = [rev |-> w, commits |-> selection.commits]
    <3>. DEFINE S == selection.commits
                q == selection
    <3>1. q = [rev |-> s, commits |-> S]
      BY <1>5
    <3>2. selection' = [q EXCEPT !.rev.ref = m, !.rev.commit = rev.commit]
      BY <2>2
    <3>. HIDE DEF s, S, q
    <3>. DEFINE t == [q EXCEPT !.rev.ref = m]
                u == [s EXCEPT !.ref = m]
    <3>3. t = [rev |-> u, commits |-> S]
      BY <3>1
    <3>4. [q EXCEPT !.rev.ref = m, !.rev.commit = rev.commit] = [t EXCEPT !.rev.commit = rev.commit]
      OBVIOUS
    <3>5. [u EXCEPT !.commit = rev.commit] = w
      BY <2>1, IsRevRestored
    <3>. HIDE DEF t, u, w
    <3>6. [t EXCEPT !.rev.commit = rev.commit] =
              [rev |-> [u EXCEPT !.commit = rev.commit], commits |-> S]
      BY <3>3
    <3>. QED  BY <3>2, <3>4, <3>5, <3>6 DEF S
  <2>4. IsRev(w) /\ w.ref = m
    BY DEF IsRev
  <2>5. selection'.rev = w /\ selection'.commits = selection.commits
    BY <2>3
  <2>. HIDE DEF w
  <2>6. KnowsReadOnly(selection.rev, revs)'
    BY <1>6, <2>4, <2>5 DEF KnowsReadOnly
  <2>7. (selection = [rev |-> selection.rev, commits |-> selection.commits])'
    BY <2>3, <2>5
  <2>. QED  BY <1>1, <1>4, <2>6, <2>7 DEF ColumnsInv
<1>8. CASE ~(s # None /\ s.ref = n)
  <2>1. selection' = selection
    BY <1>1, <1>8 DEF SelectionRenamed
  <2>2. (selection.rev # None => KnowsReadOnly(selection.rev, revs))'
    BY <1>4, <1>5, <1>6, <2>1 DEF KnowsReadOnly
  <2>3. (selection = [rev |-> selection.rev, commits |-> selection.commits])'
    BY <1>5, <2>1
  <2>. QED  BY <1>1, <1>4, <2>2, <2>3 DEF ColumnsInv
<1>. QED  BY <1>7, <1>8

Inserted(t, s, at, e) ==
    /\ t \in Seq(ToSet(t)) /\ Len(t) = Len(s) + 1 /\ Len(s) \in Nat /\ DOMAIN t = 1..Len(t)
    /\ \A j \in 1..Len(t) :
          t[j] = IF j <= at THEN s[j] ELSE IF j = at + 1 THEN e ELSE s[j - 1]

LEMMA InsertedAfter ==
    ASSUME NEW T, NEW s \in Seq(T), NEW at \in 1..Len(s), NEW e \in T,
           NEW t, t = InsertAt(s, at + 1, e)
    PROVE  Inserted(t, s, at, e)
<1>. DEFINE a == SubSeq(s, 1, at)
            b == SubSeq(s, at + 1, Len(s))
            n == Len(s)
<1>1. n \in Nat /\ \A j \in 1..n : s[j] \in T
  BY LenProperties, ElementOfSeq
<1>2. a \in Seq(T) /\ Len(a) = at /\ \A j \in 1..at : a[j] = s[j]
  BY <1>1
<1>3. b \in Seq(T) /\ Len(b) = n - at /\ \A j \in 1..(n - at) : b[j] = s[at + j]
  BY <1>1
<1>4. t = a \o <<e>> \o b
  <2>1. t = SubSeq(s, 1, (at + 1) - 1) \o <<e>> \o SubSeq(s, at + 1, Len(s))
    BY Zenon DEF InsertAt
  <2>2. (at + 1) - 1 = at
    BY <1>1
  <2>. QED  BY <2>1, <2>2, Zenon
<1>9. at \in Nat /\ 1 <= at /\ at <= n
  BY <1>1
<1>. HIDE DEF a, b, n
<1>. DEFINE c == a \o <<e>>
<1>5. /\ c \in Seq(T) /\ Len(c) = at + 1
      /\ \A j \in 1..(at + 1) : c[j] = IF j <= at THEN s[j] ELSE e
  <2>1. <<e>> \in Seq(T) /\ Len(<<e>>) = 1 /\ <<e>>[1] = e
    OBVIOUS
  <2>2. /\ c \in Seq(T) /\ Len(c) = Len(a) + Len(<<e>>)
        /\ \A j \in 1..(Len(a) + Len(<<e>>)) : c[j] = IF j <= Len(a) THEN a[j] ELSE <<e>>[j - Len(a)]
    BY <1>2, <2>1, ConcatProperties
  <2>. QED  BY <1>1, <1>2, <2>1, <2>2 DEF n
<1>. HIDE DEF c
<1>6. /\ c \o b \in Seq(T) /\ Len(c \o b) = Len(c) + Len(b)
      /\ \A j \in 1..(Len(c) + Len(b)) : (c \o b)[j] = IF j <= Len(c) THEN c[j] ELSE b[j - Len(c)]
  BY <1>3, <1>5, ConcatProperties
<1>7. Len(c \o b) = n + 1
  BY <1>1, <1>3, <1>5, <1>6 DEF n
<1>8. ASSUME NEW j \in 1..(n + 1)
      PROVE  (c \o b)[j] = IF j <= at THEN s[j] ELSE IF j = at + 1 THEN e ELSE s[j - 1]
  <2>1. CASE j <= at + 1
    <3>1. j \in 1..(at + 1) /\ j \in 1..(Len(c) + Len(b)) /\ j <= Len(c)
      BY <1>1, <1>3, <1>5, <1>9, <2>1
    <3>2. (c \o b)[j] = c[j]
      BY <1>6, <3>1
    <3>3. c[j] = IF j <= at THEN s[j] ELSE e
      BY <1>5, <3>1
    <3>. QED  BY <1>1, <1>9, <2>1, <3>1, <3>2, <3>3
  <2>2. CASE j > at + 1
    <3>1. /\ (c \o b)[j] = b[j - (at + 1)]
          /\ j - (at + 1) \in 1..(n - at) /\ at + (j - (at + 1)) = j - 1
      BY <1>1, <1>3, <1>5, <1>6, <2>2 DEF n
    <3>2. b[j - (at + 1)] = s[at + (j - (at + 1))]
      BY <1>3, <3>1
    <3>3. ~(j <= at) /\ j # at + 1
      BY <1>1, <1>9, <2>2
    <3>. QED  BY <3>1, <3>2, <3>3
  <2>3. j <= at + 1 \/ j > at + 1
    BY <1>1, <1>9
  <2>. QED  BY <2>1, <2>2, <2>3, Zenon
<1>10. t = c \o b /\ t \in Seq(T) /\ Len(t) = n + 1
  BY <1>4, <1>6, <1>7 DEF c
<1>11. DOMAIN t = 1..Len(t) /\ t \in [1..Len(t) -> T]
  BY <1>10, LenProperties
<1>12. t \in Seq(ToSet(t))
  <2>1. t = [j \in 1..(n + 1) |-> t[j]] /\ n + 1 \in Nat
    BY <1>1, <1>10, <1>11
  <2>. QED  BY <2>1, FunctionIsSeq
<1>13. ASSUME NEW j \in 1..Len(t)
       PROVE  t[j] = IF j <= at THEN s[j] ELSE IF j = at + 1 THEN e ELSE s[j - 1]
  <2>1. j \in 1..(n + 1) /\ t[j] = (c \o b)[j]
    BY <1>10
  <2>. QED  BY <1>8, <2>1
<1>14. Len(t) = Len(s) + 1 /\ Len(s) \in Nat
  BY <1>1, <1>10 DEF n
<1>. QED  BY <1>11, <1>12, <1>13, <1>14 DEF Inserted

\* A rev of a new ref fits anywhere among the others.
LEMMA CreatedFits ==
    ASSUME ColumnsInv, NEW at \in DOMAIN revs, NEW m, m \notin DOMAIN refs, NEW c,
           NEW v, v = [ref |-> m, skip |-> 0, readOnly |-> FALSE, commit |-> c],
           NEW r, r = [x \in DOMAIN refs \cup {m} |-> IF x = m THEN c ELSE refs[x]],
           NEW h, h.cur.name = m, h.cur.head = c,
           NEW hs, hs = [x \in DOMAIN histories \cup {m} |-> IF x = m THEN h ELSE histories[x]]
    PROVE  RevsFit(InsertAt(revs, at + 1, v), r, hs)
<1>. DEFINE T == ToSet(revs) \cup {v}
            rs == InsertAt(revs, at + 1, v)
            Old(j) == IF j <= at THEN j ELSE j - 1
<1>1. /\ revs \in Seq(ToSet(revs))
      /\ \A k \in DOMAIN revs :
            LET x == revs[k].ref
            IN  /\ IsRev(revs[k]) /\ x \in DOMAIN refs /\ x \in DOMAIN histories
                /\ histories[x].cur.name = x /\ histories[x].cur.head = refs[x]
      /\ \A k, l \in DOMAIN revs :
            revs[k].ref = revs[l].ref => /\ revs[k].readOnly = revs[l].readOnly
                                         /\ revs[k].skip = revs[l].skip => k = l
  BY DEF ColumnsInv, RevsFit
<1>2. revs \in Seq(T) /\ v \in T /\ DOMAIN revs = 1..Len(revs)
  BY <1>1, LenProperties, SeqMonotonic
<1>. HIDE DEF T, rs
<1>3. /\ rs \in Seq(ToSet(rs))
      /\ Len(rs) = Len(revs) + 1 /\ Len(revs) \in Nat /\ DOMAIN rs = 1..Len(rs)
      /\ \A j \in 1..Len(rs) :
            rs[j] = IF j <= at THEN revs[j] ELSE IF j = at + 1 THEN v ELSE revs[j - 1]
  <2>1. at \in 1..Len(revs)
    BY <1>2
  <2>2. rs = InsertAt(revs, at + 1, v)
    BY DEF rs
  <2>3. revs \in Seq(T) /\ v \in T
    BY <1>2
  <2>4. Inserted(rs, revs, at, v)
    BY <2>1, <2>2, <2>3, InsertedAfter
  <2>. QED  BY <2>4 DEF Inserted
<1>4. DOMAIN rs = 1..Len(rs)
  BY <1>3
<1>5. rs \in Seq(ToSet(rs))
  BY <1>3
<1>6. ASSUME NEW j \in DOMAIN rs, j # at + 1
      PROVE  Old(j) \in DOMAIN revs /\ rs[j] = revs[Old(j)] /\ rs[j].ref # m
  <2>1. Old(j) \in 1..Len(revs) /\ rs[j] = revs[Old(j)]
    BY <1>2, <1>3, <1>4, <1>6
  <2>. QED  BY <1>1, <1>2, <2>1
<1>7. rs[at + 1] = v
  <2>1. at \in 1..Len(revs) /\ at + 1 \in 1..Len(rs) /\ ~(at + 1 <= at)
    BY <1>2, <1>3
  <2>. QED  BY <1>3, <2>1
<1>8. v.ref = m /\ IsRev(v)
  BY DEF IsRev
<1>9. ASSUME NEW j \in DOMAIN rs
      PROVE  LET x == rs[j].ref
             IN  /\ IsRev(rs[j]) /\ x \in DOMAIN r /\ x \in DOMAIN hs
                 /\ hs[x].cur.name = x /\ hs[x].cur.head = r[x]
  <2>1. CASE j = at + 1
    BY <1>7, <1>8, <2>1
  <2>2. CASE j # at + 1
    <3>. HIDE DEF Old
    <3>1. LET x == rs[j].ref
          IN  /\ IsRev(rs[j]) /\ x \in DOMAIN refs /\ x \in DOMAIN histories /\ x # m
              /\ histories[x].cur.name = x /\ histories[x].cur.head = refs[x]
      BY <1>1, <1>6, <2>2
    <3>. QED  BY <3>1
  <2>. QED  BY <2>1, <2>2
<1>10. ASSUME NEW j \in DOMAIN rs, NEW k \in DOMAIN rs, rs[j].ref = rs[k].ref
       PROVE  rs[j].readOnly = rs[k].readOnly /\ (rs[j].skip = rs[k].skip => j = k)
  <2>1. CASE j = at + 1 \/ k = at + 1
    BY <1>6, <1>7, <1>8, <1>10, <2>1
  <2>2. CASE j # at + 1 /\ k # at + 1
    <3>1. /\ rs[j].readOnly = rs[k].readOnly
          /\ rs[j].skip = rs[k].skip => Old(j) = Old(k)
      <4>. HIDE DEF Old
      <4>. QED  BY <1>1, <1>6, <1>10, <2>2
    <3>2. Old(j) = Old(k) => j = k
      BY <1>2, <1>3, <1>4, <2>2
    <3>. QED  BY <3>1, <3>2
  <2>. QED  BY <2>1, <2>2
<1>11. RevsFit(rs, r, hs)
  <2>. HIDE DEF Old
  <2>. QED  BY <1>5, <1>9, <1>10 DEF RevsFit
<1>. QED  BY <1>11 DEF rs

LEMMA RevCreateKeeps ==
    ASSUME ColumnsInv, NEW template, NEW c, NEW m, RevCreate(template, c, m)
    PROVE  ColumnsInv' /\ ReadOnlyStep
<1>. DEFINE at == CHOOSE i \in DOMAIN revs : revs[i] = template
            v == [ref |-> m, skip |-> 0, readOnly |-> FALSE, commit |-> c]
            r == [x \in DOMAIN refs \cup {m} |-> IF x = m THEN c ELSE refs[x]]
            h == Fresh(Entry(m, c, {}, {}, NoSelection, NoSelection))
            hs == [x \in DOMAIN histories \cup {m} |-> IF x = m THEN h ELSE histories[x]]
<1>1. m \notin DOMAIN refs /\ refs' = r
  BY DEF RevCreate
<1>2. ASSUME NEW k \in DOMAIN revs PROVE revs[k].ref \in DOMAIN refs /\ revs[k].ref # m
  BY <1>1 DEF ColumnsInv, RevsFit
<1>3. ReadOnlyStep
  BY <1>1, <1>2 DEF ReadOnlyStep
<1>4. CASE template \in ToSet(revs)
  <2>1. /\ phase' = "idle" /\ selection' = [rev |-> v, commits |-> {c}]
        /\ histories' = hs /\ Reload(InsertAt(revs, at + 1, v), r, size)
    BY <1>4 DEF RevCreate
  <2>2. at \in DOMAIN revs
    BY <1>4 DEF ToSet
  <2>3. h.cur.name = m /\ h.cur.head = c
    BY DEF Fresh, Entry
  <2>. HIDE DEF at, h
  <2>4. RevsFit(InsertAt(revs, at + 1, v), r, hs)
    <3>1. /\ v = [ref |-> m, skip |-> 0, readOnly |-> FALSE, commit |-> c]
          /\ r = [x \in DOMAIN refs \cup {m} |-> IF x = m THEN c ELSE refs[x]]
          /\ hs = [x \in DOMAIN histories \cup {m} |-> IF x = m THEN h ELSE histories[x]]
      OBVIOUS
    <3>. HIDE DEF v, r, hs
    <3>. QED  BY <1>1, <2>2, <2>3, <3>1, CreatedFits
  <2>5. IsRev(v) /\ v.ref = m /\ v.readOnly = FALSE
    BY DEF IsRev
  <2>. HIDE DEF hs, r, v
  <2>. DEFINE rs == InsertAt(revs, at + 1, v)
  <2>6. size \in Sizes
    BY DEF ColumnsInv
  <2>7. /\ RevsFit(revs, refs, histories)'
        /\ (\A i \in DOMAIN revs : revs[i].commit = refs[revs[i].ref])'
        /\ (size \in Sizes /\ columns = Shown(revs, size))'
        /\ DOMAIN revs' = DOMAIN rs
        /\ \A i \in DOMAIN rs : revs'[i].ref = rs[i].ref /\ revs'[i].readOnly = rs[i].readOnly
    <3>. HIDE DEF rs
    <3>1. RevsFit(rs, r, hs) /\ Reload(rs, r, size)
      BY <2>1, <2>4 DEF rs
    <3>. QED  BY <1>1, <2>1, <2>6, <3>1, ReloadMirrors
  <2>8. ASSUME NEW i \in DOMAIN revs', revs'[i].ref = m PROVE ~revs'[i].readOnly
    <3>1. /\ revs \in Seq(ToSet(revs) \cup {v}) /\ v \in ToSet(revs) \cup {v}
          /\ at \in 1..Len(revs)
      BY <2>2, LenProperties, SeqMonotonic DEF ColumnsInv, RevsFit
    <3>2. /\ Len(rs) = Len(revs) + 1 /\ Len(revs) \in Nat /\ DOMAIN rs = 1..Len(rs)
          /\ \A j \in 1..Len(rs) :
                rs[j] = IF j <= at THEN revs[j] ELSE IF j = at + 1 THEN v ELSE revs[j - 1]
      <4>1. rs = InsertAt(revs, at + 1, v)
        OBVIOUS
      <4>. HIDE DEF rs
      <4>2. Inserted(rs, revs, at, v)
        BY <3>1, <4>1, InsertedAfter
      <4>. QED  BY <4>2 DEF Inserted
    <3>. HIDE DEF rs
    <3>3. i \in 1..Len(rs) /\ DOMAIN revs = 1..Len(revs)
      BY <2>7, <3>1, <3>2, LenProperties
    <3>4. CASE i = at + 1
      <4>1. rs[i] = v
        <5>1. ~(i <= at)
          BY <3>1, <3>4
        <5>. QED  BY <3>2, <3>3, <3>4, <5>1
      <4>2. revs'[i].readOnly = rs[i].readOnly
        BY <2>7, <3>2, <3>3
      <4>. QED  BY <2>5, <4>1, <4>2
    <3>5. CASE i # at + 1
      <4>1. PICK k \in DOMAIN revs : rs[i] = revs[k]
        <5>1. CASE i <= at
          BY <3>1, <3>2, <3>3, <5>1
        <5>2. CASE i > at
          <6>1. i - 1 \in 1..Len(revs) /\ ~(i <= at)
            BY <3>1, <3>2, <3>3, <3>5, <5>2
          <6>. QED  BY <3>2, <3>3, <3>5, <6>1
        <5>. QED  BY <3>1, <3>2, <3>3, <5>1, <5>2
      <4>. QED  BY <1>2, <2>7, <2>8, <4>1
    <3>. QED  BY <3>4, <3>5
  <2>9. selection'.rev = v
    BY <2>1
  <2>10. KnowsReadOnly(selection.rev, revs)'
    BY <2>5, <2>8, <2>9 DEF KnowsReadOnly
  <2>11. (selection = [rev |-> selection.rev, commits |-> selection.commits])'
    BY <2>1
  <2>. QED  BY <1>3, <2>1, <2>7, <2>10, <2>11 DEF ColumnsInv
<1>5. CASE template \notin ToSet(revs)
  <2>1. phase' # "pressed" /\ UNCHANGED <<revs, columns, size, histories, selection>>
    BY <1>5 DEF RevCreate
  <2>2. RevsFit(revs, refs, histories)'
    BY <1>1, <1>2, <2>1 DEF ColumnsInv, RevsFit
  <2>3. (\A i \in DOMAIN revs : revs[i].commit = refs[revs[i].ref])'
    BY <1>1, <1>2, <2>1 DEF ColumnsInv
  <2>4. (selection.rev # None => KnowsReadOnly(selection.rev, revs))'
    BY <2>1, SelectionShape DEF KnowsReadOnly
  <2>5. /\ (size \in Sizes /\ columns = Shown(revs, size))'
        /\ (selection = [rev |-> selection.rev, commits |-> selection.commits])'
    BY <2>1 DEF ColumnsInv, Shown
  <2>. QED  BY <1>3, <2>1, <2>2, <2>3, <2>4, <2>5 DEF ColumnsInv
<1>. QED  BY <1>4, <1>5

LEMMA RefDeleteKeeps ==
    ASSUME ColumnsInv, NEW i \in DOMAIN columns, RefDelete(i)
    PROVE  ColumnsInv' /\ ReadOnlyStep
<1>. DEFINE n == columns[i].ref
            r == [x \in DOMAIN refs \ {n} |-> refs[x]]
            hs == [x \in DOMAIN histories \ {n} |-> histories[x]]
            K == {k \in DOMAIN revs : revs[k].ref # n}
            rs == Keep(revs, K)
<1>1. /\ Mutable(columns[i]) /\ refs' = r /\ histories' = hs /\ Reload(rs, r, size)
      /\ phase' # "pressed"
      /\ \/ selection' = selection
         \/ selection' = NoSelection
  BY DEF RefDelete
<1>2. \A k \in DOMAIN revs : revs[k].ref = n => ~revs[k].readOnly
  BY <1>1, NoReadOnlyRev
<1>3. /\ revs \in Seq(ToSet(revs)) /\ size \in Sizes
      /\ \A k \in DOMAIN revs :
            LET x == revs[k].ref
            IN  /\ IsRev(revs[k]) /\ x \in DOMAIN refs /\ x \in DOMAIN histories
                /\ histories[x].cur.name = x /\ histories[x].cur.head = refs[x]
      /\ \A k, l \in DOMAIN revs :
            revs[k].ref = revs[l].ref => /\ revs[k].readOnly = revs[l].readOnly
                                         /\ revs[k].skip = revs[l].skip => k = l
  BY DEF ColumnsInv, RevsFit
<1>4. DOMAIN revs = 1..Len(revs) /\ Len(revs) \in Nat /\ K \in SUBSET (1..Len(revs))
  BY <1>3, LenProperties
<1>. HIDE DEF n, rs
<1>5. /\ IsFiniteSet(K) /\ Cardinality(K) \in Nat
      /\ rs \in Seq(ToSet(revs)) /\ Len(rs) = Cardinality(K)
      /\ \A k \in 1..Cardinality(K) : Nth(K, k) \in K /\ rs[k] = revs[Nth(K, k)]
  <2>. HIDE DEF K
  <2>. QED  BY <1>3, <1>4, KeepType DEF rs
<1>6. DOMAIN rs = 1..Cardinality(K) /\ rs \in [1..Cardinality(K) -> ToSet(revs)]
  BY <1>5, LenProperties
<1>7. rs \in Seq(ToSet(rs))
  <2>1. rs = [k \in 1..Cardinality(K) |-> rs[k]]
    BY <1>6
  <2>. QED  BY <1>5, <2>1, FunctionIsSeq
<1>8. ASSUME NEW k \in DOMAIN rs
      PROVE  /\ Nth(K, k) \in DOMAIN revs /\ rs[k] = revs[Nth(K, k)] /\ rs[k].ref # n
             /\ rs[k].ref \in DOMAIN refs
  BY <1>3, <1>5, <1>6
<1>9. ASSUME NEW k \in DOMAIN rs, NEW l \in DOMAIN rs, Nth(K, k) = Nth(K, l) PROVE k = l
  <2>1. K \in SUBSET Int
    BY <1>4
  <2>. HIDE DEF K
  <2>2. k \in 1..Cardinality(K) /\ l \in 1..Cardinality(K)
    BY <1>6
  <2>3. Rank(K, Nth(K, k)) = k /\ Rank(K, Nth(K, l)) = l
    BY <1>5, <2>1, <2>2, NthIsIndex
  <2>. QED  BY <1>9, <2>3
<1>10. ASSUME NEW k \in DOMAIN rs
       PROVE  LET x == rs[k].ref
              IN  /\ IsRev(rs[k]) /\ x \in DOMAIN r /\ x \in DOMAIN hs
                  /\ hs[x].cur.name = x /\ hs[x].cur.head = r[x]
  <2>1. LET x == rs[k].ref
        IN  /\ IsRev(rs[k]) /\ x \in DOMAIN refs /\ x \in DOMAIN histories /\ x # n
            /\ histories[x].cur.name = x /\ histories[x].cur.head = refs[x]
    <3>. DEFINE l == Nth(K, k)
    <3>1. l \in DOMAIN revs /\ rs[k] = revs[l] /\ rs[k].ref # n
      BY <1>8
    <3>. HIDE DEF l
    <3>. QED  BY <1>3, <3>1
  <2>. QED  BY <2>1
<1>11. ASSUME NEW k \in DOMAIN rs, NEW l \in DOMAIN rs, rs[k].ref = rs[l].ref
       PROVE  rs[k].readOnly = rs[l].readOnly /\ (rs[k].skip = rs[l].skip => k = l)
  <2>. HIDE DEF K
  <2>1. revs[Nth(K, k)].ref = revs[Nth(K, l)].ref
    BY <1>8, <1>11
  <2>2. /\ rs[k].readOnly = rs[l].readOnly
        /\ rs[k].skip = rs[l].skip => Nth(K, k) = Nth(K, l)
    BY <1>3, <1>8, <2>1
  <2>. QED  BY <1>9, <2>2
<1>12. ReadOnlyStep
  BY <1>1, <1>2, <1>3 DEF ReadOnlyStep
<1>. HIDE DEF r, hs, K
<1>13. RevsFit(rs, r, hs)
  BY <1>7, <1>10, <1>11 DEF RevsFit
<1>14. /\ RevsFit(revs, refs, histories)'
       /\ (\A k \in DOMAIN revs : revs[k].commit = refs[revs[k].ref])'
       /\ (size \in Sizes /\ columns = Shown(revs, size))'
       /\ DOMAIN revs' = DOMAIN rs
       /\ \A k \in DOMAIN rs : revs'[k].ref = rs[k].ref /\ revs'[k].readOnly = rs[k].readOnly
  BY <1>1, <1>3, <1>13, ReloadMirrors
<1>15. (selection.rev # None => KnowsReadOnly(selection.rev, revs))'
  <2>1. CASE selection' = NoSelection
    BY <2>1 DEF NoSelection
  <2>2. CASE selection' = selection
    BY <1>8, <1>14, <2>2, SelectionShape DEF KnowsReadOnly
  <2>. QED  BY <1>1, <2>1, <2>2
<1>16. (selection = [rev |-> selection.rev, commits |-> selection.commits])'
  BY <1>1, SelectionShape DEF NoSelection
<1>. QED  BY <1>1, <1>12, <1>14, <1>15, <1>16 DEF ColumnsInv

LEMMA ResizeKeeps ==
    ASSUME ColumnsInv, NEW s \in Sizes, Resize(s)
    PROVE  ColumnsInv' /\ ReadOnlyStep
<1>1. /\ Reload(revs, refs, s) /\ refs' = refs /\ histories' = histories
      /\ selection' = selection /\ phase' # "pressed"
  BY DEF Resize
<1>2. RevsFit(revs, refs, histories)
  BY DEF ColumnsInv
<1>3. /\ RevsFit(revs, refs, histories)'
      /\ (\A k \in DOMAIN revs : revs[k].commit = refs[revs[k].ref])'
      /\ (size \in Sizes /\ columns = Shown(revs, size))'
      /\ DOMAIN revs' = DOMAIN revs
      /\ \A k \in DOMAIN revs : revs'[k].ref = revs[k].ref /\ revs'[k].readOnly = revs[k].readOnly
  BY <1>1, <1>2, ReloadMirrors
<1>4. ReadOnlyStep
  BY <1>1, <1>2 DEF RevsFit, ReadOnlyStep
<1>5. (selection.rev # None => KnowsReadOnly(selection.rev, revs))'
  BY <1>1, <1>3, SelectionShape DEF KnowsReadOnly
<1>. QED  BY <1>1, <1>3, <1>4, <1>5, SelectionShape DEF ColumnsInv

LEMMA StepKeeps == ColumnsInv /\ [Next]_vars => ColumnsInv' /\ (ReadOnlyStep \/ UNCHANGED vars)
<1>. SUFFICES ASSUME ColumnsInv, [Next]_vars
              PROVE  ColumnsInv' /\ (ReadOnlyStep \/ UNCHANGED vars)
  OBVIOUS
<1>1. CASE Mouse
  BY <1>1, MouseKeeps
<1>2. CASE Keys
  <2>1. ASSUME NEW type \in {"Delete", "Combine", "Edit"}, Key(type)
        PROVE  ColumnsInv' /\ ReadOnlyStep
    BY <2>1, KeyKeeps
  <2>2. ASSUME NEW m, Branch(m) PROVE ColumnsInv' /\ ReadOnlyStep
    BY <2>2, RevCreateKeeps DEF Branch
  <2>. QED  BY <1>2, <2>1, <2>2 DEF Keys
<1>3. CASE Column
  <2>1. ASSUME NEW i \in DOMAIN columns, NEW undo \in BOOLEAN, UndoRedo(i, undo)
        PROVE  ColumnsInv' /\ ReadOnlyStep
    BY <2>1, UndoRedoKeeps
  <2>2. ASSUME NEW i \in DOMAIN columns, NEW m, Rename(i, m) PROVE ColumnsInv' /\ ReadOnlyStep
    BY <2>2, RenameKeeps
  <2>3. ASSUME NEW i \in DOMAIN columns, NEW m, Duplicate(i, m) PROVE ColumnsInv' /\ ReadOnlyStep
    BY <2>3, RevCreateKeeps DEF Duplicate
  <2>4. ASSUME NEW i \in DOMAIN columns, RefDelete(i) PROVE ColumnsInv' /\ ReadOnlyStep
    BY <2>4, RefDeleteKeeps
  <2>. QED  BY <1>3, <2>1, <2>2, <2>3, <2>4 DEF Column
<1>4. ASSUME NEW s \in Sizes, Resize(s) PROVE ColumnsInv' /\ ReadOnlyStep
  BY <1>4, ResizeKeeps
<1>5. CASE UNCHANGED vars
  <2>1. UNCHANGED <<refs, revs, columns, size, histories, selection, phase, press>>
    BY <1>5 DEF vars
  <2>2. phase' = "pressed" => press'.column \in DOMAIN columns
    BY <2>1, PressedColumn
  <2>. QED  BY <1>5, <2>1, <2>2, SelectionShape, QuietKeeps
<1>. QED  BY <1>1, <1>2, <1>3, <1>4, <1>5 DEF Next

(***************************************************************************)
(* The start                                                               *)
(***************************************************************************)
LEMMA UniqueElements ==
    ASSUME NEW T, NEW s \in Seq(T)
    PROVE  /\ Unique(s) \in Seq(T) /\ Len(Unique(s)) \in Nat
           /\ \A k, l \in DOMAIN Unique(s) : Unique(s)[k] = Unique(s)[l] => k = l
<1>. DEFINE I == {i \in DOMAIN s : \A j \in 1..i - 1 : s[j] # s[i]}
            u == Unique(s)
<1>1. Len(s) \in Nat /\ DOMAIN s = 1..Len(s) /\ I \in SUBSET (1..Len(s)) /\ I \in SUBSET Int
  BY LenProperties
<1>2. u = Keep(s, I)
  BY DEF Unique
<1>3. /\ IsFiniteSet(I) /\ Cardinality(I) \in Nat
      /\ u \in Seq(T) /\ Len(u) = Cardinality(I)
      /\ \A k \in 1..Cardinality(I) : Nth(I, k) \in I /\ u[k] = s[Nth(I, k)]
  <2>. HIDE DEF I, u
  <2>. QED  BY <1>1, <1>2, KeepType
<1>4. DOMAIN u = 1..Cardinality(I)
  BY <1>3, LenProperties
<1>5. ASSUME NEW k \in DOMAIN u, NEW l \in DOMAIN u, k < l PROVE u[k] # u[l]
  <2>1. k \in 1..Cardinality(I) /\ l \in 1..Cardinality(I)
    BY <1>4
  <2>2. Nth(I, k) < Nth(I, l)
    <3>. HIDE DEF I
    <3>. QED  BY <1>1, <1>3, <1>5, <2>1, NthIncreases
  <2>. DEFINE a == Nth(I, k)
              b == Nth(I, l)
  <2>3. a \in I /\ b \in I /\ u[k] = s[a] /\ u[l] = s[b]
    BY <1>3, <2>1
  <2>. HIDE DEF a, b
  <2>4. a \in 1..b - 1
    BY <1>1, <2>2, <2>3 DEF a, b
  <2>. QED  BY <2>3, <2>4
<1>6. ASSUME NEW k \in DOMAIN u, NEW l \in DOMAIN u, u[k] = u[l] PROVE k = l
  <2>1. k \in Int /\ l \in Int
    BY <1>3, <1>4
  <2>2. ~(k < l) /\ ~(l < k)
    BY <1>5, <1>6
  <2>. QED  BY <2>1, <2>2
<1>. QED  BY <1>3, <1>6

LEMMA AskedForFits ==
    ASSUME NEW l \in Launches
    PROVE  /\ AskedFor(l) \in Seq([ref : DOMAIN l.refs, skip : Nat])
           /\ \A i, j \in DOMAIN AskedFor(l) : AskedFor(l)[i] = AskedFor(l)[j] => i = j
<1>. DEFINE A == [ref : DOMAIN l.refs, skip : Nat]
            E == {i \in DOMAIN l.reflog : l.reflog[i] \in DOMAIN l.refs}
            exist == Keep(l.reflog, E)
            recent == Unique(<<l.head>> \o exist)
            count == IF RevCount < Len(recent) THEN RevCount ELSE Len(recent)
<1>1. /\ RevCount \in Nat /\ l.head \in DOMAIN l.refs /\ l.args \in Seq(A)
      /\ l.reflog \in Seq(ToSet(l.reflog))
  BY ColumnsAssumption
<1>2. CASE l.args # <<>>
  <2>1. AskedFor(l) = Unique(l.args)
    BY <1>2 DEF AskedFor
  <2>. HIDE DEF A
  <2>2. AskedFor(l) \in Seq(A) /\ \A i, j \in DOMAIN AskedFor(l) : AskedFor(l)[i] = AskedFor(l)[j] => i = j
    BY <1>1, <2>1, UniqueElements
  <2>. QED  BY <2>2 DEF A
<1>3. CASE l.args = <<>>
  <2>1. AskedFor(l) = [i \in 1..count |-> [ref |-> recent[i], skip |-> 0]]
    BY <1>3 DEF AskedFor
  <2>2. exist \in Seq(DOMAIN l.refs)
    <3>1. E \in SUBSET (1..Len(l.reflog))
      BY <1>1, LenProperties
    <3>2. /\ exist \in Seq(ToSet(l.reflog)) /\ Len(exist) = Cardinality(E)
          /\ \A k \in 1..Cardinality(E) : Nth(E, k) \in E /\ exist[k] = l.reflog[Nth(E, k)]
      <4>. HIDE DEF E, exist
      <4>1. exist = Keep(l.reflog, E)
        BY DEF exist
      <4>. QED  BY <1>1, <3>1, <4>1, KeepType
    <3>3. Len(exist) \in Nat /\ exist \in [1..Len(exist) -> ToSet(l.reflog)]
      BY <3>2, LenProperties
    <3>4. \A k \in 1..Len(exist) : exist[k] \in DOMAIN l.refs
      BY <3>2
    <3>. HIDE DEF exist
    <3>5. exist \in [1..Len(exist) -> DOMAIN l.refs]
      BY <3>3, <3>4
    <3>. QED  BY <3>3, <3>5, SeqDef
  <2>3. <<l.head>> \o exist \in Seq(DOMAIN l.refs)
    <3>1. <<l.head>> \in Seq(DOMAIN l.refs)
      <4>. DEFINE D == DOMAIN l.refs
                  h == l.head
      <4>1. h \in D
        BY <1>1
      <4>. HIDE DEF D, h
      <4>2. <<h>> \in Seq(D)
        BY <4>1
      <4>. QED  BY <4>2 DEF D, h
    <3>. HIDE DEF exist
    <3>. QED  BY <2>2, <3>1, ConcatProperties
  <2>4. /\ recent \in Seq(DOMAIN l.refs) /\ Len(recent) \in Nat
        /\ \A i, j \in DOMAIN recent : recent[i] = recent[j] => i = j
    <3>. HIDE DEF exist
    <3>. QED  BY <2>3, UniqueElements
  <2>. HIDE DEF recent
  <2>5. count \in Nat /\ count <= Len(recent) /\ DOMAIN recent = 1..Len(recent)
    BY <1>1, <2>4, LenProperties
  <2>. HIDE DEF count
  <2>6. \A i \in 1..count : i \in DOMAIN recent /\ recent[i] \in DOMAIN l.refs
    BY <2>4, <2>5, ElementOfSeq
  <2>7. AskedFor(l) \in [1..count -> A]
    BY <2>1, <2>6
  <2>8. AskedFor(l) \in Seq(A)
    BY <2>5, <2>7, SeqDef
  <2>9. ASSUME NEW i \in 1..count, NEW j \in 1..count, AskedFor(l)[i] = AskedFor(l)[j] PROVE i = j
    <3>1. AskedFor(l)[i].ref = recent[i] /\ AskedFor(l)[j].ref = recent[j]
      BY <2>1
    <3>. QED  BY <2>4, <2>6, <2>9, <3>1
  <2>. QED  BY <2>1, <2>8, <2>9
<1>. QED  BY <1>2, <1>3

LEMMA LaunchFits ==
    ASSUME NEW l \in Launches, NEW hs,
           hs = [n \in {Launched(l)[i].ref : i \in DOMAIN Launched(l)} |->
                    Fresh(Entry(n, l.refs[n], {}, {}, NoSelection, NoSelection))]
    PROVE  /\ RevsFit(Launched(l), l.refs, hs)
           /\ \A i \in DOMAIN Launched(l) : Launched(l)[i].commit = l.refs[Launched(l)[i].ref]
<1>. DEFINE a == AskedFor(l)
            rs == Launched(l)
<1>1. /\ a \in Seq([ref : DOMAIN l.refs, skip : Nat])
      /\ \A i, j \in DOMAIN a : a[i] = a[j] => i = j
  BY AskedForFits
<1>2. Len(a) \in Nat /\ DOMAIN a = 1..Len(a) /\ a \in [1..Len(a) -> [ref : DOMAIN l.refs, skip : Nat]]
  BY <1>1, LenProperties
<1>3. rs = [i \in 1..Len(a) |->
              [ref |-> a[i].ref, skip |-> a[i].skip, readOnly |-> l.dirty /\ a[i].ref = l.head,
               commit |-> l.refs[a[i].ref]]]
  BY <1>2 DEF Launched
<1>. HIDE DEF rs, a
<1>4. rs \in Seq(ToSet(rs)) /\ DOMAIN rs = 1..Len(a)
  BY <1>2, <1>3, FunctionIsSeq
<1>5. ASSUME NEW i \in DOMAIN rs
      PROVE  /\ rs[i].ref = a[i].ref /\ rs[i].skip = a[i].skip
             /\ rs[i].readOnly = (l.dirty /\ a[i].ref = l.head)
             /\ rs[i].commit = l.refs[a[i].ref]
             /\ IsRev(rs[i]) /\ i \in DOMAIN a
             /\ a[i] = [ref |-> a[i].ref, skip |-> a[i].skip] /\ a[i].ref \in DOMAIN l.refs
  <2>1. rs[i] = [ref |-> a[i].ref, skip |-> a[i].skip, readOnly |-> l.dirty /\ a[i].ref = l.head,
                 commit |-> l.refs[a[i].ref]]
    BY <1>3, <1>4
  <2>2. i \in DOMAIN a /\ a[i] \in [ref : DOMAIN l.refs, skip : Nat]
    BY <1>2, <1>4
  <2>3. IsRev(rs[i])
    BY <2>1 DEF IsRev
  <2>. QED  BY <2>1, <2>2, <2>3
<1>6. ASSUME NEW i \in DOMAIN rs
      PROVE  LET n == rs[i].ref
             IN  /\ IsRev(rs[i]) /\ n \in DOMAIN l.refs /\ n \in DOMAIN hs
                 /\ hs[n].cur.name = n /\ hs[n].cur.head = l.refs[n]
  <2>. DEFINE n == rs[i].ref
  <2>1. n \in DOMAIN hs /\ hs[n] = Fresh(Entry(n, l.refs[n], {}, {}, NoSelection, NoSelection))
    BY DEF rs
  <2>2. hs[n].cur.name = n /\ hs[n].cur.head = l.refs[n]
    BY <2>1 DEF Fresh, Entry
  <2>. QED  BY <1>5, <2>1, <2>2
<1>7. ASSUME NEW i \in DOMAIN rs, NEW j \in DOMAIN rs, rs[i].ref = rs[j].ref
      PROVE  rs[i].readOnly = rs[j].readOnly /\ (rs[i].skip = rs[j].skip => i = j)
  <2>0. a[i].ref = a[j].ref
    BY <1>5, <1>7
  <2>1. rs[i].readOnly = rs[j].readOnly
    <3>1. rs[i].readOnly = (l.dirty /\ a[i].ref = l.head)
      BY <1>5
    <3>2. rs[j].readOnly = (l.dirty /\ a[j].ref = l.head)
      BY <1>5
    <3>. QED  BY <2>0, <3>1, <3>2, Zenon
  <2>2. ASSUME rs[i].skip = rs[j].skip PROVE a[i] = a[j]
    <3>1. a[i].skip = a[j].skip
      BY <1>5, <2>2
    <3>2. /\ a[i] = [ref |-> a[i].ref, skip |-> a[i].skip]
          /\ a[j] = [ref |-> a[j].ref, skip |-> a[j].skip]
      BY <1>5
    <3>. QED  BY <2>0, <3>1, <3>2, Zenon
  <2>. QED  BY <1>1, <1>5, <2>1, <2>2
<1>8. RevsFit(rs, l.refs, hs)
  BY <1>4, <1>6, <1>7 DEF RevsFit
<1>9. \A i \in DOMAIN rs : rs[i].commit = l.refs[rs[i].ref]
  BY <1>5
<1>. QED  BY <1>8, <1>9 DEF rs

LEMMA StartKeeps == Init => ColumnsInv
<1>. SUFFICES ASSUME Init PROVE ColumnsInv
  OBVIOUS
<1>1. PICK l \in Launches, s \in Sizes :
         /\ refs = l.refs
         /\ revs = Launched(l)
         /\ size = s
         /\ columns = Shown(revs, s)
         /\ histories = [n \in {revs[i].ref : i \in DOMAIN revs} |->
                            Fresh(Entry(n, refs[n], {}, {}, NoSelection, NoSelection))]
  BY DEF Init
<1>2. histories = [n \in {Launched(l)[i].ref : i \in DOMAIN Launched(l)} |->
                      Fresh(Entry(n, l.refs[n], {}, {}, NoSelection, NoSelection))]
  BY <1>1
<1>3. /\ RevsFit(Launched(l), l.refs, histories)
      /\ \A i \in DOMAIN Launched(l) : Launched(l)[i].commit = l.refs[Launched(l)[i].ref]
  BY <1>2, LaunchFits
<1>4. selection = NoSelection /\ phase = "idle"
  BY DEF Init
<1>. QED  BY <1>1, <1>3, <1>4 DEF ColumnsInv, NoSelection

(***************************************************************************)
(* The entries of a history say what was selected in its states            *)
(***************************************************************************)
Over(e, s) == <<e>> \o s

LEMMA Prepended ==
    ASSUME NEW T, NEW e \in T, NEW s \in Seq(T)
    PROVE  /\ Over(e, s) \in Seq(T)
           /\ Len(s) \in Nat /\ Len(Over(e, s)) = Len(s) + 1 /\ Over(e, s)[1] = e
           /\ \A i \in 2..Len(Over(e, s)) : Over(e, s)[i] = s[i - 1]
           /\ \A x \in ToSet(Over(e, s)) : x = e \/ x \in ToSet(s)
<1>. DEFINE u == <<e>>
            t == Over(e, s)
<1>1. u \in Seq(T) /\ Len(u) = 1 /\ u[1] = e /\ Len(s) \in Nat
  BY LenProperties
<1>2. t = u \o s
  BY DEF Over
<1>. HIDE DEF u, t
<1>3. /\ t \in Seq(T) /\ Len(t) = Len(u) + Len(s)
      /\ \A i \in 1..Len(u) + Len(s) : t[i] = IF i <= Len(u) THEN u[i] ELSE s[i - Len(u)]
  BY <1>1, <1>2, ConcatProperties
<1>4. Len(t) = Len(s) + 1 /\ t[1] = e /\ \A i \in 2..Len(t) : t[i] = s[i - 1]
  BY <1>1, <1>3
<1>5. DOMAIN t = 1..Len(t) /\ DOMAIN s = 1..Len(s)
  BY <1>3, LenProperties
<1>7. \A i \in DOMAIN t : i = 1 \/ (i - 1 \in DOMAIN s /\ t[i] = s[i - 1])
  BY <1>1, <1>4, <1>5
<1>9. \A x \in ToSet(t) : x = e \/ x \in ToSet(s)
  BY <1>4, <1>7 DEF ToSet
<1>. QED  BY <1>1, <1>3, <1>4, <1>9 DEF t

LEMMA TailOfStack ==
    ASSUME NEW T, NEW s \in Seq(T), s # <<>>, NEW t, t = Tail(s)
    PROVE  /\ t \in Seq(T) /\ Len(s) \in Nat \ {0} /\ Len(t) = Len(s) - 1
           /\ Head(s) = s[1] /\ s[1] \in ToSet(s) /\ s[1] \in T
           /\ \A i \in 1..Len(t) : t[i] = s[i + 1]
           /\ ToSet(t) \subseteq ToSet(s)
<1>1. Len(s) \in Nat /\ Len(s) # 0 /\ DOMAIN s = 1..Len(s) /\ s[1] \in T
  BY LenProperties, EmptySeq, ElementOfSeq
<1>2. /\ t \in Seq(T) /\ Len(t) = Len(s) - 1 /\ Head(s) = s[1]
      /\ \A i \in 1..Len(t) : t[i] = s[i + 1]
  BY <1>1, HeadTailProperties
<1>3. DOMAIN t = 1..Len(t)
  BY <1>2, LenProperties
<1>4. \A i \in DOMAIN t : i + 1 \in DOMAIN s /\ t[i] = s[i + 1]
  BY <1>1, <1>2, <1>3
<1>5. ToSet(t) \subseteq ToSet(s) /\ s[1] \in ToSet(s)
  BY <1>1, <1>4 DEF ToSet
<1>. QED  BY <1>1, <1>2, <1>5

\* The two stacks of a history, each with the entry that lies over it.
OlderFit(s, top) == \A i \in 1..Len(s) : Follows(s[i], IF i = 1 THEN top ELSE s[i - 1])
NewerFit(s, top) == \A i \in 1..Len(s) : Follows(IF i = 1 THEN top ELSE s[i - 1], s[i])

LEMMA StacksGrow ==
    ASSUME NEW T, NEW s \in Seq(T), NEW top \in T, NEW e
    PROVE  /\ OlderFit(s, top) /\ Follows(top, e) => OlderFit(Over(top, s), e)
           /\ NewerFit(s, top) /\ Follows(e, top) => NewerFit(Over(top, s), e)
<1>. DEFINE t == Over(top, s)
<1>1. /\ Len(s) \in Nat /\ Len(t) = Len(s) + 1 /\ t[1] = top
      /\ \A i \in 2..Len(t) : t[i] = s[i - 1]
  BY Prepended
<1>. HIDE DEF t
<1>2. ASSUME NEW i \in 1..Len(t), i # 1
      PROVE  /\ i - 1 \in 1..Len(s) /\ t[i] = s[i - 1]
             /\ t[i - 1] = IF i - 1 = 1 THEN top ELSE s[i - 1 - 1]
  BY <1>1, <1>2
<1>3. ASSUME OlderFit(s, top), Follows(top, e), NEW i \in 1..Len(t)
      PROVE  Follows(t[i], IF i = 1 THEN e ELSE t[i - 1])
  <2>1. CASE i = 1
    BY <1>1, <1>3, <2>1
  <2>2. CASE i # 1
    BY <1>2, <1>3, <2>2 DEF OlderFit
  <2>. QED  BY <2>1, <2>2
<1>4. ASSUME NewerFit(s, top), Follows(e, top), NEW i \in 1..Len(t)
      PROVE  Follows(IF i = 1 THEN e ELSE t[i - 1], t[i])
  <2>1. CASE i = 1
    BY <1>1, <1>4, <2>1
  <2>2. CASE i # 1
    BY <1>2, <1>4, <2>2 DEF NewerFit
  <2>. QED  BY <2>1, <2>2
<1>. QED  BY <1>3, <1>4 DEF OlderFit, NewerFit, t

LEMMA StacksShrink ==
    ASSUME NEW T, NEW s \in Seq(T), s # <<>>, NEW top, NEW t, t = Tail(s)
    PROVE  /\ OlderFit(s, top) => OlderFit(t, s[1]) /\ Follows(s[1], top)
           /\ NewerFit(s, top) => NewerFit(t, s[1]) /\ Follows(top, s[1])
<1>1. /\ Len(s) \in Nat \ {0} /\ Len(t) = Len(s) - 1
      /\ \A i \in 1..Len(t) : t[i] = s[i + 1]
  BY TailOfStack
<1>2. 1 \in 1..Len(s)
  BY <1>1
<1>3. ASSUME NEW i \in 1..Len(t)
      PROVE  /\ i + 1 \in 1..Len(s) /\ i + 1 # 1 /\ t[i] = s[i + 1]
             /\ s[i + 1 - 1] = IF i = 1 THEN s[1] ELSE t[i - 1]
  BY <1>1
<1>4. ASSUME OlderFit(s, top), NEW i \in 1..Len(t)
      PROVE  Follows(t[i], IF i = 1 THEN s[1] ELSE t[i - 1])
  <2>1. Follows(s[i + 1], s[i + 1 - 1])
    BY <1>3, <1>4 DEF OlderFit
  <2>. QED  BY <1>3, <2>1
<1>5. ASSUME NewerFit(s, top), NEW i \in 1..Len(t)
      PROVE  Follows(IF i = 1 THEN s[1] ELSE t[i - 1], t[i])
  <2>1. Follows(s[i + 1 - 1], s[i + 1])
    BY <1>3, <1>5 DEF NewerFit
  <2>. QED  BY <1>3, <2>1
<1>. QED  BY <1>2, <1>4, <1>5 DEF OlderFit, NewerFit

SelectedWithin(e) == e.selection \subseteq Ancestors(e.head)

LEMMA FitsByStack ==
    ASSUME NEW h
    PROVE  HistoryFits(h) <=>
              /\ \A e \in ToSet(h.prev) \cup {h.cur} \cup ToSet(h.next) : SelectedWithin(e)
              /\ OlderFit(h.prev, h.cur) /\ NewerFit(h.next, h.cur)
BY DEF HistoryFits, SelectedWithin, OlderFit, NewerFit

LEMMA FreshFits ==
    ASSUME NEW e \in Entries, e.selection = {}
    PROVE  Fresh(e) \in HistoryOf(Entries) /\ HistoryFits(Fresh(e)) /\ Fresh(e).cur = e
<1>. DEFINE h == Fresh(e)
            nothing == <<>>
<1>1. h = [prev |-> nothing, cur |-> e, next |-> nothing]
  BY DEF Fresh
<1>2. nothing \in Seq(Entries) /\ Len(nothing) = 0 /\ ToSet(nothing) = {}
  BY DEF ToSet
<1>. HIDE DEF h, nothing
<1>3. h \in HistoryOf(Entries) /\ h.prev = nothing /\ h.next = nothing /\ h.cur = e
  BY <1>1, <1>2 DEF HistoryOf
<1>4. OlderFit(nothing, e) /\ NewerFit(nothing, e)
  BY <1>2 DEF OlderFit, NewerFit
<1>. QED  BY <1>2, <1>3, <1>4, FitsByStack DEF h, SelectedWithin

LEMMA PushFits ==
    ASSUME NEW h \in HistoryOf(Entries), HistoryFits(h),
           NEW e \in Entries, SelectedWithin(e), Follows(h.cur, e)
    PROVE  Push(h, e) \in HistoryOf(Entries) /\ HistoryFits(Push(h, e))
<1>. DEFINE g == Push(h, e)
            nothing == <<>>
            t == Over(h.cur, h.prev)
<1>1. h.prev \in Seq(Entries) /\ h.cur \in Entries /\ h.next \in Seq(Entries)
  BY DEF HistoryOf
<1>2. g = [prev |-> t, cur |-> e, next |-> nothing]
  BY DEF Push, Over
<1>3. nothing \in Seq(Entries) /\ Len(nothing) = 0 /\ ToSet(nothing) = {}
  BY DEF ToSet
<1>4. t \in Seq(Entries) /\ \A x \in ToSet(t) : x = h.cur \/ x \in ToSet(h.prev)
  BY <1>1, Prepended
<1>5. OlderFit(t, e)
  BY <1>1, FitsByStack, StacksGrow
<1>. HIDE DEF t, g, nothing
<1>6. g \in HistoryOf(Entries) /\ g.prev = t /\ g.cur = e /\ g.next = nothing
  BY <1>2, <1>3, <1>4 DEF HistoryOf
<1>7. NewerFit(nothing, e)
  BY <1>3 DEF NewerFit
<1>8. \A x \in ToSet(g.prev) \cup {g.cur} \cup ToSet(g.next) : SelectedWithin(x)
  BY <1>3, <1>4, <1>6, FitsByStack
<1>. QED  BY <1>5, <1>6, <1>7, <1>8, FitsByStack DEF g

LEMMA BackFits ==
    ASSUME NEW h \in HistoryOf(Entries), HistoryFits(h), CanUndo(h)
    PROVE  /\ StepBack(h) \in HistoryOf(Entries) /\ HistoryFits(StepBack(h))
           /\ PrevPeek(h) \in Entries /\ Follows(PrevPeek(h), h.cur)
           /\ StepBack(h).cur = PrevPeek(h)
<1>. DEFINE g == StepBack(h)
            s == Tail(h.prev)
            t == Over(h.cur, h.next)
<1>1. h.prev \in Seq(Entries) /\ h.cur \in Entries /\ h.next \in Seq(Entries) /\ h.prev # <<>>
  BY DEF HistoryOf, CanUndo
<1>2. g = [prev |-> s, cur |-> PrevPeek(h), next |-> t]
  BY DEF StepBack, Over
<1>3. /\ s \in Seq(Entries) /\ PrevPeek(h) = h.prev[1] /\ h.prev[1] \in Entries
      /\ h.prev[1] \in ToSet(h.prev) /\ ToSet(s) \subseteq ToSet(h.prev)
  BY <1>1, TailOfStack DEF PrevPeek
<1>4. t \in Seq(Entries) /\ \A x \in ToSet(t) : x = h.cur \/ x \in ToSet(h.next)
  BY <1>1, Prepended
<1>5. OlderFit(s, h.prev[1]) /\ Follows(h.prev[1], h.cur)
  BY <1>1, FitsByStack, StacksShrink
<1>6. NewerFit(t, h.prev[1])
  BY <1>1, <1>5, FitsByStack, StacksGrow
<1>. HIDE DEF s, t, g
<1>7. g \in HistoryOf(Entries) /\ g.prev = s /\ g.cur = h.prev[1] /\ g.next = t
  BY <1>2, <1>3, <1>4 DEF HistoryOf
<1>8. \A x \in ToSet(g.prev) \cup {g.cur} \cup ToSet(g.next) : SelectedWithin(x)
  BY <1>3, <1>4, <1>7, FitsByStack
<1>. QED  BY <1>3, <1>5, <1>6, <1>7, <1>8, FitsByStack DEF g

LEMMA ForthFits ==
    ASSUME NEW h \in HistoryOf(Entries), HistoryFits(h), CanRedo(h)
    PROVE  /\ StepForth(h) \in HistoryOf(Entries) /\ HistoryFits(StepForth(h))
           /\ NextPeek(h) \in Entries /\ Follows(h.cur, NextPeek(h)) /\ SelectedWithin(NextPeek(h))
           /\ StepForth(h).cur = NextPeek(h)
<1>. DEFINE g == StepForth(h)
            s == Tail(h.next)
            t == Over(h.cur, h.prev)
<1>1. h.prev \in Seq(Entries) /\ h.cur \in Entries /\ h.next \in Seq(Entries) /\ h.next # <<>>
  BY DEF HistoryOf, CanRedo
<1>2. g = [prev |-> t, cur |-> NextPeek(h), next |-> s]
  BY DEF StepForth, Over
<1>3. /\ s \in Seq(Entries) /\ NextPeek(h) = h.next[1] /\ h.next[1] \in Entries
      /\ h.next[1] \in ToSet(h.next) /\ ToSet(s) \subseteq ToSet(h.next)
  BY <1>1, TailOfStack DEF NextPeek
<1>4. t \in Seq(Entries) /\ \A x \in ToSet(t) : x = h.cur \/ x \in ToSet(h.prev)
  BY <1>1, Prepended
<1>5. NewerFit(s, h.next[1]) /\ Follows(h.cur, h.next[1])
  BY <1>1, FitsByStack, StacksShrink
<1>6. OlderFit(t, h.next[1])
  BY <1>1, <1>5, FitsByStack, StacksGrow
<1>. HIDE DEF s, t, g
<1>7. g \in HistoryOf(Entries) /\ g.prev = t /\ g.cur = h.next[1] /\ g.next = s
  BY <1>2, <1>3, <1>4 DEF HistoryOf
<1>8. \A x \in ToSet(g.prev) \cup {g.cur} \cup ToSet(g.next) : SelectedWithin(x)
  BY <1>3, <1>4, <1>7, FitsByStack
<1>9. SelectedWithin(h.next[1])
  BY <1>3, FitsByStack
<1>. QED  BY <1>3, <1>5, <1>6, <1>7, <1>8, <1>9, FitsByStack DEF g

(***************************************************************************)
(* What the steps need to know of the selection                            *)
(***************************************************************************)
TypesFit ==
    /\ DOMAIN refs \subseteq Names /\ \A n \in DOMAIN refs : refs[n] \in Commits \ {Null}
    /\ \A i \in DOMAIN revs : revs[i].skip \in Nat /\ revs[i].readOnly \in BOOLEAN
    /\ DOMAIN histories \subseteq DOMAIN refs
    /\ \A n \in DOMAIN histories : histories[n] \in HistoryOf(Entries) /\ HistoryFits(histories[n])

SelectionOk(sel, rs) ==
    /\ sel = [rev |-> sel.rev, commits |-> sel.commits]
    /\ sel.rev = None => sel.commits = {}
    /\ sel.rev # None => sel.rev \in ToSet(rs) /\ sel.commits \subseteq Ancestors(sel.rev.commit)

PhaseOk ==
    /\ phase \in {"idle", "pressed", "aborted"}
    /\ press \in [column : Nat, commit : Commits, dragged : BOOLEAN]
    /\ phase = "pressed" <=> press # NoPress
    /\ phase = "pressed" => /\ press.commit \in Panels(columns[press.column])
                            /\ Selected(columns[press.column], press.commit)
    /\ phase = "aborted" => selection.rev # None /\ selection.rev.skip > 0
    /\ drag \in BOOLEAN /\ ops \in 0..MaxOps

LEMMA RevIsTyped ==
    ASSUME NEW v, IsRev(v), v.ref \in Names, v.skip \in Nat, v.readOnly \in BOOLEAN,
           v.commit \in Commits \ {Null}
    PROVE  v \in Rev
<1>. DEFINE w == [ref |-> v.ref, skip |-> v.skip, readOnly |-> v.readOnly, commit |-> v.commit]
<1>1. v = w
  BY DEF IsRev
<1>2. w \in Rev
  BY DEF Rev
<1>. QED  BY <1>1, <1>2

LEMMA RevShape ==
    ASSUME NEW v \in Rev
    PROVE  /\ IsRev(v) /\ v.ref \in Names /\ v.skip \in Nat /\ v.readOnly \in BOOLEAN
           /\ v.commit \in Commits \ {Null} /\ v # None
<1>1. None \notin Rev
  BY ColumnsAssumption
<1>. QED  BY <1>1 DEF Rev, IsRev

\* The revs, while the columns mirror git.
LEMMA RevFacts ==
    ASSUME ColumnsInv, TypesFit, NEW i \in DOMAIN revs
    PROVE  /\ revs[i] \in Rev /\ revs[i] \in ToSet(revs)
           /\ revs[i].ref \in DOMAIN refs /\ revs[i].ref \in DOMAIN histories
           /\ revs[i].commit = refs[revs[i].ref]
           /\ histories[revs[i].ref].cur.name = revs[i].ref
           /\ histories[revs[i].ref].cur.head = refs[revs[i].ref]
<1>1. /\ IsRev(revs[i]) /\ revs[i].ref \in DOMAIN refs /\ revs[i].ref \in DOMAIN histories
      /\ revs[i].commit = refs[revs[i].ref]
      /\ histories[revs[i].ref].cur.name = revs[i].ref
      /\ histories[revs[i].ref].cur.head = refs[revs[i].ref]
  BY DEF ColumnsInv, RevsFit
<1>2. /\ revs[i].ref \in Names /\ revs[i].commit \in Commits \ {Null}
      /\ revs[i].skip \in Nat /\ revs[i].readOnly \in BOOLEAN
  BY <1>1 DEF TypesFit
<1>3. revs[i] \in Rev
  BY <1>1, <1>2, RevIsTyped
<1>. QED  BY <1>1, <1>3 DEF ToSet

LEMMA ColumnFacts ==
    ASSUME ColumnsInv, TypesFit, NEW i \in DOMAIN columns
    PROVE  /\ columns[i] \in Rev /\ columns[i] \in ToSet(revs) /\ i \in DOMAIN revs
           /\ columns[i] = revs[i] /\ columns[i].ref \in DOMAIN refs
           /\ columns[i].ref \in DOMAIN histories /\ columns[i].commit = refs[columns[i].ref]
<1>1. i \in DOMAIN revs /\ columns[i] = revs[i]
  BY ColumnIsRev
<1>. QED  BY <1>1, RevFacts

\* What is selected.
LEMMA SelectionFacts ==
    ASSUME ColumnsInv, TypesFit, NEW sel, SelectionOk(sel, revs)
    PROVE  /\ sel \in Selections /\ sel.commits \in SUBSET (Commits \ {Null})
           /\ sel.rev # None => /\ sel.rev \in Rev /\ sel.rev.ref \in DOMAIN refs
                                /\ sel.rev.commit = refs[sel.rev.ref]
                                /\ sel.commits \subseteq Ancestors(refs[sel.rev.ref])
<1>1. CASE sel.rev = None
  <2>1. sel = [rev |-> None, commits |-> {}]
    BY <1>1 DEF SelectionOk
  <2>. QED  BY <2>1 DEF Selections
<1>2. CASE sel.rev # None
  <2>1. PICK i \in DOMAIN revs : sel.rev = revs[i]
    BY <1>2 DEF SelectionOk, ToSet
  <2>2. /\ sel.rev \in Rev /\ sel.rev.ref \in DOMAIN refs
        /\ sel.rev.commit = refs[sel.rev.ref] /\ sel.rev.commit \in Commits
    BY <2>1, RevFacts, RevShape
  <2>3. sel.commits \subseteq Ancestors(sel.rev.commit)
    BY <1>2 DEF SelectionOk
  <2>4. sel.commits \in SUBSET (Commits \ {Null})
    BY <2>2, <2>3, AncestorsAreCommits
  <2>5. sel = [rev |-> sel.rev, commits |-> sel.commits]
    BY DEF SelectionOk
  <2>6. sel \in Selections
    BY <2>2, <2>4, <2>5 DEF Selections
  <2>. QED  BY <2>2, <2>3, <2>4, <2>6
<1>. QED  BY <1>1, <1>2

LEMMA PanelIsAncestor ==
    ASSUME NEW rev, NEW x \in Panels(rev)
    PROVE  x \in Ancestors(rev.commit)
BY DEF Panels

LEMMA Dismantled ==
    ASSUME InductiveInv
    PROVE  /\ ColumnsInv /\ TypesFit /\ PhaseOk
           /\ phase # "aborted" => SelectionOk(selection, revs)
<1>1. ColumnsInv /\ SelectionsInv /\ TypeOK
  BY DEF InductiveInv, SelectionsInv
<1>2. \A i \in DOMAIN revs : revs[i].skip \in Nat /\ revs[i].readOnly \in BOOLEAN
  BY <1>1, RevShape DEF TypeOK
<1>3. TypesFit
  BY <1>1, <1>2 DEF TypeOK, TypesFit, SelectionsInv
<1>4. PhaseOk
  BY <1>1 DEF TypeOK, SelectionsInv, PhaseOk
<1>5. phase # "aborted" => SelectionOk(selection, revs)
  BY <1>1 DEF ColumnsInv, SelectionsInv, SelectionIsLive, SelectionOk
<1>. QED  BY <1>1, <1>3, <1>4, <1>5

LEMMA ColumnsAreRevs ==
    ColumnsInv => \A i \in DOMAIN columns : i \in DOMAIN revs /\ columns[i] = revs[i]
BY ColumnIsRev

LEMMA Assembled ==
    ASSUME ColumnsInv', TypesFit', PhaseOk', SelectionOk(selection, revs)'
    PROVE  InductiveInv'
<1>1. \A i \in DOMAIN revs' : revs'[i] \in Rev
  <2>1. SUFFICES ASSUME NEW i \in DOMAIN revs' PROVE revs'[i] \in Rev
    OBVIOUS
  <2>2. /\ IsRev(revs'[i]) /\ revs'[i].ref \in DOMAIN refs'
        /\ revs'[i].commit = refs'[revs'[i].ref]
    BY DEF ColumnsInv, RevsFit
  <2>3. /\ revs'[i].ref \in Names /\ revs'[i].commit \in Commits \ {Null}
        /\ revs'[i].skip \in Nat /\ revs'[i].readOnly \in BOOLEAN
    BY <2>2 DEF TypesFit
  <2>. QED  BY <2>2, <2>3, RevIsTyped
<1>2. selection' \in Selections
  <2>1. CASE selection'.rev = None
    <3>1. selection' = [rev |-> None, commits |-> {}]
      BY <2>1 DEF SelectionOk
    <3>. QED  BY <3>1 DEF Selections
  <2>2. CASE selection'.rev # None
    <3>1. selection'.rev \in Rev
      BY <1>1, <2>2 DEF SelectionOk, ToSet
    <3>2. selection'.commits \subseteq Commits
      BY <2>2, <3>1, AncestorsAreCommits, RevShape DEF SelectionOk
    <3>3. selection' = [rev |-> selection'.rev, commits |-> selection'.commits]
      BY DEF SelectionOk
    <3>. QED  BY <3>1, <3>2, <3>3 DEF Selections
  <2>. QED  BY <2>1, <2>2
<1>3. \A i \in DOMAIN columns' : columns'[i] \in Rev
  <2>1. \A i \in DOMAIN columns' : i \in DOMAIN revs' /\ columns'[i] = revs'[i]
    <3>1. (ColumnsInv => \A i \in DOMAIN columns : i \in DOMAIN revs /\ columns[i] = revs[i])'
      BY ColumnsAreRevs, PTL
    <3>. QED  BY <3>1
  <2>. QED  BY <1>1, <2>1
<1>4. (size \in Sizes)'
  BY DEF ColumnsInv
<1>5. TypeOK'
  BY <1>1, <1>2, <1>3, <1>4 DEF TypesFit, PhaseOk, TypeOK
<1>6. SelectionIsLive'
  BY DEF SelectionOk, SelectionIsLive
<1>7. SelectionsInv'
  BY <1>5, <1>6 DEF TypesFit, PhaseOk, SelectionOk, SelectionsInv
<1>. QED  BY <1>7 DEF InductiveInv

LEMMA SelectedInOwn ==
    ASSUME NEW sel, NEW n
    PROVE  /\ sel.rev # None /\ sel.rev.ref = n => SelectedIn(sel, n) = sel.commits
           /\ ~(sel.rev # None /\ sel.rev.ref = n) => SelectedIn(sel, n) = {}
           /\ SelectedIn(NoSelection, n) = {}
BY DEF SelectedIn, NoSelection

LEMMA NoSelectionTyped == NoSelection \in Selections
BY DEF NoSelection, Selections

LEMMA EntryTyped ==
    ASSUME NEW n \in Names, NEW c \in Commits \ {Null}, NEW s \in SUBSET Commits,
           NEW p \in SUBSET Commits, NEW before \in Selections, NEW after \in Selections
    PROVE  /\ Entry(n, c, s, p, before, after) \in Entries
           /\ Entry(n, c, s, p, before, after).name = n
           /\ Entry(n, c, s, p, before, after).head = c
           /\ Entry(n, c, s, p, before, after).selection = s
           /\ Entry(n, c, s, p, before, after).selectionPrev = p
           /\ Entry(n, c, s, p, before, after).before = before
           /\ Entry(n, c, s, p, before, after).after = after
BY DEF Entry, Entries

\* What an operation may be asked to do, so that it is done to what is there.
CanBeAsked(type, sel, dst, position) ==
    /\ sel.rev # None
    /\ \/ type \in {"Delete", "Combine", "Edit"} /\ dst = None
          /\ (type # "Delete" => sel.commits # {})
       \/ /\ type \in {"Move", "Copy"} /\ dst \in ToSet(revs)
          /\ position \in Ancestors(dst.commit) \cup {Null}

\* The operation, as Git::Modify is asked for it.
Operation(type, sel, dst, position) ==
    [type |-> type, src |-> sel.rev.ref, commits |-> sel.commits,
     dst |-> IF dst = None THEN None ELSE dst.ref, position |-> position]

LEMMA OperationCanBeAsked ==
    ASSUME ColumnsInv, TypesFit, NEW type, NEW sel, NEW dst, NEW position,
           SelectionOk(sel, revs), CanBeAsked(type, sel, dst, position)
    PROVE  LET o == Operation(type, sel, dst, position)
           IN  /\ CanAsk(refs, o) /\ Edited \in Changes
               /\ o.type = type /\ o.src = sel.rev.ref
               /\ dst = None => o.dst = None /\ type \notin {"Move", "Copy"}
               /\ dst # None => /\ o.dst = dst.ref /\ o.dst # None /\ type \in {"Move", "Copy"}
                                /\ dst \in Rev /\ dst \in ToSet(revs) /\ dst.ref \in DOMAIN refs
<1>. DEFINE o == Operation(type, sel, dst, position)
<1>1. Edited \in Changes /\ None \notin Names /\ None \notin Rev
  BY ColumnsAssumption
<1>2. /\ sel.rev # None /\ sel.rev.ref \in DOMAIN refs
      /\ sel.commits \subseteq Ancestors(refs[sel.rev.ref])
      /\ refs[sel.rev.ref] \in Commits
  BY SelectionFacts DEF CanBeAsked, TypesFit
<1>3. /\ o.type = type /\ o.src = sel.rev.ref /\ o.commits = sel.commits
      /\ o.dst = (IF dst = None THEN None ELSE dst.ref) /\ o.position = position
  BY DEF Operation
<1>4. sel.rev.ref # None
  BY <1>1, <1>2 DEF TypesFit
<1>. HIDE DEF o
<1>5. CASE type \in {"Delete", "Combine", "Edit"} /\ dst = None
  <2>1. type # "Delete" => sel.commits # {}
    BY <1>1, <1>5 DEF CanBeAsked
  <2>2. type \notin {"Move", "Copy"}
    BY <1>5
  <2>. QED  BY <1>1, <1>2, <1>3, <1>4, <1>5, <2>1, <2>2 DEF CanAsk, o
<1>6. CASE type \in {"Move", "Copy"} /\ dst \in ToSet(revs)
  <2>1. PICK i \in DOMAIN revs : dst = revs[i]
    BY <1>6 DEF ToSet
  <2>2. /\ dst \in Rev /\ dst.ref \in DOMAIN refs /\ dst.commit = refs[dst.ref]
        /\ refs[dst.ref] \in Commits
    BY <2>1, RevFacts, RevShape DEF TypesFit
  <2>3. dst # None /\ dst.ref # None
    BY <1>1, <2>2 DEF TypesFit
  <2>4. position \in Ancestors(refs[dst.ref]) \cup {Null}
    BY <1>6, <2>2 DEF CanBeAsked
  <2>. QED  BY <1>1, <1>2, <1>3, <1>4, <1>6, <2>2, <2>3, <2>4 DEF CanAsk, o
<1>. QED  BY <1>5, <1>6 DEF CanBeAsked

\* The entries of an operation say what was selected before and after it.
LEMMA EntriesFit ==
    ASSUME ColumnsInv, TypesFit, NEW sel, SelectionOk(sel, revs), sel.rev # None,
           NEW n \in DOMAIN histories, histories[n].cur.name = n, histories[n].cur.head = refs[n],
           NEW c \in Commits \ {Null}, NEW s, s \subseteq Ancestors(c),
           NEW p, NEW before \in Selections, NEW after \in Selections,
           p = SelectedIn(before, n), s = SelectedIn(after, n),
           p = {} \/ (p = sel.commits /\ sel.rev.ref = n)
    PROVE  LET g == Push(histories[n], Entry(n, c, s, p, before, after))
           IN  g \in HistoryOf(Entries) /\ HistoryFits(g)
<1>. DEFINE e == Entry(n, c, s, p, before, after)
<1>1. n \in DOMAIN refs /\ n \in Names /\ refs[n] \in Commits
      /\ histories[n] \in HistoryOf(Entries) /\ HistoryFits(histories[n])
  BY DEF TypesFit
<1>2. p \in SUBSET Commits /\ p \subseteq Ancestors(refs[n])
  BY SelectionFacts
<1>3. s \in SUBSET Commits
  BY AncestorsAreCommits
<1>4. /\ e \in Entries /\ e.name = n /\ e.head = c /\ e.selection = s /\ e.selectionPrev = p
      /\ e.before = before /\ e.after = after
  BY <1>1, <1>2, <1>3, EntryTyped
<1>. HIDE DEF e
<1>5. SelectedWithin(e) /\ Follows(histories[n].cur, e)
  BY <1>2, <1>4 DEF SelectedWithin, Follows
<1>6. Push(histories[n], e) \in HistoryOf(Entries) /\ HistoryFits(Push(histories[n], e))
  BY <1>1, <1>4, <1>5, PushFits
<1>. QED  BY <1>6 DEF e

LEMMA ExecFits ==
    ASSUME ColumnsInv, TypesFit, NEW type, NEW sel, NEW dst, NEW position,
           SelectionOk(sel, revs), CanBeAsked(type, sel, dst, position),
           Exec(type, sel, dst, position), ops \in 0..MaxOps
    PROVE  TypesFit' /\ SelectionOk(selection, revs)' /\ ops' \in 0..MaxOps
<1>. DEFINE src == sel.rev.ref
            o == Operation(type, sel, dst, position)
            new == Asked(refs, o)
            left == AskedSelection(refs, o).commits
            nop == type = "Move" /\ MoveIsNop(src, sel.commits, dst.ref, position)
            target == IF dst = None THEN sel.rev ELSE dst
            result == [rev |-> [target EXCEPT !.commit = new[target.ref]], commits |-> left]
            srcEntry == Entry(src, new[src], IF dst = None THEN left ELSE {}, sel.commits, sel, result)
            dstEntry == Entry(target.ref, new[target.ref], left,
                              DstSelectionPrev(type, sel, target),
                              IF type = "Copy" THEN NoSelection ELSE sel, result)
            hs == [n \in DOMAIN histories |->
                      IF new[n] = refs[n] THEN histories[n]
                      ELSE Push(histories[n], IF dst # None /\ n = dst.ref THEN dstEntry ELSE srcEntry)]
<1>1. CASE nop \/ LeavesNothing(type, new[src])
  <2>1. selection' = sel /\ UNCHANGED <<refs, revs, histories, ops>>
    BY <1>1 DEF Exec, Operation
  <2>. QED  BY <2>1 DEF TypesFit, SelectionOk
<1>2. CASE ~(nop \/ LeavesNothing(type, new[src]))
  <2>1. /\ refs' = new /\ histories' = hs /\ selection' = result /\ Reload(revs, new, size)
        /\ ops < MaxOps /\ ops' = ops + 1
    BY <1>2 DEF Exec, Operation
  <2>2. /\ CanAsk(refs, o) /\ Edited \in Changes /\ o.type = type /\ o.src = src
        /\ dst = None => o.dst = None /\ type \notin {"Move", "Copy"}
        /\ dst # None => /\ o.dst = dst.ref /\ o.dst # None /\ type \in {"Move", "Copy"}
                         /\ dst \in Rev /\ dst \in ToSet(revs) /\ dst.ref \in DOMAIN refs
    BY OperationCanBeAsked
  <2>. HIDE DEF o
  <2>3. /\ sel \in Selections /\ sel.rev # None /\ sel.rev \in Rev /\ src \in DOMAIN refs
        /\ sel.rev \in ToSet(revs) /\ sel.commits \subseteq Ancestors(refs[src])
    BY SelectionFacts DEF CanBeAsked, SelectionOk
  <2>4. target \in Rev /\ target \in ToSet(revs) /\ target.ref \in DOMAIN refs
    BY <2>2, <2>3
  <2>5. target.ref = IF o.dst = None THEN o.src ELSE o.dst
    BY <2>2
  <2>6. /\ DOMAIN new = DOMAIN refs /\ left \subseteq Ancestors(new[target.ref])
        /\ new[src] \in Commits /\ new[target.ref] \in Commits
        /\ (target.ref # src \/ type = "Copy") /\ refs[target.ref] # Null => new[target.ref] # Null
        /\ \A n \in DOMAIN refs : n # src /\ n # o.dst => new[n] = refs[n]
    <3>. DEFINE t == IF o.dst = None THEN o.src ELSE o.dst
                a == Asked(refs, o)
    <3>1. /\ DOMAIN a = DOMAIN refs /\ AskedSelection(refs, o).commits \subseteq Ancestors(a[t])
          /\ a[o.src] \in Commits /\ a[t] \in Commits
          /\ (t # o.src \/ o.type = "Copy") /\ refs[t] # Null => a[t] # Null
          /\ \A n \in DOMAIN refs : n # o.src /\ n # o.dst => a[n] = refs[n]
      BY <2>2, AskedFits
    <3>2. t = target.ref
      BY <2>5
    <3>. HIDE DEF a, t, target, src
    <3>. QED  BY <2>2, <3>1, <3>2 DEF a
  <2>. HIDE DEF new, left, nop, target
  <2>7. type # "Copy" => new[src] # Null
    BY <1>2 DEF LeavesNothing
  <2>8. ASSUME NEW n \in DOMAIN refs
        PROVE  /\ new[n] \in Commits \ {Null}
               /\ new[n] # refs[n] => n = src \/ (dst # None /\ n = dst.ref)
    <3>1. refs[n] \in Commits \ {Null}
      BY DEF TypesFit
    <3>2. CASE n # src /\ n # o.dst
      BY <2>6, <3>1, <3>2
    <3>3. CASE n = target.ref /\ (target.ref # src \/ type = "Copy")
      BY <2>2, <2>5, <2>6, <3>1, <3>3
    <3>4. CASE n = src /\ type # "Copy"
      BY <2>6, <2>7, <3>4
    <3>5. CASE n = src /\ n # target.ref /\ type = "Copy"
      <4>1. Asked(refs, o)[src] # refs[src] => src = o.dst
        BY <2>2, <2>3, <3>5, AskedChanges
      <4>2. new[src] = refs[src]
        BY <2>2, <2>5, <3>5, <4>1 DEF new
      <4>. QED  BY <3>1, <3>5, <4>2
    <3>6. n = o.dst => n = target.ref /\ dst # None /\ n = dst.ref
      BY <2>2, <2>5, ColumnsAssumption DEF TypesFit
    <3>. QED  BY <3>2, <3>3, <3>4, <3>5, <3>6
  <2>9. /\ result \in Selections /\ result.commits = left
        /\ result.rev # None /\ result.rev.ref = target.ref
        /\ result.rev = [target EXCEPT !.commit = new[target.ref]]
    <3>. DEFINE w == [target EXCEPT !.commit = new[target.ref]]
    <3>1. new[target.ref] \in Commits \ {Null}
      BY <2>4, <2>8
    <3>2. /\ IsRev(w) /\ w.ref = target.ref /\ w.skip = target.skip
          /\ w.readOnly = target.readOnly /\ w.commit = new[target.ref]
      BY <2>4, RevShape, IsRevExcept
    <3>3. result = [rev |-> w, commits |-> left]
      OBVIOUS
    <3>. HIDE DEF w, result
    <3>4. w \in Rev
      BY <2>4, <3>1, <3>2, RevShape, RevIsTyped
    <3>5. left \subseteq Commits
      BY <2>6, AncestorsAreCommits
    <3>6. result \in Selections
      BY <3>3, <3>4, <3>5 DEF Selections
    <3>. QED  BY <3>2, <3>3, <3>4, <3>6, RevShape DEF w
  <2>. HIDE DEF result
  <2>10. ASSUME NEW n \in DOMAIN histories
         PROVE  hs[n] \in HistoryOf(Entries) /\ HistoryFits(hs[n])
    <3>1. n \in DOMAIN refs /\ histories[n] \in HistoryOf(Entries) /\ HistoryFits(histories[n])
      BY DEF TypesFit
    <3>2. CASE new[n] = refs[n]
      BY <3>1, <3>2
    <3>3. CASE new[n] # refs[n] /\ dst # None /\ n = dst.ref
      <4>. DEFINE p == DstSelectionPrev(type, sel, target)
                  before == IF type = "Copy" THEN NoSelection ELSE sel
      <4>1. target = dst
        BY <3>3 DEF target
      <4>2. hs[n] = Push(histories[n], Entry(n, new[n], left, p, before, result))
        BY <3>3, <4>1
      <4>3. histories[n].cur.name = n /\ histories[n].cur.head = refs[n]
        <5>1. PICK i \in DOMAIN revs : dst = revs[i]
          BY <2>2, <3>3 DEF ToSet
        <5>. QED  BY <3>3, <5>1, RevFacts
      <4>4. before \in Selections
        BY <2>3, NoSelectionTyped
      <4>5. /\ p = SelectedIn(before, n)
            /\ p = {} \/ (p = sel.commits /\ sel.rev.ref = n)
        <5>1. p = IF type = "Move" /\ sel.rev.ref = n THEN sel.commits ELSE {}
          BY <3>3, <4>1 DEF DstSelectionPrev
        <5>2. type = "Move" \/ type = "Copy"
          BY <2>2, <3>3
        <5>3. type = "Move" => before = sel
          OBVIOUS
        <5>4. type = "Copy" => before = NoSelection
          OBVIOUS
        <5>. HIDE DEF p, before
        <5>. QED  BY <2>3, <5>1, <5>2, <5>3, <5>4, SelectedInOwn
      <4>6. left = SelectedIn(result, n) /\ left \subseteq Ancestors(new[n])
        BY <2>6, <2>9, <3>3, <4>1, SelectedInOwn
      <4>. HIDE DEF hs, p, before
      <4>7. new[n] \in Commits \ {Null}
        BY <2>8, <3>1
      <4>. QED  BY <2>3, <2>9, <4>2, <4>3, <4>4, <4>5, <4>6, <4>7, EntriesFit
    <3>4. CASE new[n] # refs[n] /\ ~(dst # None /\ n = dst.ref)
      <4>. DEFINE s == IF dst = None THEN left ELSE {}
      <4>1. n = src
        BY <2>8, <3>1, <3>4
      <4>2. hs[n] = Push(histories[n], Entry(n, new[n], s, sel.commits, sel, result))
        BY <3>4, <4>1
      <4>3. histories[n].cur.name = n /\ histories[n].cur.head = refs[n]
        <5>1. PICK i \in DOMAIN revs : sel.rev = revs[i]
          BY <2>3 DEF ToSet
        <5>. QED  BY <4>1, <5>1, RevFacts
      <4>4. sel.commits = SelectedIn(sel, n)
        BY <2>3, <4>1, SelectedInOwn
      <4>5. s = SelectedIn(result, n) /\ s \subseteq Ancestors(new[n])
        <5>1. CASE dst = None
          <6>1. target.ref = n /\ s = left
            BY <4>1, <5>1 DEF target
          <6>. QED  BY <2>6, <2>9, <6>1, SelectedInOwn
        <5>2. CASE dst # None
          <6>1. target.ref # n /\ s = {}
            BY <3>4, <5>2 DEF target
          <6>. QED  BY <2>9, <6>1, SelectedInOwn
        <5>. QED  BY <5>1, <5>2
      <4>. HIDE DEF hs, s
      <4>6. new[n] \in Commits \ {Null}
        BY <2>8, <3>1
      <4>. QED  BY <2>3, <2>9, <4>1, <4>2, <4>3, <4>4, <4>5, <4>6, EntriesFit
    <3>. QED  BY <3>2, <3>3, <3>4
  <2>11. DOMAIN hs = DOMAIN histories
    OBVIOUS
  <2>. HIDE DEF hs
  <2>12. /\ revs' = [i \in DOMAIN revs |-> [revs[i] EXCEPT !.commit = new[revs[i].ref]]]
    BY <2>1 DEF Reload, Reloaded
  <2>13. ASSUME NEW i \in DOMAIN revs'
         PROVE  revs'[i].skip \in Nat /\ revs'[i].readOnly \in BOOLEAN
    <3>1. i \in DOMAIN revs /\ revs'[i] = [revs[i] EXCEPT !.commit = new[revs[i].ref]]
      BY <2>12
    <3>2. IsRev(revs[i]) /\ revs[i].skip \in Nat /\ revs[i].readOnly \in BOOLEAN
      BY <3>1, RevFacts, RevShape
    <3>. QED  BY <3>1, <3>2, IsRevExcept
  <2>14. TypesFit'
    BY <2>1, <2>6, <2>8, <2>10, <2>11, <2>13 DEF TypesFit
  <2>15. result.rev \in ToSet(revs')
    <3>1. PICK i \in DOMAIN revs : target = revs[i]
      BY <2>4 DEF ToSet
    <3>2. i \in DOMAIN revs' /\ revs'[i] = [target EXCEPT !.commit = new[target.ref]]
      BY <2>12, <3>1
    <3>. QED  BY <2>9, <3>2 DEF ToSet
  <2>16. result.rev.commit = new[target.ref]
    <3>1. IsRev(target)
      BY <2>4, RevShape
    <3>. QED  BY <2>9, <3>1, IsRevExcept
  <2>17. result = [rev |-> result.rev, commits |-> result.commits]
    BY <2>9 DEF Selections
  <2>18. SelectionOk(selection, revs)'
    BY <2>1, <2>6, <2>9, <2>15, <2>16, <2>17 DEF SelectionOk
  <2>19. ops' \in 0..MaxOps
    BY <2>1, ColumnsAssumption
  <2>. QED  BY <2>14, <2>18, <2>19
<1>. QED  BY <1>1, <1>2

(***************************************************************************)
(* The steps keep the selection in the revs                                *)
(***************************************************************************)
LEMMA QuietFits ==
    ASSUME InductiveInv, ColumnsInv', UNCHANGED <<refs, revs, columns, size, histories>>,
           SelectionOk(selection', revs), PhaseOk'
    PROVE  InductiveInv'
<1>1. TypesFit
  BY Dismantled
<1>2. TypesFit'
  BY <1>1 DEF TypesFit
<1>3. SelectionOk(selection, revs)'
  BY DEF SelectionOk
<1>. QED  BY <1>2, <1>3, Assembled

\* When the handler has left its loop.
LEMMA IdleIsOk ==
    ASSUME phase' = "idle", press' = NoPress, drag' \in BOOLEAN, ops' \in 0..MaxOps
    PROVE  PhaseOk'
<1>1. NoPress \in [column : Nat, commit : Commits, dragged : BOOLEAN]
  BY AncestorsAreCommits DEF NoPress, Null
<1>. QED  BY <1>1 DEF PhaseOk

LEMMA IdleFacts ==
    ASSUME InductiveInv, phase = "idle"
    PROVE  /\ ColumnsInv /\ TypesFit /\ SelectionOk(selection, revs)
           /\ press = NoPress /\ drag \in BOOLEAN /\ ops \in 0..MaxOps
BY Dismantled DEF PhaseOk

LEMMA PressedFacts ==
    ASSUME InductiveInv, phase = "pressed"
    PROVE  /\ ColumnsInv /\ TypesFit /\ SelectionOk(selection, revs) /\ ops \in 0..MaxOps
           /\ press \in [column : Nat, commit : Commits, dragged : BOOLEAN]
           /\ press.column \in DOMAIN columns
           /\ press.commit \in Panels(columns[press.column])
           /\ Selected(columns[press.column], press.commit)
           /\ selection.rev = columns[press.column] /\ selection.rev # None
<1>1. /\ ColumnsInv /\ TypesFit /\ SelectionOk(selection, revs) /\ PhaseOk
  BY Dismantled
<1>2. press.column \in DOMAIN columns
  BY PressedColumn, <1>1
<1>3. selection.rev = columns[press.column]
  BY <1>1 DEF PhaseOk, Selected
<1>4. columns[press.column] \in Rev
  BY <1>1, <1>2, ColumnFacts
<1>5. selection.rev # None
  BY <1>3, <1>4, RevShape
<1>. QED  BY <1>1, <1>2, <1>3, <1>5 DEF PhaseOk

LEMMA KeyFits ==
    ASSUME InductiveInv, ColumnsInv', NEW type \in {"Delete", "Combine", "Edit"}, Key(type)
    PROVE  InductiveInv'
<1>1. /\ phase = "idle" /\ phase' = phase /\ press' = press /\ drag' = drag
      /\ Exec(type, selection, None, <<>>)
      /\ CanBeAsked(type, selection, None, <<>>)
  BY DEF Key, Mutable, CanBeAsked
<1>2. /\ ColumnsInv /\ TypesFit /\ SelectionOk(selection, revs)
      /\ press = NoPress /\ drag \in BOOLEAN /\ ops \in 0..MaxOps
  BY <1>1, IdleFacts
<1>3. TypesFit' /\ SelectionOk(selection, revs)' /\ ops' \in 0..MaxOps
  BY <1>1, <1>2, ExecFits
<1>4. PhaseOk'
  BY <1>1, <1>2, <1>3, IdleIsOk
<1>. QED  BY <1>3, <1>4, Assembled

\* The latest of the selected commits has a panel if any has, unless commits are skipped.
LEMMA LatestHasPanel ==
    ASSUME size \in Sizes, NEW v \in Rev, v.skip = 0, NEW S, S \subseteq Ancestors(v.commit),
           NEW x \in S, x \in Panels(v)
    PROVE  Latest(S) \in Panels(v)
<1>1. v.commit \in Commits /\ S # {}
  BY RevShape
<1>2. /\ Latest(S) \in S /\ Len(x) <= Len(Latest(S)) /\ Latest(S) \in Ancestors(v.commit)
  BY <1>1, EarliestAndLatest
<1>3. Len(Latest(S)) \in 1..Len(v.commit) /\ Len(x) \in Int /\ Len(v.commit) \in Nat
  BY <1>1, <1>2, AncestorByLength
<1>4. size.height \in Nat
  BY ColumnsAssumption
<1>5. Len(x) > Len(v.commit) - size.height
  BY <1>3 DEF Panels
<1>. QED  BY <1>2, <1>3, <1>4, <1>5 DEF Panels

LEMMA OneIsOk ==
    ASSUME ColumnsInv, TypesFit, NEW i \in DOMAIN columns, NEW S,
           S \subseteq Ancestors(columns[i].commit)
    PROVE  SelectionOk([rev |-> columns[i], commits |-> S], revs)
<1>. DEFINE v == columns[i]
            sel == [rev |-> v, commits |-> S]
<1>1. v \in ToSet(revs) /\ v # None
  BY ColumnFacts, RevShape
<1>. HIDE DEF v
<1>2. sel.rev = v /\ sel.commits = S
  OBVIOUS
<1>. QED  BY <1>1, <1>2 DEF SelectionOk, v

LEMMA PressFits ==
    ASSUME InductiveInv, ColumnsInv', NEW i \in DOMAIN columns, NEW x, NEW allow \in BOOLEAN,
           Press(i, x, allow)
    PROVE  InductiveInv'
<1>. DEFINE v == columns[i]
            sel == IF Selected(v, x) THEN selection ELSE [rev |-> v, commits |-> {x}]
<1>1. /\ phase = "idle" /\ x \in Panels(v) /\ selection' = sel
      /\ UNCHANGED <<refs, revs, columns, size, histories, ops>>
      /\ IF Latest(sel.commits) \in Panels(v)
         THEN /\ phase' = "pressed" /\ press' = [column |-> i, commit |-> x, dragged |-> FALSE]
              /\ drag' = (drag /\ allow)
         ELSE phase' = "aborted" /\ UNCHANGED <<press, drag>>
  BY DEF Press
<1>2. /\ ColumnsInv /\ TypesFit /\ SelectionOk(selection, revs)
      /\ press = NoPress /\ drag \in BOOLEAN /\ ops \in 0..MaxOps
  BY <1>1, IdleFacts
<1>3. x \in Ancestors(v.commit) /\ v \in Rev /\ v.commit \in Commits /\ i \in DOMAIN revs
  BY <1>1, <1>2, PanelIsAncestor, ColumnFacts, RevShape
<1>4. sel.rev = v /\ x \in sel.commits /\ SelectionOk(sel, revs)
  <2>1. SelectionOk([rev |-> v, commits |-> {x}], revs)
    BY <1>2, <1>3, OneIsOk
  <2>. QED  BY <1>2, <2>1 DEF Selected
<1>5. sel.rev # None
  BY <1>3, <1>4, RevShape
<1>. HIDE DEF sel, v
<1>6. CASE Latest(sel.commits) \in Panels(v)
  <2>1. /\ phase' = "pressed" /\ press' = [column |-> i, commit |-> x, dragged |-> FALSE]
        /\ drag' \in BOOLEAN
    BY <1>1, <1>2, <1>6
  <2>2. i \in Nat /\ i # 0
    <3>1. DOMAIN revs = 1..Len(revs)
      BY LenProperties, <1>2 DEF ColumnsInv, RevsFit
    <3>. QED  BY <1>3, <3>1
  <2>3. press' \in [column : Nat, commit : Commits, dragged : BOOLEAN] /\ press' # NoPress
    <3>1. x \in Commits
      BY <1>3, AncestorsAreCommits
    <3>2. press'.column # NoPress.column
      BY <2>1, <2>2 DEF NoPress
    <3>. QED  BY <2>1, <2>2, <3>1, <3>2
  <2>4. (press.commit \in Panels(columns[press.column]))'
    BY <1>1, <2>1 DEF Panels, v
  <2>5. Selected(columns[press.column], press.commit)'
    BY <1>1, <1>4, <2>1 DEF Selected, v
  <2>6. PhaseOk'
    BY <1>1, <1>2, <2>1, <2>3, <2>4, <2>5 DEF PhaseOk
  <2>. QED  BY <1>1, <1>4, <2>6, QuietFits
<1>7. CASE Latest(sel.commits) \notin Panels(v)
  <2>1. phase' = "aborted" /\ UNCHANGED <<press, drag>>
    BY <1>1, <1>7
  <2>2. sel.commits \subseteq Ancestors(v.commit)
    BY <1>4, <1>5 DEF SelectionOk
  <2>3. size \in Sizes
    BY <1>2 DEF ColumnsInv
  <2>4. v.skip # 0
    BY <1>1, <1>3, <1>4, <1>7, <2>2, <2>3, LatestHasPanel
  <2>5. selection'.rev # None /\ selection'.rev.skip > 0
    BY <1>1, <1>3, <1>4, <1>5, <2>4, RevShape
  <2>6. press \in [column : Nat, commit : Commits, dragged : BOOLEAN]
    BY Dismantled DEF PhaseOk
  <2>7. PhaseOk'
    BY <1>1, <1>2, <2>1, <2>5, <2>6 DEF PhaseOk
  <2>. QED  BY <1>1, <1>4, <2>7, QuietFits
<1>. QED  BY <1>6, <1>7

LEMMA DragFits ==
    ASSUME InductiveInv, ColumnsInv', NEW allow \in BOOLEAN, Drag(allow)
    PROVE  InductiveInv'
<1>1. /\ UNCHANGED <<refs, revs, columns, size, histories, selection, ops>>
      /\ phase = "pressed" /\ phase' = phase /\ drag' = allow
      /\ press' = [press EXCEPT !.dragged = TRUE]
  BY DEF Drag
<1>2. /\ SelectionOk(selection, revs) /\ ops \in 0..MaxOps
      /\ press \in [column : Nat, commit : Commits, dragged : BOOLEAN]
      /\ press.commit \in Panels(columns[press.column])
      /\ Selected(columns[press.column], press.commit)
      /\ ColumnsInv /\ press.column \in DOMAIN columns
  BY <1>1, PressedFacts
<1>3. /\ press' \in [column : Nat, commit : Commits, dragged : BOOLEAN]
      /\ press'.column = press.column /\ press'.commit = press.commit
  BY <1>1, <1>2
<1>4. press' # NoPress
  <2>1. press.column \in DOMAIN revs
    BY <1>2, ColumnIsRev
  <2>2. DOMAIN revs = 1..Len(revs)
    BY LenProperties, <1>2 DEF ColumnsInv, RevsFit
  <2>3. press.column # 0 /\ NoPress.column = 0
    BY <2>1, <2>2 DEF NoPress
  <2>. QED  BY <1>3, <2>3
<1>5. (/\ press.commit \in Panels(columns[press.column])
       /\ Selected(columns[press.column], press.commit))'
  BY <1>1, <1>2, <1>3 DEF Panels, Selected
<1>6. PhaseOk'
  BY <1>1, <1>2, <1>3, <1>4, <1>5 DEF PhaseOk
<1>. QED  BY <1>1, <1>2, <1>6, QuietFits

LEMMA DropFits ==
    ASSUME InductiveInv, ColumnsInv', phase = "pressed",
           NEW j \in DOMAIN columns, NEW b, NEW copy, Drop(j, b, copy), Released
    PROVE  InductiveInv'
<1>. DEFINE type == DropType(selection.rev, copy)
            position == IF b \in Panels(columns[j]) THEN b ELSE <<>>
<1>1. /\ ColumnsInv /\ TypesFit /\ SelectionOk(selection, revs) /\ ops \in 0..MaxOps
      /\ selection.rev # None
  BY PressedFacts
<1>2. columns[j] \in ToSet(revs)
  BY <1>1, ColumnFacts
<1>3. position \in Ancestors(columns[j].commit) \cup {Null}
  BY PanelIsAncestor DEF Null
<1>4. type \in {"Move", "Copy"}
  BY DEF DropType
<1>5. Exec(type, selection, columns[j], position)
  BY DEF Drop
<1>. HIDE DEF type, position
<1>6. CanBeAsked(type, selection, columns[j], position)
  BY <1>1, <1>2, <1>3, <1>4 DEF CanBeAsked
<1>7. TypesFit' /\ SelectionOk(selection, revs)' /\ ops' \in 0..MaxOps
  BY <1>1, <1>5, <1>6, ExecFits
<1>8. PhaseOk'
  BY <1>7, IdleIsOk DEF Released
<1>. QED  BY <1>7, <1>8, Assembled

LEMMA ClickFits ==
    ASSUME InductiveInv, ColumnsInv', NEW double, Click(double)
    PROVE  InductiveInv'
<1>. DEFINE v == columns[press.column]
            S == {press.commit}
            sel == [rev |-> v, commits |-> S]
<1>1. phase = "pressed" /\ Released
  BY DEF Click
<1>2. /\ ColumnsInv /\ TypesFit /\ ops \in 0..MaxOps
      /\ press.column \in DOMAIN columns /\ press.commit \in Panels(v)
      /\ selection.rev = v /\ selection.rev # None
  BY <1>1, PressedFacts
<1>3. S \subseteq Ancestors(v.commit)
  BY <1>2, PanelIsAncestor
<1>4. SelectionOk(sel, revs)
  BY <1>2, <1>3, OneIsOk
<1>5. sel.rev # None /\ sel.commits # {}
  BY <1>2
<1>6. CASE double /\ Mutable(sel.rev)
  <2>1. Exec("Edit", sel, None, <<>>)
    BY <1>6 DEF Click
  <2>. HIDE DEF sel
  <2>2. CanBeAsked("Edit", sel, None, <<>>)
    BY <1>5 DEF CanBeAsked
  <2>3. TypesFit' /\ SelectionOk(selection, revs)' /\ ops' \in 0..MaxOps
    BY <1>2, <1>4, <2>1, <2>2, ExecFits
  <2>4. PhaseOk'
    BY <1>1, <2>3, IdleIsOk DEF Released
  <2>. QED  BY <2>3, <2>4, Assembled
<1>7. CASE ~(double /\ Mutable(sel.rev))
  <2>1. selection' = sel /\ UNCHANGED <<refs, revs, columns, size, histories, ops>>
    BY <1>7 DEF Click
  <2>2. PhaseOk'
    BY <1>1, <1>2, <2>1, IdleIsOk DEF Released
  <2>. HIDE DEF sel
  <2>. QED  BY <1>4, <2>1, <2>2, QuietFits
<1>. QED  BY <1>6, <1>7

LEMMA SelectFits ==
    ASSUME InductiveInv, ColumnsInv', NEW new, NEW shift, SelectRect(new, shift),
           SelectionOk(new, revs)
    PROVE  InductiveInv'
<1>1. /\ UNCHANGED <<refs, revs, columns, size, histories, phase, press, drag, ops>>
      /\ phase = "idle"
  BY DEF SelectRect
<1>2. /\ ColumnsInv /\ TypesFit /\ SelectionOk(selection, revs)
      /\ press = NoPress /\ drag \in BOOLEAN /\ ops \in 0..MaxOps
  BY <1>1, IdleFacts
<1>3. PhaseOk'
  BY <1>1, <1>2, IdleIsOk
<1>4. CASE shift /\ (new.commits = {} \/ selection.rev = new.rev)
  <2>. DEFINE S == SymDiff(selection.commits, new.commits)
  <2>1. selection' = [selection EXCEPT !.commits = S]
    BY <1>4 DEF SelectRect
  <2>2. selection = [rev |-> selection.rev, commits |-> selection.commits]
    BY <1>2 DEF SelectionOk
  <2>3. selection' = [rev |-> selection.rev, commits |-> S]
    BY <2>1, <2>2
  <2>4. S \subseteq selection.commits \cup new.commits
    BY DEF SymDiff
  <2>. HIDE DEF S
  <2>5. selection.rev = None => S = {}
    BY <1>2, <1>4, <2>4 DEF SelectionOk
  <2>6. selection.rev # None =>
           selection.rev \in ToSet(revs) /\ S \subseteq Ancestors(selection.rev.commit)
    BY <1>2, <1>4, <2>4 DEF SelectionOk
  <2>7. SelectionOk(selection', revs)
    BY <2>3, <2>5, <2>6 DEF SelectionOk
  <2>. QED  BY <1>1, <1>3, <2>7, QuietFits
<1>5. CASE ~(shift /\ (new.commits = {} \/ selection.rev = new.rev))
  <2>1. selection' = new
    BY <1>5 DEF SelectRect
  <2>. QED  BY <1>1, <1>3, <2>1, QuietFits
<1>. QED  BY <1>4, <1>5

LEMMA MouseFits ==
    ASSUME InductiveInv, ColumnsInv', Mouse
    PROVE  InductiveInv'
<1>1. ASSUME NEW i \in DOMAIN columns, NEW x \in Panels(columns[i]), NEW allow \in BOOLEAN,
             Press(i, x, allow)
      PROVE  InductiveInv'
  BY <1>1, PressFits
<1>2. ASSUME NEW allow \in BOOLEAN, Drag(allow) PROVE InductiveInv'
  BY <1>2, DragFits
<1>3. ASSUME NEW j \in DOMAIN columns, NEW copy \in BOOLEAN, NEW b \in Drops(j),
             ReleaseDrag(j, b, copy)
      PROVE  InductiveInv'
  BY <1>3, DropFits DEF ReleaseDrag
<1>4. ASSUME NEW copy \in BOOLEAN, ReleaseStaleDrag(copy) PROVE InductiveInv'
  <2>1. press.column \in DOMAIN columns
    BY <1>4, PressedFacts DEF ReleaseStaleDrag
  <2>. QED  BY <1>4, <2>1, DropFits DEF ReleaseStaleDrag
<1>5. ASSUME NEW double \in BOOLEAN, Click(double) PROVE InductiveInv'
  BY <1>5, ClickFits
<1>6. CASE ReleaseNothing
  <2>1. /\ UNCHANGED <<refs, revs, columns, size, histories, selection, ops>>
        /\ phase = "pressed" /\ Released
    BY <1>6 DEF ReleaseNothing
  <2>2. SelectionOk(selection, revs) /\ ops \in 0..MaxOps
    BY <2>1, PressedFacts
  <2>3. PhaseOk'
    BY <2>1, <2>2, IdleIsOk DEF Released
  <2>. QED  BY <2>1, <2>2, <2>3, QuietFits
<1>7. ASSUME NEW i \in DOMAIN columns, NEW S \in Runs(columns[i]), NEW shift \in BOOLEAN,
             SelectRect([rev |-> columns[i], commits |-> S], shift)
      PROVE  InductiveInv'
  <2>1. ColumnsInv /\ TypesFit
    BY Dismantled
  <2>2. S \subseteq Ancestors(columns[i].commit)
    BY PanelIsAncestor DEF Runs
  <2>. DEFINE new == [rev |-> columns[i], commits |-> S]
  <2>3. SelectionOk(new, revs)
    BY <2>1, <2>2, OneIsOk
  <2>4. SelectRect(new, shift)
    BY <1>7
  <2>. HIDE DEF new
  <2>. QED  BY <2>3, <2>4, SelectFits
<1>8. ASSUME NEW shift \in BOOLEAN, SelectRect(NoSelection, shift) PROVE InductiveInv'
  <2>1. SelectionOk(NoSelection, revs)
    BY DEF SelectionOk, NoSelection
  <2>. QED  BY <1>8, <2>1, SelectFits
<1>9. ASSUME NEW i \in DOMAIN columns, NEW x \in Panels(columns[i]), ContextMenu(i, x)
      PROVE  InductiveInv'
  <2>1. /\ UNCHANGED <<refs, revs, columns, size, histories, phase, press, drag, ops>>
        /\ phase = "idle" /\ selection' = [rev |-> columns[i], commits |-> {x}]
    BY <1>9 DEF ContextMenu
  <2>2. /\ ColumnsInv /\ TypesFit /\ press = NoPress /\ drag \in BOOLEAN /\ ops \in 0..MaxOps
    BY <2>1, IdleFacts
  <2>3. {x} \subseteq Ancestors(columns[i].commit)
    BY PanelIsAncestor
  <2>4. SelectionOk(selection', revs)
    BY <2>1, <2>2, <2>3, OneIsOk
  <2>5. PhaseOk'
    BY <2>1, <2>2, IdleIsOk
  <2>. QED  BY <2>1, <2>4, <2>5, QuietFits
<1>. QED  BY <1>1, <1>2, <1>3, <1>4, <1>5, <1>6, <1>7, <1>8, <1>9 DEF Mouse

LEMMA RevsAreNot == ColumnsInv /\ TypesFit => \A k \in DOMAIN revs : revs[k] # None
BY RevFacts, RevShape

\* The rev v when its ref is m, at commit c.
RevAt(v, m, c) == [ref |-> m, skip |-> v.skip, readOnly |-> v.readOnly, commit |-> c]

\* What a ref that is restored leaves of refs, histories and revs.
LEMMA RestoreTypes ==
    ASSUME ColumnsInv, TypesFit, NEW n \in DOMAIN refs, NEW m \in Names,
           NEW c \in Commits \ {Null}, NEW h \in HistoryOf(Entries), HistoryFits(h),
           Restore(n, m, c, h)
    PROVE  /\ TypesFit' /\ DOMAIN revs' = DOMAIN revs
           /\ \A k \in DOMAIN revs :
                 revs'[k] = IF revs[k].ref = n THEN RevAt(revs[k], m, c) ELSE revs[k]
<1>. DEFINE r == [x \in (DOMAIN refs \ {n}) \cup {m} |-> IF x = m THEN c ELSE refs[x]]
            hs == [x \in (DOMAIN histories \ {n}) \cup {m} |-> IF x = m THEN h ELSE histories[x]]
            rs == Renamed(n, m)
<1>1. /\ m \notin DOMAIN refs \ {n} /\ refs' = r /\ histories' = hs /\ revs' = Reloaded(rs, r)
  BY DEF Restore, Reload
<1>2. DOMAIN rs = DOMAIN revs
  BY DEF Renamed
<1>3. ASSUME NEW k \in DOMAIN revs
      PROVE  [rs[k] EXCEPT !.commit = r[rs[k].ref]] =
                IF revs[k].ref = n THEN RevAt(revs[k], m, c) ELSE revs[k]
  <2>1. rs[k] = IF revs[k].ref = n THEN [revs[k] EXCEPT !.ref = m] ELSE revs[k]
    BY DEF Renamed
  <2>2. IsRev(revs[k]) /\ revs[k].ref \in DOMAIN refs /\ revs[k].commit = refs[revs[k].ref]
    BY RevFacts, RevShape
  <2>. DEFINE v == revs[k]
              w == rs[k]
  <2>3. CASE revs[k].ref = n
    <3>1. w.ref = m /\ w.skip = v.skip /\ w.readOnly = v.readOnly /\ IsRev(w)
      BY <2>1, <2>2, <2>3, IsRevRenamed
    <3>2. r[m] = c
      OBVIOUS
    <3>. HIDE DEF r, rs, w, v
    <3>3. [w EXCEPT !.commit = r[w.ref]] = [ref |-> m, skip |-> v.skip, readOnly |-> v.readOnly, commit |-> c]
      BY <3>1, <3>2 DEF IsRev
    <3>. QED  BY <2>3, <3>3 DEF RevAt, w, v
  <2>4. CASE revs[k].ref # n
    <3>1. w = v
      BY <2>1, <2>4
    <3>2. v.ref \in DOMAIN refs \ {n} /\ v.ref # m
      BY <1>1, <2>2, <2>4
    <3>3. r[v.ref] = v.commit
      BY <2>2, <3>2
    <3>. HIDE DEF r, rs, w, v
    <3>4. [v EXCEPT !.commit = v.commit] = v
      BY <2>2 DEF IsRev, v
    <3>. QED  BY <2>4, <3>1, <3>3, <3>4 DEF w, v
  <2>. QED  BY <2>3, <2>4
<1>. HIDE DEF rs
<1>4. /\ DOMAIN revs' = DOMAIN revs
      /\ \A k \in DOMAIN revs :
            revs'[k] = IF revs[k].ref = n THEN RevAt(revs[k], m, c) ELSE revs[k]
  <2>. HIDE DEF r
  <2>1. revs' = [k \in DOMAIN rs |-> [rs[k] EXCEPT !.commit = r[rs[k].ref]]]
    BY <1>1 DEF Reloaded
  <2>. QED  BY <1>2, <1>3, <2>1
<1>5. ASSUME NEW k \in DOMAIN revs
      PROVE  revs'[k].skip \in Nat /\ revs'[k].readOnly \in BOOLEAN
  <2>1. revs[k].skip \in Nat /\ revs[k].readOnly \in BOOLEAN
    BY DEF TypesFit
  <2>2. CASE revs[k].ref = n
    BY <1>4, <2>1, <2>2 DEF RevAt
  <2>3. CASE revs[k].ref # n
    BY <1>4, <2>1, <2>3
  <2>. QED  BY <2>2, <2>3
<1>6. /\ DOMAIN r \subseteq Names /\ DOMAIN hs \subseteq DOMAIN r
      /\ \A x \in DOMAIN r : r[x] \in Commits \ {Null}
  BY DEF TypesFit
<1>7. \A x \in DOMAIN hs : hs[x] \in HistoryOf(Entries) /\ HistoryFits(hs[x])
  BY DEF TypesFit
<1>. HIDE DEF r, hs
<1>8. TypesFit'
  BY <1>1, <1>4, <1>5, <1>6, <1>7 DEF TypesFit
<1>. QED  BY <1>4, <1>8

LEMMA UndoRedoFits ==
    ASSUME InductiveInv, ColumnsInv', NEW i \in DOMAIN columns, NEW undo \in BOOLEAN,
           UndoRedo(i, undo)
    PROVE  InductiveInv'
<1>. DEFINE rev == columns[i]
            n == rev.ref
            h == histories[n]
            to == IF undo THEN PrevPeek(h) ELSE NextPeek(h)
            g == IF undo THEN StepBack(h) ELSE StepForth(h)
            S == SelectedByUndo(h.cur, to, undo)
<1>1. /\ phase = "idle" /\ UNCHANGED <<phase, press, drag, ops>>
      /\ IF undo THEN CanUndo(h) ELSE CanRedo(h)
      /\ Restore(n, to.name, to.head, g)
      /\ selection' = [rev |-> [rev EXCEPT !.ref = to.name, !.commit = to.head], commits |-> S]
  BY DEF UndoRedo
<1>2. /\ ColumnsInv /\ TypesFit
      /\ press = NoPress /\ drag \in BOOLEAN /\ ops \in 0..MaxOps
  BY <1>1, IdleFacts
<1>3. /\ i \in DOMAIN revs /\ rev = revs[i] /\ IsRev(rev) /\ n \in DOMAIN refs
      /\ h \in HistoryOf(Entries) /\ HistoryFits(h)
  BY <1>2, ColumnFacts, RevShape DEF TypesFit
<1>. HIDE DEF rev, n, h
<1>4. /\ to \in Entries /\ g \in HistoryOf(Entries) /\ HistoryFits(g)
      /\ S \subseteq Ancestors(to.head)
  <2>1. CASE undo
    <3>1. /\ g \in HistoryOf(Entries) /\ HistoryFits(g) /\ to \in Entries
          /\ Follows(to, h.cur)
      BY <1>1, <1>3, <2>1, BackFits
    <3>2. S = h.cur.selectionPrev
      BY <2>1 DEF SelectedByUndo
    <3>. QED  BY <3>1, <3>2 DEF Follows
  <2>2. CASE ~undo
    <3>1. /\ g \in HistoryOf(Entries) /\ HistoryFits(g) /\ to \in Entries
          /\ SelectedWithin(to)
      BY <1>1, <1>3, <2>2, ForthFits
    <3>2. S = to.selection
      BY <2>2 DEF SelectedByUndo
    <3>. QED  BY <3>1, <3>2 DEF SelectedWithin
  <2>. QED  BY <2>1, <2>2
<1>5. to.name \in Names /\ to.head \in Commits \ {Null}
  BY <1>4 DEF Entries
<1>. HIDE DEF to, g, S
<1>6. /\ TypesFit' /\ DOMAIN revs' = DOMAIN revs
      /\ \A k \in DOMAIN revs :
            revs'[k] = IF revs[k].ref = n THEN RevAt(revs[k], to.name, to.head) ELSE revs[k]
  BY <1>1, <1>2, <1>3, <1>4, <1>5, RestoreTypes
<1>. DEFINE w == RevAt(rev, to.name, to.head)
<1>7. selection' = [rev |-> w, commits |-> S]
  <2>1. [rev EXCEPT !.ref = to.name, !.commit = to.head] = w
    BY <1>3, IsRevRestored DEF RevAt
  <2>. QED  BY <1>1, <2>1
<1>8. w = revs'[i]
  BY <1>3, <1>6 DEF n
<1>9. w \in ToSet(revs') /\ w.commit = to.head
  BY <1>3, <1>6, <1>8 DEF ToSet, RevAt
<1>. HIDE DEF w
<1>10. w # None
  <2>1. (ColumnsInv /\ TypesFit => \A k \in DOMAIN revs : revs[k] # None)'
    BY RevsAreNot, PTL
  <2>. QED  BY <1>3, <1>6, <1>8, <2>1
<1>11. SelectionOk(selection, revs)'
  BY <1>4, <1>7, <1>9, <1>10 DEF SelectionOk
<1>12. PhaseOk'
  BY <1>1, <1>2, IdleIsOk
<1>. QED  BY <1>6, <1>11, <1>12, Assembled

LEMMA RenameSelects ==
    ASSUME NEW m, NEW c, IsRev(selection.rev),
           selection = [rev |-> selection.rev, commits |-> selection.commits]
    PROVE  [selection EXCEPT !.rev.ref = m, !.rev.commit = c] =
               [rev |-> RevAt(selection.rev, m, c), commits |-> selection.commits]
<1>. DEFINE q == selection
            rev == selection.rev
            S == selection.commits
            u == [rev EXCEPT !.ref = m]
            t == [q EXCEPT !.rev.ref = m]
<1>1. q = [rev |-> rev, commits |-> S] /\ IsRev(rev)
  OBVIOUS
<1>. HIDE DEF q, rev, S
<1>2. t = [rev |-> u, commits |-> S]
  BY <1>1
<1>3. [q EXCEPT !.rev.ref = m, !.rev.commit = c] = [t EXCEPT !.rev.commit = c]
  OBVIOUS
<1>4. [u EXCEPT !.commit = c] = RevAt(rev, m, c)
  BY <1>1, IsRevRestored DEF RevAt
<1>. HIDE DEF t, u
<1>5. [t EXCEPT !.rev.commit = c] = [rev |-> [u EXCEPT !.commit = c], commits |-> S]
  BY <1>2
<1>. QED  BY <1>3, <1>4, <1>5 DEF q, rev, S

LEMMA RenameFits ==
    ASSUME InductiveInv, ColumnsInv', NEW i \in DOMAIN columns, NEW m \in Names, Rename(i, m)
    PROVE  InductiveInv'
<1>. DEFINE rev == columns[i]
            n == rev.ref
            c == rev.commit
            nothing == {}
            e == Entry(m, c, nothing, nothing, NoSelection, NoSelection)
            g == Push(histories[n], e)
<1>1. /\ phase = "idle" /\ UNCHANGED <<phase, press, drag>> /\ ops < MaxOps /\ ops' = ops + 1
      /\ Restore(n, m, c, g) /\ selection' = SelectionRenamed(n, m, c)
  BY DEF Rename
<1>2. /\ ColumnsInv /\ TypesFit /\ SelectionOk(selection, revs)
      /\ press = NoPress /\ drag \in BOOLEAN /\ ops \in 0..MaxOps
  BY <1>1, IdleFacts
<1>10. ops' \in 0..MaxOps
  BY <1>1, <1>2, ColumnsAssumption
<1>3. /\ i \in DOMAIN revs /\ rev = revs[i] /\ n \in DOMAIN refs
      /\ c \in Commits \ {Null} /\ c = refs[n]
      /\ histories[n] \in HistoryOf(Entries) /\ HistoryFits(histories[n])
  BY <1>2, ColumnFacts, RevShape DEF TypesFit
<1>. HIDE DEF rev, n, c
<1>4. g \in HistoryOf(Entries) /\ HistoryFits(g)
  <2>1. /\ e \in Entries /\ e.selection = nothing /\ e.selectionPrev = nothing
        /\ e.before = NoSelection /\ e.after = NoSelection
    BY <1>3, NoSelectionTyped, EntryTyped
  <2>. HIDE DEF e
  <2>2. SelectedWithin(e) /\ Follows(histories[n].cur, e)
    BY <2>1, SelectedInOwn DEF SelectedWithin, Follows
  <2>. QED  BY <1>3, <2>1, <2>2, PushFits
<1>. HIDE DEF g
<1>5. /\ TypesFit' /\ DOMAIN revs' = DOMAIN revs
      /\ \A k \in DOMAIN revs :
            revs'[k] = IF revs[k].ref = n THEN RevAt(revs[k], m, c) ELSE revs[k]
  BY <1>1, <1>2, <1>3, <1>4, RestoreTypes
<1>6. \A k \in DOMAIN revs' : revs'[k] # None
  <2>1. (ColumnsInv /\ TypesFit => \A k \in DOMAIN revs : revs[k] # None)'
    BY RevsAreNot, PTL
  <2>. QED  BY <1>5, <2>1
<1>. DEFINE s == selection.rev
            S == selection.commits
<1>7. selection = [rev |-> s, commits |-> S]
  BY <1>2 DEF SelectionOk
<1>8. CASE s # None /\ s.ref = n
  <2>1. PICK k \in DOMAIN revs : s = revs[k]
    BY <1>2, <1>8 DEF SelectionOk, ToSet
  <2>2. IsRev(s) /\ s.commit = c
    BY <1>2, <1>3, <1>8, <2>1, RevFacts, RevShape
  <2>3. S \subseteq Ancestors(c)
    BY <1>2, <1>8, <2>2 DEF SelectionOk
  <2>4. selection' = [selection EXCEPT !.rev.ref = m, !.rev.commit = c]
    BY <1>1, <1>8 DEF SelectionRenamed
  <2>5. selection' = [rev |-> RevAt(s, m, c), commits |-> S]
    BY <1>7, <2>2, <2>4, RenameSelects
  <2>. HIDE DEF s, S
  <2>6. RevAt(s, m, c) = revs'[k]
    BY <1>5, <1>8, <2>1
  <2>7. RevAt(s, m, c) \in ToSet(revs') /\ RevAt(s, m, c) # None
    BY <1>5, <1>6, <2>6 DEF ToSet
  <2>8. RevAt(s, m, c).commit = c
    BY DEF RevAt
  <2>9. SelectionOk(selection, revs)'
    BY <2>3, <2>5, <2>7, <2>8 DEF SelectionOk
  <2>10. PhaseOk'
    BY <1>1, <1>2, <1>10, IdleIsOk
  <2>. QED  BY <1>5, <2>9, <2>10, Assembled
<1>9. CASE ~(s # None /\ s.ref = n)
  <2>1. selection' = selection
    BY <1>1, <1>9 DEF SelectionRenamed
  <2>2. ASSUME s # None PROVE s \in ToSet(revs')
    <3>1. PICK k \in DOMAIN revs : s = revs[k]
      BY <1>2, <2>2 DEF SelectionOk, ToSet
    <3>2. revs'[k] = s
      BY <1>5, <1>9, <2>2, <3>1
    <3>. QED  BY <1>5, <3>2 DEF ToSet
  <2>3. SelectionOk(selection, revs)'
    BY <1>2, <2>1, <2>2 DEF SelectionOk
  <2>4. PhaseOk'
    BY <1>1, <1>2, <1>10, IdleIsOk
  <2>. QED  BY <1>5, <2>3, <2>4, Assembled
<1>. QED  BY <1>8, <1>9

\* What _reload() leaves of the revs rs.
LEMMA ReloadTypes ==
    ASSUME NEW rs, NEW r, revs' = Reloaded(rs, r),
           \A j \in DOMAIN rs : IsRev(rs[j]) /\ rs[j].skip \in Nat /\ rs[j].readOnly \in BOOLEAN
    PROVE  /\ DOMAIN revs' = DOMAIN rs
           /\ \A j \in DOMAIN rs : r[rs[j].ref] = rs[j].commit => revs'[j] = rs[j]
           /\ \A j \in DOMAIN revs' : revs'[j].skip \in Nat /\ revs'[j].readOnly \in BOOLEAN
<1>1. revs' = [j \in DOMAIN rs |-> [rs[j] EXCEPT !.commit = r[rs[j].ref]]]
  BY DEF Reloaded
<1>2. ASSUME NEW j \in DOMAIN rs
      PROVE  /\ r[rs[j].ref] = rs[j].commit => revs'[j] = rs[j]
             /\ revs'[j].skip \in Nat /\ revs'[j].readOnly \in BOOLEAN
  <2>. DEFINE v == rs[j]
              c == r[rs[j].ref]
  <2>1. IsRev(v) /\ v.skip \in Nat /\ v.readOnly \in BOOLEAN /\ revs'[j] = [v EXCEPT !.commit = c]
    BY <1>1
  <2>. HIDE DEF v, c
  <2>2. revs'[j].skip \in Nat /\ revs'[j].readOnly \in BOOLEAN
    BY <2>1, IsRevExcept
  <2>3. c = v.commit => revs'[j] = v
    BY <2>1 DEF IsRev
  <2>. QED  BY <2>1, <2>2, <2>3 DEF v, c
<1>. QED  BY <1>1, <1>2

LEMMA RevCreateFits ==
    ASSUME InductiveInv, ColumnsInv', NEW template \in ToSet(revs), NEW c \in Commits \ {Null},
           NEW m \in Names, RevCreate(template, c, m)
    PROVE  InductiveInv'
<1>. DEFINE at == CHOOSE i \in DOMAIN revs : revs[i] = template
            v == [ref |-> m, skip |-> 0, readOnly |-> FALSE, commit |-> c]
            r == [x \in DOMAIN refs \cup {m} |-> IF x = m THEN c ELSE refs[x]]
            nothing == {}
            h == Fresh(Entry(m, c, nothing, nothing, NoSelection, NoSelection))
            hs == [x \in DOMAIN histories \cup {m} |-> IF x = m THEN h ELSE histories[x]]
            rs == InsertAt(revs, at + 1, v)
<1>1. /\ phase = "idle" /\ phase' = "idle" /\ refs' = r /\ histories' = hs
      /\ ops < MaxOps /\ ops' = ops + 1 /\ UNCHANGED <<press, drag>>
      /\ selection' = [rev |-> v, commits |-> {c}] /\ revs' = Reloaded(rs, r)
  BY DEF RevCreate, Reload
<1>2. /\ ColumnsInv /\ TypesFit /\ press = NoPress /\ drag \in BOOLEAN /\ ops \in 0..MaxOps
  BY <1>1, IdleFacts
<1>3. ops' \in 0..MaxOps
  BY <1>1, <1>2, ColumnsAssumption
<1>4. PhaseOk'
  BY <1>1, <1>2, <1>3, IdleIsOk
<1>5. h \in HistoryOf(Entries) /\ HistoryFits(h)
  <2>. DEFINE e == Entry(m, c, nothing, nothing, NoSelection, NoSelection)
  <2>1. e \in Entries /\ e.selection = nothing
    BY NoSelectionTyped, EntryTyped
  <2>. HIDE DEF e
  <2>2. Fresh(e) \in HistoryOf(Entries) /\ HistoryFits(Fresh(e))
    BY <2>1, FreshFits
  <2>. QED  BY <2>2 DEF e
<1>6. at \in DOMAIN revs
  BY DEF ToSet
<1>7. /\ v.ref = m /\ v.skip \in Nat /\ v.readOnly \in BOOLEAN /\ v.commit = c
      /\ IsRev(v) /\ v \in Rev
  BY DEF IsRev, Rev
<1>. HIDE DEF h, at, v
<1>8. r[m] = c
  OBVIOUS
<1>9. Inserted(rs, revs, at, v)
  <2>. DEFINE T == ToSet(revs) \cup {v}
  <2>1. revs \in Seq(T) /\ at \in 1..Len(revs) /\ v \in T
    BY <1>2, <1>6, LenProperties, SeqMonotonic DEF ColumnsInv, RevsFit
  <2>2. rs = InsertAt(revs, at + 1, v)
    OBVIOUS
  <2>. HIDE DEF rs, T
  <2>. QED  BY <2>1, <2>2, InsertedAfter
<1>10. DOMAIN revs = 1..Len(revs)
  BY <1>2, LenProperties DEF ColumnsInv, RevsFit
<1>. HIDE DEF rs
<1>11. ASSUME NEW j \in DOMAIN rs
       PROVE  IsRev(rs[j]) /\ rs[j].skip \in Nat /\ rs[j].readOnly \in BOOLEAN
  <2>1. CASE j <= at
    <3>1. j \in DOMAIN revs /\ rs[j] = revs[j]
      BY <1>6, <1>9, <1>10, <2>1 DEF Inserted
    <3>. QED  BY <1>2, <3>1, RevFacts, RevShape
  <2>2. CASE j = at + 1
    <3>1. rs[j] = v
      BY <1>6, <1>9, <1>10, <2>2 DEF Inserted
    <3>. QED  BY <1>7, <3>1
  <2>3. CASE ~(j <= at) /\ j # at + 1
    <3>1. j - 1 \in DOMAIN revs /\ rs[j] = revs[j - 1]
      BY <1>6, <1>9, <1>10, <2>3 DEF Inserted
    <3>. QED  BY <1>2, <3>1, RevFacts, RevShape
  <2>. QED  BY <2>1, <2>2, <2>3
<1>12. at + 1 \in DOMAIN rs /\ rs[at + 1] = v
  BY <1>6, <1>9, <1>10 DEF Inserted
<1>13. /\ DOMAIN r \subseteq Names /\ DOMAIN hs \subseteq DOMAIN r
       /\ \A x \in DOMAIN r : r[x] \in Commits \ {Null}
  BY <1>2 DEF TypesFit
<1>14. \A x \in DOMAIN hs : hs[x] \in HistoryOf(Entries) /\ HistoryFits(hs[x])
  BY <1>2, <1>5 DEF TypesFit
<1>. HIDE DEF r, hs
<1>15. /\ DOMAIN revs' = DOMAIN rs
       /\ \A j \in DOMAIN rs : r[rs[j].ref] = rs[j].commit => revs'[j] = rs[j]
       /\ \A j \in DOMAIN revs' : revs'[j].skip \in Nat /\ revs'[j].readOnly \in BOOLEAN
  BY <1>1, <1>11, ReloadTypes
<1>16. TypesFit'
  BY <1>1, <1>13, <1>14, <1>15 DEF TypesFit
<1>17. v \in ToSet(revs')
  <2>1. revs'[at + 1] = v
    BY <1>7, <1>8, <1>12, <1>15
  <2>. QED  BY <1>12, <1>15, <2>1 DEF ToSet
<1>18. v # None /\ c \in Ancestors(c)
  BY <1>7, RevShape, AncestorsAreCommits
<1>19. SelectionOk(selection, revs)'
  BY <1>1, <1>7, <1>17, <1>18 DEF SelectionOk
<1>. QED  BY <1>4, <1>16, <1>19, Assembled

LEMMA BranchFits ==
    ASSUME InductiveInv, ColumnsInv', NEW m \in Names, Branch(m)
    PROVE  InductiveInv'
<1>. DEFINE S == selection.commits
            c == Latest(S)
<1>1. Cardinality(S) = 1 /\ phase = "idle" /\ RevCreate(selection.rev, c, m)
  BY DEF Branch, RevCreate
<1>2. ColumnsInv /\ TypesFit /\ SelectionOk(selection, revs)
  BY <1>1, IdleFacts
<1>3. S # {}
  BY <1>1, FS_EmptySet
<1>4. selection.rev # None /\ selection.rev \in ToSet(revs) /\ S \subseteq Ancestors(selection.rev.commit)
  BY <1>2, <1>3 DEF SelectionOk
<1>5. selection.rev.commit \in Commits /\ S \in SUBSET (Commits \ {Null})
  BY <1>2, <1>4, SelectionFacts, RevShape
<1>6. c \in S
  BY <1>3, <1>4, <1>5, EarliestAndLatest
<1>. HIDE DEF S, c
<1>7. c \in Commits \ {Null}
  BY <1>5, <1>6
<1>. QED  BY <1>1, <1>4, <1>7, RevCreateFits

LEMMA DuplicateFits ==
    ASSUME InductiveInv, ColumnsInv', NEW i \in DOMAIN columns, NEW m \in Names, Duplicate(i, m)
    PROVE  InductiveInv'
<1>1. ColumnsInv /\ TypesFit
  BY Dismantled
<1>2. columns[i] \in ToSet(revs) /\ columns[i].commit \in Commits \ {Null}
  BY <1>1, ColumnFacts, RevShape
<1>. QED  BY <1>2, RevCreateFits DEF Duplicate

LEMMA RefDeleteFits ==
    ASSUME InductiveInv, ColumnsInv', NEW i \in DOMAIN columns, RefDelete(i)
    PROVE  InductiveInv'
<1>. DEFINE n == columns[i].ref
            r == [x \in DOMAIN refs \ {n} |-> refs[x]]
            hs == [x \in DOMAIN histories \ {n} |-> histories[x]]
            K == {k \in DOMAIN revs : revs[k].ref # n}
            rs == Keep(revs, K)
<1>1. /\ phase = "idle" /\ refs' = r /\ histories' = hs /\ revs' = Reloaded(rs, r)
      /\ UNCHANGED <<phase, press, drag, ops>>
      /\ selection' = IF selection.rev # None /\ selection.rev.ref = n THEN NoSelection ELSE selection
  BY DEF RefDelete, Reload
<1>2. /\ ColumnsInv /\ TypesFit /\ SelectionOk(selection, revs)
      /\ press = NoPress /\ drag \in BOOLEAN /\ ops \in 0..MaxOps
  BY <1>1, IdleFacts
<1>3. PhaseOk'
  BY <1>1, <1>2, IdleIsOk
<1>4. revs \in Seq(ToSet(revs)) /\ DOMAIN revs = 1..Len(revs) /\ Len(revs) \in Nat
  BY <1>2, LenProperties DEF ColumnsInv, RevsFit
<1>5. K \in SUBSET (1..Len(revs)) /\ K \in SUBSET Int
  BY <1>4
<1>. HIDE DEF rs, n
<1>6. /\ IsFiniteSet(K) /\ Cardinality(K) \in Nat
      /\ rs \in Seq(ToSet(revs)) /\ Len(rs) = Cardinality(K)
      /\ \A k \in 1..Cardinality(K) : Nth(K, k) \in K /\ rs[k] = revs[Nth(K, k)]
  <2>. HIDE DEF K
  <2>. QED  BY <1>4, <1>5, KeepType DEF rs
<1>7. DOMAIN rs = 1..Cardinality(K)
  BY <1>6, LenProperties
<1>8. ASSUME NEW j \in DOMAIN rs
      PROVE  /\ IsRev(rs[j]) /\ rs[j].skip \in Nat /\ rs[j].readOnly \in BOOLEAN
             /\ r[rs[j].ref] = rs[j].commit
  <2>1. PICK k \in K : rs[j] = revs[k]
    <3>. HIDE DEF K
    <3>. QED  BY <1>6, <1>7
  <2>2. /\ revs[k] \in Rev /\ revs[k].ref \in DOMAIN refs \ {n}
        /\ revs[k].commit = refs[revs[k].ref]
    BY <1>2, RevFacts
  <2>. QED  BY <2>1, <2>2, RevShape
<1>9. /\ DOMAIN r \subseteq Names /\ DOMAIN hs \subseteq DOMAIN r
      /\ \A x \in DOMAIN r : r[x] \in Commits \ {Null}
  BY <1>2 DEF TypesFit
<1>10. \A x \in DOMAIN hs : hs[x] \in HistoryOf(Entries) /\ HistoryFits(hs[x])
  BY <1>2 DEF TypesFit
<1>. HIDE DEF r, hs
<1>11. /\ DOMAIN revs' = DOMAIN rs /\ \A j \in DOMAIN rs : revs'[j] = rs[j]
       /\ \A j \in DOMAIN revs' : revs'[j].skip \in Nat /\ revs'[j].readOnly \in BOOLEAN
  BY <1>1, <1>8, ReloadTypes
<1>12. TypesFit'
  BY <1>1, <1>9, <1>10, <1>11 DEF TypesFit
<1>13. CASE selection.rev # None /\ selection.rev.ref = n
  <2>1. selection' = NoSelection
    BY <1>1, <1>13
  <2>2. SelectionOk(selection, revs)'
    BY <2>1 DEF SelectionOk, NoSelection
  <2>. QED  BY <1>3, <1>12, <2>2, Assembled
<1>14. CASE ~(selection.rev # None /\ selection.rev.ref = n)
  <2>1. selection' = selection
    BY <1>1, <1>14
  <2>2. ASSUME selection.rev # None PROVE selection.rev \in ToSet(revs')
    <3>1. PICK k \in DOMAIN revs : selection.rev = revs[k]
      BY <1>2, <2>2 DEF SelectionOk, ToSet
    <3>2. k \in K
      BY <1>14, <2>2, <3>1
    <3>. HIDE DEF K
    <3>3. Rank(K, k) \in 1..Cardinality(K) /\ Nth(K, Rank(K, k)) = k
      BY <1>5, <1>6, <3>2, NthHasRank
    <3>4. Rank(K, k) \in DOMAIN revs' /\ revs'[Rank(K, k)] = revs[k]
      BY <1>6, <1>7, <1>11, <3>3
    <3>. QED  BY <3>1, <3>4 DEF ToSet
  <2>3. SelectionOk(selection, revs)'
    BY <1>2, <2>1, <2>2 DEF SelectionOk
  <2>. QED  BY <1>3, <1>12, <2>3, Assembled
<1>. QED  BY <1>13, <1>14

LEMMA ResizeFits ==
    ASSUME InductiveInv, ColumnsInv', NEW s, Resize(s)
    PROVE  InductiveInv'
<1>1. /\ phase \in {"idle", "pressed"} /\ phase' = "idle" /\ press' = NoPress
      /\ revs' = Reloaded(revs, refs) /\ UNCHANGED <<refs, histories, selection, drag, ops>>
  BY DEF Resize, Reload
<1>2. ColumnsInv /\ TypesFit /\ PhaseOk /\ SelectionOk(selection, revs)
  BY <1>1, Dismantled
<1>3. PhaseOk'
  BY <1>1, <1>2, IdleIsOk DEF PhaseOk
<1>4. ASSUME NEW j \in DOMAIN revs
      PROVE  /\ IsRev(revs[j]) /\ revs[j].skip \in Nat /\ revs[j].readOnly \in BOOLEAN
             /\ refs[revs[j].ref] = revs[j].commit
  BY <1>2, RevFacts, RevShape
<1>5. /\ DOMAIN revs' = DOMAIN revs /\ \A j \in DOMAIN revs : revs'[j] = revs[j]
      /\ \A j \in DOMAIN revs' : revs'[j].skip \in Nat /\ revs'[j].readOnly \in BOOLEAN
  BY <1>1, <1>4, ReloadTypes
<1>6. TypesFit'
  BY <1>1, <1>2, <1>5 DEF TypesFit
<1>7. SelectionOk(selection, revs)'
  <2>1. ASSUME selection.rev # None PROVE selection.rev \in ToSet(revs')
    <3>1. PICK k \in DOMAIN revs : selection.rev = revs[k]
      BY <1>2, <2>1 DEF SelectionOk, ToSet
    <3>. QED  BY <1>5, <3>1 DEF ToSet
  <2>. QED  BY <1>1, <1>2, <2>1 DEF SelectionOk
<1>. QED  BY <1>3, <1>6, <1>7, Assembled

LEMMA StutterFits ==
    ASSUME InductiveInv, ColumnsInv', UNCHANGED vars
    PROVE  InductiveInv'
<1>1. /\ UNCHANGED <<refs, revs, columns, size, histories>>
      /\ UNCHANGED <<selection, phase, press, drag, ops>>
  BY DEF vars
<1>2. TypeOK /\ SelectionIsLive /\ SelectionsInv
  BY DEF InductiveInv, SelectionsInv
<1>3. TypeOK'
  BY <1>1, <1>2 DEF TypeOK
<1>4. SelectionIsLive'
  BY <1>1, <1>2 DEF SelectionIsLive
<1>5. (phase = "pressed" => /\ press.commit \in Panels(columns[press.column])
                            /\ Selected(columns[press.column], press.commit))'
  BY <1>1, <1>2 DEF SelectionsInv, Panels, Selected
<1>6. SelectionsInv'
  BY <1>1, <1>2, <1>3, <1>4, <1>5 DEF SelectionsInv
<1>. QED  BY <1>6 DEF InductiveInv

LEMMA StepFits == InductiveInv /\ [Next]_vars => InductiveInv'
<1>. SUFFICES ASSUME InductiveInv, [Next]_vars PROVE InductiveInv'
  OBVIOUS
<1>0. ColumnsInv'
  BY StepKeeps DEF InductiveInv
<1>1. CASE Mouse
  BY <1>0, <1>1, MouseFits
<1>2. CASE Keys
  <2>1. ASSUME NEW type \in {"Delete", "Combine", "Edit"}, Key(type) PROVE InductiveInv'
    BY <1>0, <2>1, KeyFits
  <2>2. ASSUME NEW m \in Names, Branch(m) PROVE InductiveInv'
    BY <1>0, <2>2, BranchFits
  <2>. QED  BY <1>2, <2>1, <2>2 DEF Keys
<1>3. CASE Column
  <2>1. ASSUME NEW i \in DOMAIN columns, NEW undo \in BOOLEAN, UndoRedo(i, undo)
        PROVE  InductiveInv'
    BY <1>0, <2>1, UndoRedoFits
  <2>2. ASSUME NEW i \in DOMAIN columns, NEW m \in Names, Rename(i, m) PROVE InductiveInv'
    BY <1>0, <2>2, RenameFits
  <2>3. ASSUME NEW i \in DOMAIN columns, NEW m \in Names, Duplicate(i, m) PROVE InductiveInv'
    BY <1>0, <2>3, DuplicateFits
  <2>4. ASSUME NEW i \in DOMAIN columns, RefDelete(i) PROVE InductiveInv'
    BY <1>0, <2>4, RefDeleteFits
  <2>. QED  BY <1>3, <2>1, <2>2, <2>3, <2>4 DEF Column
<1>4. ASSUME NEW s \in Sizes, Resize(s) PROVE InductiveInv'
  BY <1>0, <1>4, ResizeFits
<1>5. CASE UNCHANGED vars
  BY <1>0, <1>5, StutterFits
<1>. QED  BY <1>1, <1>2, <1>3, <1>4, <1>5 DEF Next

LEMMA LaunchTypes ==
    ASSUME NEW l \in Launches
    PROVE  \A i \in DOMAIN Launched(l) :
              Launched(l)[i].skip \in Nat /\ Launched(l)[i].readOnly \in BOOLEAN
<1>. DEFINE a == AskedFor(l)
            T == [ref : DOMAIN l.refs, skip : Nat]
<1>1. a \in Seq(T)
  BY AskedForFits
<1>2. \A t \in T : t.skip \in Nat
  OBVIOUS
<1>. HIDE DEF a, T
<1>3. \A i \in DOMAIN a : a[i].skip \in Nat
  BY <1>1, <1>2, LenProperties, ElementOfSeq
<1>4. l.dirty \in BOOLEAN
  BY ColumnsAssumption
<1>. QED  BY <1>3, <1>4 DEF Launched, a

LEMMA StartFits == Init => InductiveInv
<1>. SUFFICES ASSUME Init PROVE InductiveInv
  OBVIOUS
<1>0. ColumnsInv
  BY StartKeeps
<1>1. PICK l \in Launches, s \in Sizes :
         /\ refs = l.refs
         /\ revs = Launched(l)
         /\ size = s
         /\ columns = Shown(revs, s)
         /\ histories = [n \in {revs[i].ref : i \in DOMAIN revs} |->
                            Fresh(Entry(n, refs[n], {}, {}, NoSelection, NoSelection))]
  BY DEF Init
<1>2. selection = NoSelection /\ phase = "idle" /\ press = NoPress /\ drag = FALSE /\ ops = 0
  BY DEF Init
<1>3. DOMAIN refs \subseteq Names /\ \A n \in DOMAIN refs : refs[n] \in Commits \ {Null}
  BY <1>1, ColumnsAssumption
<1>4. \A i \in DOMAIN revs : revs[i].skip \in Nat /\ revs[i].readOnly \in BOOLEAN
  BY <1>1, LaunchTypes
<1>5. \A i \in DOMAIN revs : revs[i].ref \in DOMAIN refs
  BY <1>0 DEF ColumnsInv, RevsFit
<1>6. DOMAIN histories \subseteq DOMAIN refs
  BY <1>1, <1>5
<1>7. ASSUME NEW n \in DOMAIN histories
      PROVE  histories[n] \in HistoryOf(Entries) /\ HistoryFits(histories[n])
  <2>. DEFINE nothing == {}
              e == Entry(n, refs[n], nothing, nothing, NoSelection, NoSelection)
  <2>1. n \in Names /\ refs[n] \in Commits \ {Null}
    BY <1>3, <1>6
  <2>2. e \in Entries /\ e.selection = nothing
    BY <2>1, NoSelectionTyped, EntryTyped
  <2>3. histories[n] = Fresh(e)
    BY <1>1
  <2>. HIDE DEF e
  <2>. QED  BY <2>2, <2>3, FreshFits
<1>8. TypesFit
  BY <1>3, <1>4, <1>6, <1>7 DEF TypesFit
<1>9. ASSUME NEW i \in DOMAIN revs PROVE revs[i] \in Rev
  BY <1>0, <1>8, RevFacts
<1>10. \A i \in DOMAIN columns : columns[i] \in Rev
  BY <1>0, <1>8, ColumnFacts
<1>11. press \in [column : Nat, commit : Commits, dragged : BOOLEAN] /\ 0 \in 0..MaxOps
  BY <1>2, AncestorsAreCommits, ColumnsAssumption DEF NoPress, Null
<1>12. selection.rev = None /\ selection.commits = {} /\ selection \in Selections
  BY <1>2, NoSelectionTyped DEF NoSelection
<1>13. TypeOK
  BY <1>0, <1>2, <1>8, <1>9, <1>10, <1>11, <1>12 DEF TypeOK, TypesFit, ColumnsInv
<1>14. SelectionsInv
  BY <1>2, <1>8, <1>12, <1>13 DEF SelectionsInv, TypesFit, SelectionIsLive
<1>. QED  BY <1>0, <1>14 DEF InductiveInv

(***************************************************************************)
(* A history as the line of the states that a ref had                      *)
(***************************************************************************)

\* The states of a history: those to undo from the oldest, the current one, those to redo.
Line(p, e, q) == Reverse(p) \o <<e>> \o q

LEMMA LineOfStates ==
    ASSUME NEW T, NEW p \in Seq(T), NEW e \in T, NEW q \in Seq(T)
    PROVE  LET line == Line(p, e, q)
           IN  /\ Len(p) \in Nat /\ Len(q) \in Nat /\ DOMAIN line = 1..Len(p) + 1 + Len(q)
               /\ \A i \in 1..Len(p) : line[i] = p[Len(p) - i + 1]
               /\ line[Len(p) + 1] = e
               /\ \A i \in 1..Len(q) : line[Len(p) + 1 + i] = q[i]
<1>. DEFINE m == Len(p)
            n == Len(q)
            r == Reverse(p)
            one == <<e>>
            s == r \o one
            line == s \o q
<1>1. m \in Nat /\ n \in Nat /\ \A i \in 1..m : p[i] \in T
  BY LenProperties, ElementOfSeq
<1>2. r \in Seq(T) /\ Len(r) = m /\ \A i \in 1..m : r[i] = p[m - i + 1]
  <2>1. r = [i \in 1..m |-> p[m - i + 1]]
    BY DEF Reverse
  <2>2. \A i \in 1..m : m - i + 1 \in 1..m
    BY <1>1
  <2>. HIDE DEF r, m
  <2>3. r \in [1..m -> T]
    BY <1>1, <2>1, <2>2
  <2>4. r \in Seq(T)
    BY <1>1, <2>3, SeqDef
  <2>5. DOMAIN r = 1..m /\ DOMAIN r = 1..Len(r) /\ Len(r) \in Nat
    BY <2>1, <2>4, LenProperties
  <2>. QED  BY <1>1, <2>1, <2>4, <2>5
<1>3. one \in Seq(T) /\ Len(one) = 1 /\ one[1] = e
  OBVIOUS
<1>. HIDE DEF r, one, m, n
<1>4. /\ s \in Seq(T) /\ Len(s) = m + 1
      /\ \A i \in 1..m : s[i] = r[i]
      /\ s[m + 1] = e
  <2>1. /\ s \in Seq(T) /\ Len(s) = Len(r) + Len(one)
        /\ \A i \in 1..(Len(r) + Len(one)) : s[i] = IF i <= Len(r) THEN r[i] ELSE one[i - Len(r)]
    BY <1>2, <1>3, ConcatProperties
  <2>. HIDE DEF s
  <2>2. \A i \in 1..m : i \in 1..(m + 1) /\ i <= m
    BY <1>1
  <2>3. m + 1 \in 1..(m + 1) /\ ~(m + 1 <= m) /\ (m + 1) - m = 1
    BY <1>1
  <2>. QED  BY <1>2, <1>3, <2>1, <2>2, <2>3
<1>. HIDE DEF s
<1>5. /\ line \in Seq(T) /\ Len(line) = m + 1 + n
      /\ \A i \in 1..(m + 1 + n) : line[i] = IF i <= m + 1 THEN s[i] ELSE q[i - (m + 1)]
  <2>1. /\ line \in Seq(T) /\ Len(line) = Len(s) + Len(q)
        /\ \A i \in 1..(Len(s) + Len(q)) : line[i] = IF i <= Len(s) THEN s[i] ELSE q[i - Len(s)]
    BY <1>4, ConcatProperties
  <2>. QED  BY <1>4, <2>1 DEF n
<1>6. line = Line(p, e, q)
  BY DEF s, r, one, Line
<1>. HIDE DEF line
<1>7. DOMAIN line = 1..m + 1 + n
  BY <1>5, LenProperties
<1>8. ASSUME NEW i \in 1..m PROVE line[i] = p[m - i + 1]
  <2>1. i \in 1..(m + 1 + n) /\ i <= m + 1
    BY <1>1
  <2>. QED  BY <1>2, <1>4, <1>5, <2>1
<1>9. line[m + 1] = e
  <2>1. m + 1 \in 1..(m + 1 + n) /\ m + 1 <= m + 1
    BY <1>1
  <2>. QED  BY <1>4, <1>5, <2>1
<1>10. ASSUME NEW i \in 1..n PROVE line[m + 1 + i] = q[i]
  <2>. DEFINE k == m + 1 + i
  <2>1. k \in 1..(m + 1 + n) /\ ~(k <= m + 1) /\ k - (m + 1) = i
    BY <1>1
  <2>. HIDE DEF k
  <2>2. line[k] = q[i]
    BY <1>5, <2>1
  <2>. QED  BY <2>2 DEF k
<1>11. /\ m \in Nat /\ n \in Nat /\ DOMAIN line = 1..m + 1 + n
       /\ \A i \in 1..m : line[i] = p[m - i + 1]
       /\ line[m + 1] = e
       /\ \A i \in 1..n : line[m + 1 + i] = q[i]
  BY <1>1, <1>7, <1>8, <1>9, <1>10
<1>. QED  BY <1>6, <1>11, Zenon DEF m, n

LEMMA FitsInLine ==
    ASSUME NEW h \in HistoryOf(Entries), HistoryFits(h)
    PROVE  LET line == Reverse(h.prev) \o <<h.cur>> \o h.next
           IN  \A i \in DOMAIN line :
                  /\ line[i].selection \subseteq Ancestors(line[i].head)
                  /\ i > 1 => line[i].selectionPrev \subseteq Ancestors(line[i - 1].head)
<1>. DEFINE p == h.prev
            e == h.cur
            q == h.next
            line == Line(p, e, q)
            m == Len(p)
            n == Len(q)
<1>1. p \in Seq(Entries) /\ e \in Entries /\ q \in Seq(Entries)
  BY DEF HistoryOf
<1>3. /\ \A x \in ToSet(p) \cup {e} \cup ToSet(q) : SelectedWithin(x)
      /\ OlderFit(p, e) /\ NewerFit(q, e)
  BY FitsByStack
<1>4. /\ \A i \in 1..m : p[i] \in ToSet(p)
      /\ \A i \in 1..n : q[i] \in ToSet(q)
  BY <1>1, LenProperties DEF ToSet
<1>. HIDE DEF p, q, e
<1>2. /\ m \in Nat /\ n \in Nat /\ DOMAIN line = 1..m + 1 + n
      /\ \A i \in 1..m : line[i] = p[m - i + 1]
      /\ line[m + 1] = e
      /\ \A i \in 1..n : line[m + 1 + i] = q[i]
  <2>1. LET x == Line(p, e, q)
        IN  /\ Len(p) \in Nat /\ Len(q) \in Nat /\ DOMAIN x = 1..Len(p) + 1 + Len(q)
            /\ \A i \in 1..Len(p) : x[i] = p[Len(p) - i + 1]
            /\ x[Len(p) + 1] = e
            /\ \A i \in 1..Len(q) : x[Len(p) + 1 + i] = q[i]
    BY <1>1, LineOfStates, SMTT(20)
  <2>. QED  BY ONLY <2>1
<1>. HIDE DEF line
<1>5. ASSUME NEW i \in 1..m + 1 + n
      PROVE  /\ i \in 1..m => m - i + 1 \in 1..m
             /\ i \in 1..m \/ i = m + 1 \/ (i - m - 1 \in 1..n /\ i = m + 1 + (i - m - 1))
  BY <1>2 DEF m, n
<1>6. ASSUME NEW i \in 1..m + 1 + n PROVE SelectedWithin(line[i])
  <2>1. CASE i \in 1..m
    BY <1>2, <1>3, <1>4, <1>5, <2>1
  <2>2. CASE i = m + 1
    BY <1>2, <1>3, <2>2
  <2>3. CASE i - m - 1 \in 1..n /\ i = m + 1 + (i - m - 1)
    BY <1>2, <1>3, <1>4, <2>3
  <2>. QED  BY <1>5, <2>1, <2>2, <2>3
<1>7. ASSUME NEW i \in 1..m + 1 + n, i > 1 PROVE Follows(line[i - 1], line[i])
  <2>. HIDE DEF m, n
  <2>1. CASE i \in 1..m
    <3>1. /\ m - i + 2 \in 1..m /\ m - i + 2 # 1 /\ (m - i + 2) - 1 = m - i + 1
          /\ i - 1 \in 1..m /\ m - (i - 1) + 1 = m - i + 2
      BY <1>2, <1>7, <2>1
    <3>2. Follows(p[m - i + 2], p[m - i + 1])
      BY <1>3, <3>1 DEF OlderFit, m
    <3>3. line[i] = p[m - i + 1] /\ line[i - 1] = p[m - i + 2]
      BY <1>2, <2>1, <3>1
    <3>. QED  BY <3>2, <3>3
  <2>2. CASE i = m + 1
    <3>1. i - 1 = m /\ m \in 1..m /\ 1 \in 1..m /\ m - m + 1 = 1
      BY <1>2, <1>7, <2>2
    <3>2. Follows(p[1], e)
      BY <1>3, <3>1 DEF OlderFit, m
    <3>. QED  BY <1>2, <2>2, <3>1, <3>2
  <2>3. CASE i = m + 2 /\ 1 \in 1..n
    <3>1. i = m + 1 + 1 /\ i - 1 = m + 1
      BY <1>2, <2>3
    <3>2. Follows(e, q[1])
      BY <1>3, <2>3 DEF NewerFit, n
    <3>. QED  BY <1>2, <2>3, <3>1, <3>2
  <2>4. CASE i > m + 2
    <3>. DEFINE k == i - m - 1
    <3>1. k \in 1..n /\ k # 1 /\ k - 1 \in 1..n /\ i = m + 1 + k /\ i - 1 = m + 1 + (k - 1)
      BY <1>2, <2>4
    <3>. HIDE DEF k
    <3>2. Follows(q[k - 1], q[k])
      BY <1>3, <3>1 DEF NewerFit, n
    <3>. QED  BY <1>2, <3>1, <3>2
  <2>5. i \in 1..m \/ i = m + 1 \/ (i = m + 2 /\ 1 \in 1..n) \/ i > m + 2
    BY <1>2
  <2>. QED  BY <2>1, <2>2, <2>3, <2>4, <2>5
<1>8. \A i \in DOMAIN line :
         /\ line[i].selection \subseteq Ancestors(line[i].head)
         /\ i > 1 => line[i].selectionPrev \subseteq Ancestors(line[i - 1].head)
  BY <1>2, <1>6, <1>7 DEF SelectedWithin, Follows
<1>. QED  BY <1>8 DEF line, p, q, e, Line

(***************************************************************************)
(* Properties, of every repository and launch                              *)
(***************************************************************************)

\* The invariant holds in every reachable state.
THEOREM ColumnsInvariant == Spec => []ColumnsInv
<1>1. ColumnsInv /\ [Next]_vars => ColumnsInv'
  BY StepKeeps
<1>. QED  BY <1>1, StartKeeps, PTL DEF Spec

LEMMA FitIsMirror == ColumnsInv => ColumnsMirrorGit
<1>. SUFFICES ASSUME ColumnsInv PROVE ColumnsMirrorGit
  OBVIOUS
<1>1. IsInjective(revs)
  BY DEF ColumnsInv, RevsFit, IsInjective
<1>. QED  BY <1>1 DEF ColumnsInv, RevsFit, ColumnsMirrorGit

\* The columns mirror git: _reload() after every operation leaves a column of each rev that
\* fits, at the commit of its ref, and no two of them alike.
THEOREM MirrorKept == Spec => []ColumnsMirrorGit
BY ColumnsInvariant, FitIsMirror, PTL

\* The branch with uncommitted changes keeps its name and its commit whatever the user does:
\* every path to git goes through _selectionCan...(), forceCopy or a column that is mutable.
THEOREM ReadOnlyKept == Spec => ReadOnlyRefsStay
<1>1. ColumnsInv /\ [Next]_vars =>
         [\A i \in DOMAIN revs : revs[i].readOnly =>
             revs[i].ref \in DOMAIN refs' /\ refs'[revs[i].ref] = refs[revs[i].ref]]_vars
  BY StepKeeps DEF ReadOnlyStep
<1>. QED  BY <1>1, ColumnsInvariant, PTL DEF Spec, ReadOnlyRefsStay

\* What is selected, what the mouse went down on and what the histories say of it fit what the
\* refs are: it holds at the launch, and every key, drag, click, menu item, undo, rename and
\* resize keeps it, _gitOpExec() by what Git::Modify returns.
THEOREM Inductive == Spec => []InductiveInv
<1>1. Init => InductiveInv
  BY StartFits
<1>2. InductiveInv /\ [Next]_vars => InductiveInv'
  BY StepFits
<1>. QED  BY <1>1, <1>2, PTL DEF Spec

\* What is selected is in a rev that there is: _revCreate() finds its template in _revs, and
\* _FindLatestCommit() does not run out of commits.
THEOREM SelectionStaysLive == Spec => []SelectionIsLive
<1>1. InductiveInv => SelectionIsLive
  BY DEF InductiveInv, SelectionsInv
<1>. QED  BY <1>1, Inductive, PTL

\* An undo or a redo selects commits that the ref then has, after any operations, renames and
\* undos: each state of a history comes with a selection from it and one from the state before.
THEOREM HistoriesSelectTheirStates == Spec => []SelectionsFitTheirStates
<1>1. InductiveInv => SelectionsFitTheirStates
  <2>1. SUFFICES ASSUME InductiveInv PROVE SelectionsFitTheirStates
    OBVIOUS
  <2>2. ASSUME NEW n \in DOMAIN histories
        PROVE  histories[n] \in HistoryOf(Entries) /\ HistoryFits(histories[n])
    BY <2>1, Dismantled DEF TypesFit
  <2>. QED  BY <2>2, FitsInLine DEF SelectionsFitTheirStates
<1>. QED  BY <1>1, Inductive, PTL

\* _panelForCommit() finds the panel that titles a drag, unless the column skips commits.
THEOREM AbortsUnderASkip == Spec => []AbortsOnlyUnderASkip
<1>1. InductiveInv => AbortsOnlyUnderASkip
  <2>1. SUFFICES ASSUME InductiveInv PROVE AbortsOnlyUnderASkip
    OBVIOUS
  <2>2. phase = "aborted" => selection.rev # None /\ selection.rev.skip > 0
    BY <2>1 DEF InductiveInv, SelectionsInv
  <2>3. ASSUME NEW i \in DOMAIN columns, columns[i].skip = 0,
               NEW x \in Panels(columns[i]), Selected(columns[i], x)
        PROVE  Latest(selection.commits) \in Panels(columns[i])
    <3>1. ColumnsInv /\ TypesFit /\ SelectionIsLive
      BY <2>1, Dismantled DEF InductiveInv, SelectionsInv
    <3>2. columns[i] \in Rev /\ columns[i] # None /\ size \in Sizes
      BY <3>1, ColumnFacts, RevShape DEF ColumnsInv
    <3>3. selection.rev = columns[i] /\ x \in selection.commits
      BY <2>3 DEF Selected
    <3>4. selection.commits \subseteq Ancestors(columns[i].commit)
      BY <3>1, <3>2, <3>3 DEF SelectionIsLive
    <3>. QED  BY <2>3, <3>2, <3>3, <3>4, LatestHasPanel
  <2>. QED  BY <2>2, <2>3 DEF AbortsOnlyUnderASkip
<1>. QED  BY <1>1, Inductive, PTL

\* An undo selects what the user had selected in the ref when he asked for the operation that is
\* undone, and a redo what that operation had selected in it, whatever happened in between.
THEOREM UndoAndRedoSelect == Spec => UndoRedoSelects
<1>. DEFINE Selects == \A i \in DOMAIN columns :
                LET n == columns[i].ref
                    h == histories[n]
                IN  /\ UndoRedo(i, TRUE) => selection'.commits = SelectedIn(h.cur.before, n)
                    /\ UndoRedo(i, FALSE) => selection'.commits = SelectedIn(NextPeek(h).after, n)
<1>1. InductiveInv => Selects
  <2>. SUFFICES ASSUME InductiveInv, NEW i \in DOMAIN columns
                PROVE  LET n == columns[i].ref
                           h == histories[n]
                       IN  /\ UndoRedo(i, TRUE) => selection'.commits = SelectedIn(h.cur.before, n)
                           /\ UndoRedo(i, FALSE) =>
                                 selection'.commits = SelectedIn(NextPeek(h).after, n)
    OBVIOUS
  <2>. DEFINE n == columns[i].ref
              h == histories[n]
  <2>1. h \in HistoryOf(Entries) /\ HistoryFits(h) /\ h.cur.name = n
    <3>1. ColumnsInv /\ TypesFit
      BY Dismantled
    <3>2. i \in DOMAIN revs /\ columns[i] = revs[i] /\ n \in DOMAIN histories
      BY <3>1, ColumnFacts
    <3>. QED  BY <3>1, <3>2, RevFacts DEF TypesFit
  <2>2. ASSUME UndoRedo(i, TRUE) PROVE selection'.commits = SelectedIn(h.cur.before, n)
    <3>1. CanUndo(h) /\ selection'.commits = h.cur.selectionPrev
      BY <2>2 DEF UndoRedo, SelectedByUndo
    <3>. HIDE DEF h, n
    <3>2. Follows(PrevPeek(h), h.cur)
      BY <2>1, <3>1, BackFits
    <3>. QED  BY <2>1, <3>1, <3>2 DEF Follows
  <2>3. ASSUME UndoRedo(i, FALSE) PROVE selection'.commits = SelectedIn(NextPeek(h).after, n)
    <3>1. CanRedo(h) /\ selection'.commits = NextPeek(h).selection
      BY <2>3 DEF UndoRedo, SelectedByUndo
    <3>. HIDE DEF h, n
    <3>2. Follows(h.cur, NextPeek(h))
      BY <2>1, <3>1, ForthFits
    <3>. QED  BY <2>1, <3>1, <3>2 DEF Follows
  <2>. QED  BY <2>2, <2>3
<1>2. InductiveInv => [Selects]_vars
  BY <1>1
<1>. QED  BY <1>2, Inductive, PTL DEF UndoRedoSelects
=============================================================================

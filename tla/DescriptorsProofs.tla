--------------------------- MODULE DescriptorsProofs ---------------------------
(***************************************************************************)
(* What FileDescriptor promises to a program that leaves closed            *)
(* descriptors alone, and webget to its user, for every number of          *)
(* descriptors, every response and every portion in which it is read.      *)
(***************************************************************************)
EXTENDS Webget, InductionLemmas, SequenceTheorems

File ==
    [kind : {"terminal", "stream", "listener"}, arrived : Nat, sent : Nat, ended : BOOLEAN,
     shut : BOOLEAN, non_blocking : BOOLEAN, taken : Nat]

Wrapper(count) ==
    [fd : Numbers \ {0}, file : 1..count, eof : BOOLEAN, closed : BOOLEAN,
     non_blocking : BOOLEAN, refs : Nat, phantom : BOOLEAN]

TypeOK ==
    /\ files \in Seq(File)
    /\ table \in [Numbers -> 0..Len(files)]
    /\ wrappers \in Seq(Wrapper(Len(files)))

\* Nothing is left of a file and nothing will come, unless the program itself
\* shut the side that reads.
Done(f) == f.shut \/ (f.ended /\ f.arrived = 0)

\* The flag of a descriptor that is not closed means that its file is done,
\* whether or not there is a handle of it left.
EofMeansDone ==
    \A w \in DOMAIN wrappers :
        wrappers[w].eof /\ ~wrappers[w].closed => Done(files[wrappers[w].file])

Inv == TypeOK /\ OwnsItsFile /\ EofMeansDone

------------------------------------------------------------------------------
(* webget *)

\* What webget has opened and printed, at each of its steps.
Running ==
    LET w == wrappers[1]
        f == files[2]
    IN  /\ Len(wrappers) = 1 /\ Len(files) = 2
        /\ w.file = 2 /\ ~w.closed /\ w.refs = 1 /\ ~f.shut /\ f.kind = "stream"
        /\ \A m \in Numbers \ {0, w.fd} : table[m] = Free
        /\ printed + f.arrived = f.sent /\ (f.ended => f.sent = MaxSent)

WebgetInv ==
    /\ printed \in Nat
    /\ pc \in {"other program", "socket", "connect", "write", "loop", "success", "failure"}
    /\ pc = "socket" =>
          /\ Len(wrappers) = 0 /\ Len(files) = 1 /\ printed = 0
          /\ \A m \in Numbers \ {0} : table[m] = Free
    /\ pc \in {"connect", "write", "loop"} => Running
    /\ SuccessIsComplete

------------------------------------------------------------------------------
(* The descriptors. *)

\* A descriptor that may be used stands for the file it was made for.
LEMMA Owned ==
    ASSUME Inv, NEW w \in DOMAIN wrappers, Alive(w), ~wrappers[w].closed
    PROVE  /\ wrappers[w] \in Wrapper(Len(files)) /\ wrappers[w].fd \in Numbers \ {0}
           /\ Target(w) = wrappers[w].file /\ Target(w) \in DOMAIN files /\ Target(w) # Free
           /\ files[Target(w)] \in File
           /\ Responsible(wrappers[w].fd) = {w}
  <1>1. /\ wrappers[w] \in Wrapper(Len(files)) /\ DOMAIN files = 1..Len(files)
        /\ Len(files) \in Nat /\ \A i \in DOMAIN files : files[i] \in File
    BY DEF Inv, TypeOK
  <1>2. w \in Responsible(wrappers[w].fd)
    BY DEF Responsible
  <1>3. wrappers[w].fd \in Numbers \ {0} /\ wrappers[w].file \in 1..Len(files)
    BY <1>1 DEF Wrapper
  <1>4. table[wrappers[w].fd] = wrappers[w].file /\ Responsible(wrappers[w].fd) = {w}
    BY <1>2, <1>3 DEF Inv, OwnsItsFile
  <1> QED BY <1>1, <1>3, <1>4 DEF Target, Free

\* Replacing one element of a sequence.
LEMMA Replaced ==
    ASSUME NEW S, NEW s \in Seq(S), NEW k \in DOMAIN s, NEW e \in S, NEW t, t = [s EXCEPT ![k] = e]
    PROVE  /\ t \in Seq(S) /\ Len(t) = Len(s) /\ DOMAIN t = DOMAIN s
           /\ \A i \in DOMAIN s : t[i] = IF i = k THEN e ELSE s[i]
  OBVIOUS

\* A step that leaves the numbers alone, closes nothing and destroys no last
\* handle, and after which what was done is done still.
LEMMA Quiet ==
    ASSUME Inv, table' = table,
           files' \in Seq(File), Len(files') = Len(files),
           \A i \in DOMAIN files : Done(files[i]) => Done(files'[i]),
           wrappers' \in Seq(Wrapper(Len(files))), DOMAIN wrappers' = DOMAIN wrappers,
           \A w \in DOMAIN wrappers :
              /\ wrappers'[w].fd = wrappers[w].fd /\ wrappers'[w].file = wrappers[w].file
              /\ wrappers'[w].closed = wrappers[w].closed
              /\ wrappers'[w].refs > 0 <=> wrappers[w].refs > 0
              /\ wrappers'[w].eof => wrappers[w].eof \/ Done(files'[wrappers[w].file])
    PROVE  Inv'
  <1>1. TypeOK'
    BY DEF Inv, TypeOK
  <1>2. \A m \in Numbers : Responsible(m)' = Responsible(m)
    BY DEF Responsible, Alive
  <1>3. OwnsItsFile'
    BY <1>2 DEF Inv, OwnsItsFile, Responsible
  <1>4. EofMeansDone'
    <2> SUFFICES ASSUME NEW w \in DOMAIN wrappers, wrappers'[w].eof, ~wrappers'[w].closed
                 PROVE  Done(files'[wrappers'[w].file])
      BY DEF EofMeansDone
    <2>1. wrappers[w] \in Wrapper(Len(files)) /\ DOMAIN files = 1..Len(files)
      BY DEF Inv, TypeOK
    <2>2. wrappers[w].file \in DOMAIN files
      BY <2>1 DEF Wrapper
    <2> QED BY <2>2 DEF Inv, EofMeansDone
  <1> QED BY <1>1, <1>3, <1>4 DEF Inv

\* The same, when one file changes.
LEMMA QuietFile ==
    ASSUME Inv, table' = table, wrappers' = wrappers, NEW k \in DOMAIN files, NEW g \in File,
           files' = [files EXCEPT ![k] = g], Done(files[k]) => Done(g)
    PROVE  Inv'
  <1>1. files \in Seq(File)
    BY DEF Inv, TypeOK
  <1>2. /\ files' \in Seq(File) /\ Len(files') = Len(files)
        /\ \A i \in DOMAIN files : files'[i] = IF i = k THEN g ELSE files[i]
    BY <1>1, Replaced
  <1> QED BY <1>2, Quiet DEF Inv, TypeOK

\* The same, when one wrapper changes as well, or alone (g is then its file).
LEMMA QuietWrapper ==
    ASSUME Inv, table' = table, NEW w \in DOMAIN wrappers, NEW v \in Wrapper(Len(files)),
           NEW g \in File, wrappers[w].file \in DOMAIN files,
           files' = [files EXCEPT ![wrappers[w].file] = g],
           Done(files[wrappers[w].file]) => Done(g),
           wrappers' = [wrappers EXCEPT ![w] = v],
           v.fd = wrappers[w].fd, v.file = wrappers[w].file, v.closed = wrappers[w].closed,
           v.refs > 0 <=> wrappers[w].refs > 0, v.eof => wrappers[w].eof \/ Done(g)
    PROVE  Inv'
  <1> DEFINE k == wrappers[w].file
  <1>1. files \in Seq(File) /\ wrappers \in Seq(Wrapper(Len(files))) /\ k \in DOMAIN files
        /\ files' = [files EXCEPT ![k] = g]
    BY DEF Inv, TypeOK
  <1>2. /\ wrappers' \in Seq(Wrapper(Len(files))) /\ DOMAIN wrappers' = DOMAIN wrappers
        /\ \A i \in DOMAIN wrappers : wrappers'[i] = IF i = w THEN v ELSE wrappers[i]
    BY <1>1, Replaced
  <1> HIDE DEF k
  <1>3. /\ files' \in Seq(File) /\ Len(files') = Len(files)
        /\ \A i \in DOMAIN files : files'[i] = IF i = k THEN g ELSE files[i]
    BY <1>1, Replaced
  <1>4. \A i \in DOMAIN files : Done(files[i]) => Done(files'[i])
    BY <1>3 DEF k
  <1>5. \A i \in DOMAIN wrappers :
              /\ wrappers'[i].fd = wrappers[i].fd /\ wrappers'[i].file = wrappers[i].file
              /\ wrappers'[i].closed = wrappers[i].closed
              /\ wrappers'[i].refs > 0 <=> wrappers[i].refs > 0
              /\ wrappers'[i].eof => wrappers[i].eof \/ Done(files'[wrappers[i].file])
    <2> TAKE i \in DOMAIN wrappers
    <2>1. CASE i = w
      BY <1>1, <1>2, <1>3, <2>1 DEF k
    <2>2. CASE i # w
      BY <1>2, <2>2
    <2> QED BY <2>1, <2>2
  <1> QED BY <1>2, <1>3, <1>4, <1>5, Quiet

\* The lowest free number is a number, is free and is not 0, which stands for
\* the standard input.
LEMMA LowestFree ==
    ASSUME Inv, FreeNumbers # {}
    PROVE  Min(FreeNumbers) \in Numbers \ {0} /\ table[Min(FreeNumbers)] = Free
  <1>1. FreeNumbers \in SUBSET Nat
    BY NumbersAssumption DEF FreeNumbers
  <1>2. \E x \in FreeNumbers : \A y \in FreeNumbers : x <= y
    <2> HIDE DEF FreeNumbers
    <2> QED BY <1>1, LeastNatural
  <1>3. Min(FreeNumbers) \in FreeNumbers
    <2> HIDE DEF FreeNumbers
    <2> QED BY <1>2 DEF Min
  <1>4. table[0] # Free
    BY DEF Inv, OwnsItsFile, Stdin, Free
  <1> QED BY <1>3, <1>4 DEF FreeNumbers

\* The file that is opened has a wrapper of its own and a number that no other
\* wrapper is responsible for.
LEMMA OpenInv ==
    ASSUME Inv, NEW kind \in {"stream", "listener"}, Open(kind)
    PROVE  /\ Inv'
           /\ Len(files') = Len(files) + 1 /\ files'[Len(files')] = NewFile(kind)
           /\ Len(wrappers') = Len(wrappers) + 1
           /\ LET w == wrappers'[Len(wrappers')]
              IN  /\ w.file = Len(files') /\ ~w.closed /\ w.refs = 1 /\ w.eof = FALSE
                  /\ w.fd \in Numbers \ {0} /\ table[w.fd] = Free
                  /\ table' = [table EXCEPT ![w.fd] = Len(files')]
  <1>1. PICK m \in Numbers \ {0} : m = Min(FreeNumbers) /\ table[m] = Free
    BY LowestFree DEF Open
  <1> DEFINE count == Len(files) + 1
             f == NewFile(kind)
             v == NewWrapper(m, count)
             k == Len(wrappers) + 1
  <1>2. /\ files \in Seq(File) /\ table \in [Numbers -> 0..Len(files)]
        /\ wrappers \in Seq(Wrapper(Len(files))) /\ Len(files) \in Nat
    BY DEF Inv, TypeOK
  <1>3. f \in File /\ f = NewFile(kind)
    BY DEF NewFile, File
  <1>4. v \in Wrapper(count) /\ v.fd = m /\ v.file = count /\ v.eof = FALSE /\ v.closed = FALSE
        /\ v.refs = 1
    BY <1>1, <1>2 DEF NewWrapper, Wrapper
  <1>5. files' = Append(files, f) /\ Len(files') = count
    BY <1>2, <1>3 DEF Open
  <1>6. table' = [table EXCEPT ![m] = count] /\ wrappers' = Append(wrappers, v)
    BY <1>1, <1>5 DEF Open
  <1> HIDE DEF f, v
  <1>7. files' \in Seq(File) /\ files'[count] = f
        /\ \A i \in DOMAIN files : i # count /\ files'[i] = files[i]
    BY <1>2, <1>3, <1>5
  <1>8. Wrapper(Len(files)) \subseteq Wrapper(count)
    <2>1. 1..Len(files) \subseteq 1..count
      BY <1>2
    <2> QED BY <2>1 DEF Wrapper
  <1>9. wrappers \in Seq(Wrapper(count))
    <2> HIDE DEF count
    <2>1. \A i \in DOMAIN wrappers : wrappers[i] \in Wrapper(count)
      BY <1>2, <1>8
    <2> QED BY <1>2, <2>1
  <1>10. /\ wrappers' \in Seq(Wrapper(count)) /\ DOMAIN wrappers' = DOMAIN wrappers \union {k}
         /\ Len(wrappers') = k /\ wrappers'[k] = v
         /\ \A w \in DOMAIN wrappers : w # k /\ wrappers'[w] = wrappers[w]
    BY <1>4, <1>6, <1>9
  <1>11. TypeOK'
    BY <1>1, <1>2, <1>5, <1>6, <1>7, <1>10 DEF TypeOK
  <1>12. \A w \in DOMAIN wrappers : wrappers[w].file \in DOMAIN files
    <2>1. \A w \in DOMAIN wrappers : wrappers[w] \in Wrapper(Len(files))
      BY <1>2
    <2>2. DOMAIN files = 1..Len(files)
      BY <1>2
    <2> QED BY <2>1, <2>2 DEF Wrapper
  <1> HIDE DEF k
  <1>13. OwnsItsFile'
    <2>1. table'[0] = Stdin
      BY <1>1, <1>2, <1>6, NumbersAssumption DEF Inv, OwnsItsFile
    <2>2. ASSUME NEW x \in Numbers \ {0, m} PROVE Responsible(x)' = Responsible(x)
      <3>1. k \notin Responsible(x)'
        BY <1>4, <1>10 DEF Responsible
      <3> QED BY <1>10, <3>1 DEF Responsible, Alive
    <2>3. Responsible(m)' = {k}
      <3>1. Responsible(m) = {}
        BY <1>1 DEF Inv, OwnsItsFile
      <3>2. k \in Responsible(m)'
        BY <1>4, <1>10 DEF Responsible, Alive
      <3>3. \A w \in DOMAIN wrappers : w \notin Responsible(m)'
        BY <1>10, <3>1 DEF Responsible, Alive
      <3> QED BY <1>10, <3>2, <3>3 DEF Responsible
    <2>4. table'[m] = count /\ count # Free /\ wrappers'[k].file = count
      BY <1>1, <1>2, <1>4, <1>6, <1>10 DEF Free
    <2>5. ASSUME NEW x \in Numbers \ {0}
          PROVE  IF table'[x] = Free THEN Responsible(x)' = {}
                 ELSE \E w \in Responsible(x)' : Responsible(x)' = {w} /\ wrappers'[w].file = table'[x]
      <3>1. CASE x = m
        <4>1. k \in Responsible(x)' /\ Responsible(x)' = {k} /\ wrappers'[k].file = table'[x]
          BY <2>3, <2>4, <3>1
        <4> QED BY <2>4, <3>1, <4>1
      <3>2. CASE x # m
        <4>1. table'[x] = table[x] /\ Responsible(x)' = Responsible(x)
          BY <1>2, <1>6, <2>2, <3>2
        <4>2. \A w \in Responsible(x) : wrappers'[w] = wrappers[w]
          BY <1>10 DEF Responsible
        <4> QED BY <4>1, <4>2 DEF Inv, OwnsItsFile
      <3> QED BY <3>1, <3>2
    <2> QED BY <2>1, <2>5 DEF OwnsItsFile
  <1>14. EofMeansDone'
    BY <1>4, <1>7, <1>10, <1>12 DEF Inv, EofMeansDone
  <1>15. Inv'
    BY <1>11, <1>13, <1>14 DEF Inv
  <1>16. wrappers'[Len(wrappers')] = v /\ files'[Len(files')] = f /\ Len(wrappers') = Len(wrappers) + 1
    BY <1>5, <1>7, <1>10 DEF k
  <1> QED BY <1>1, <1>3, <1>4, <1>5, <1>6, <1>15, <1>16

\* A number that becomes free has no wrapper left that is responsible for it.
LEMMA Freed ==
    ASSUME Inv, NEW w \in DOMAIN wrappers, Alive(w), ~wrappers[w].closed,
           NEW v \in Wrapper(Len(files)), files' = files,
           table' = [table EXCEPT ![wrappers[w].fd] = Free],
           wrappers' = [wrappers EXCEPT ![w] = v], v.fd = wrappers[w].fd,
           v.file = wrappers[w].file, v.closed \/ v.refs = 0,
           v.closed \/ v.eof = wrappers[w].eof
    PROVE  Inv'
  <1>1. PICK m \in Numbers \ {0} : m = wrappers[w].fd /\ Responsible(m) = {w}
    BY Owned
  <1>2. /\ files \in Seq(File) /\ table \in [Numbers -> 0..Len(files)] /\ Len(files) \in Nat
        /\ wrappers \in Seq(Wrapper(Len(files)))
    BY DEF Inv, TypeOK
  <1>3. /\ wrappers' \in Seq(Wrapper(Len(files))) /\ DOMAIN wrappers' = DOMAIN wrappers
        /\ \A i \in DOMAIN wrappers : wrappers'[i] = IF i = w THEN v ELSE wrappers[i]
    BY <1>2, Replaced
  <1>4. /\ table' \in [Numbers -> 0..Len(files)] /\ table'[m] = Free
        /\ \A x \in Numbers \ {m} : table'[x] = table[x]
    BY <1>1, <1>2 DEF Free
  <1>5. TypeOK'
    BY <1>2, <1>3, <1>4 DEF TypeOK
  <1>6. Responsible(m)' = {}
    <2>1. \A i \in DOMAIN wrappers : i \in Responsible(m)' => i = w \/ i \in Responsible(m)
      BY <1>3 DEF Responsible, Alive
    <2>2. w \notin Responsible(m)'
      BY <1>3 DEF Responsible, Alive
    <2> QED BY <1>1, <1>3, <2>1, <2>2 DEF Responsible
  <1>7. ASSUME NEW x \in Numbers \ {0, m} PROVE Responsible(x)' = Responsible(x)
    <2>1. w \notin Responsible(x) /\ w \notin Responsible(x)'
      BY <1>1, <1>3 DEF Responsible
    <2> QED BY <1>3, <2>1 DEF Responsible, Alive
  <1>8. OwnsItsFile'
    <2>1. table'[0] = Stdin
      BY <1>1, <1>4, NumbersAssumption DEF Inv, OwnsItsFile
    <2>2. ASSUME NEW x \in Numbers \ {0}
          PROVE  IF table'[x] = Free THEN Responsible(x)' = {}
                 ELSE \E i \in Responsible(x)' : Responsible(x)' = {i} /\ wrappers'[i].file = table'[x]
      <3>1. CASE x = m
        <4>1. Responsible(x)' = {} /\ table'[x] = Free
          BY <1>4, <1>6, <3>1
        <4> QED BY <4>1
      <3>2. CASE x # m
        <4>1. table'[x] = table[x] /\ Responsible(x)' = Responsible(x)
          BY <1>4, <1>7, <3>2
        <4>2. \A i \in Responsible(x) : wrappers'[i].file = wrappers[i].file
          BY <1>3 DEF Responsible
        <4> QED BY <4>1, <4>2 DEF Inv, OwnsItsFile
      <3> QED BY <3>1, <3>2
    <2> QED BY <2>1, <2>2 DEF OwnsItsFile
  <1>9. EofMeansDone'
    BY <1>3 DEF Inv, EofMeansDone
  <1> QED BY <1>5, <1>8, <1>9 DEF Inv

\* close: the descriptor has not been closed, so the number is its own.
LEMMA CloseInv ==
    ASSUME Inv, Disciplined, NEW w \in DOMAIN wrappers, Close(w) PROVE Inv'
  <1> DEFINE v == [wrappers[w] EXCEPT !.eof = TRUE, !.closed = TRUE]
  <1>1. Alive(w) /\ ~wrappers[w].closed
    BY DEF Close, MayUse
  <1>2. wrappers[w] \in Wrapper(Len(files))
    BY DEF Inv, TypeOK
  <1>3. v \in Wrapper(Len(files)) /\ v.fd = wrappers[w].fd /\ v.file = wrappers[w].file /\ v.closed
    BY <1>2 DEF Wrapper
  <1>4. wrappers' = [wrappers EXCEPT ![w] = v]
    BY DEF Close
  <1>5. files' = files /\ table' = [table EXCEPT ![wrappers[w].fd] = Free]
    BY DEF Close, kernel
  <1> HIDE DEF v
  <1> QED BY <1>1, <1>3, <1>4, <1>5, Freed

\* The last handle closes the number, unless close did; the others do not.
LEMMA DropInv ==
    ASSUME Inv, NEW w \in DOMAIN wrappers, Drop(w) PROVE Inv'
  <1> DEFINE v == [wrappers[w] EXCEPT !.refs = @ - 1]
  <1>1. wrappers[w] \in Wrapper(Len(files)) /\ Alive(w)
    BY DEF Inv, TypeOK, Drop
  <1>2. /\ v \in Wrapper(Len(files)) /\ v.fd = wrappers[w].fd /\ v.file = wrappers[w].file
        /\ v.closed = wrappers[w].closed /\ v.eof = wrappers[w].eof
        /\ v.refs = wrappers[w].refs - 1 /\ wrappers[w].refs \in Nat \ {0}
    BY <1>1 DEF Wrapper, Alive
  <1>3. wrappers' = [wrappers EXCEPT ![w] = v] /\ files' = files
    BY DEF Drop
  <1> HIDE DEF v
  <1>4. CASE ClosesLast(wrappers[w])
    <2>1. table' = [table EXCEPT ![wrappers[w].fd] = Free] /\ v.refs = 0 /\ ~wrappers[w].closed
      BY <1>2, <1>4 DEF Drop, ClosesLast
    <2> QED BY <1>1, <1>2, <1>3, <2>1, Freed
  <1>5. CASE ~ClosesLast(wrappers[w])
    <2>1. table' = table
      BY <1>5 DEF Drop
    <2>2. wrappers[w].closed \/ v.refs > 0
      BY <1>2, <1>5 DEF ClosesLast
    <2>3. wrappers \in Seq(Wrapper(Len(files)))
      BY DEF Inv, TypeOK
    <2>4. /\ wrappers' \in Seq(Wrapper(Len(files))) /\ DOMAIN wrappers' = DOMAIN wrappers
          /\ \A i \in DOMAIN wrappers : wrappers'[i] = IF i = w THEN v ELSE wrappers[i]
      BY <1>2, <1>3, <2>3, Replaced
    <2>5. TypeOK'
      BY <1>3, <2>1, <2>4 DEF Inv, TypeOK
    <2>6. ASSUME NEW x \in Numbers PROVE Responsible(x)' = Responsible(x)
      BY <1>1, <1>2, <2>2, <2>4 DEF Responsible, Alive
    <2>7. \A i \in DOMAIN wrappers : wrappers'[i].file = wrappers[i].file
      BY <1>2, <2>4
    <2>8. OwnsItsFile'
      BY <2>1, <2>6, <2>7 DEF Inv, OwnsItsFile, Responsible
    <2>9. EofMeansDone'
      BY <1>2, <1>3, <2>4 DEF Inv, EofMeansDone
    <2> QED BY <2>5, <2>8, <2>9 DEF Inv
  <1> QED BY <1>4, <1>5

\* A read that returns nothing finds its file done; any other takes bytes of a
\* file that is then not done before.
LEMMA TakenFrom ==
    ASSUME NEW f \in File, NEW bytes_read \in Results(f)
    PROVE  LET g == [f EXCEPT !.arrived = @ - bytes_read]
           IN  /\ g \in File /\ bytes_read \in Nat /\ bytes_read <= f.arrived
               /\ Done(f) => Done(g)
               /\ bytes_read = 0 => Done(g)
               /\ g.arrived = f.arrived - bytes_read
  <1> DEFINE g == [f EXCEPT !.arrived = @ - bytes_read]
  <1>1. f.arrived \in Nat /\ f.ended \in BOOLEAN /\ f.shut \in BOOLEAN
    BY DEF File
  <1>2. Min({f.arrived, kReadBufferSize}) \in {f.arrived, kReadBufferSize}
        /\ Min({f.arrived, kReadBufferSize}) <= f.arrived
    <2> DEFINE both == {f.arrived, kReadBufferSize}
    <2>1. both \in SUBSET Nat /\ both # {} /\ f.arrived \in both
      BY <1>1, ReadBufferAssumption
    <2> HIDE DEF both
    <2>2. \E x \in both : \A y \in both : x <= y
      BY <2>1, LeastNatural
    <2>3. Min(both) \in both /\ \A y \in both : Min(both) <= y
      BY <2>2 DEF Min
    <2> QED BY <2>1, <2>3 DEF both
  <1>3. bytes_read \in Nat /\ bytes_read <= f.arrived /\ (bytes_read = 0 => AtEnd(f))
    BY <1>1, <1>2, ReadBufferAssumption DEF Results, AtEnd
  <1>4. f.arrived - bytes_read \in Nat
    BY <1>1, <1>3
  <1>5. g \in File /\ g.arrived = f.arrived - bytes_read /\ g.ended = f.ended /\ g.shut = f.shut
    BY <1>4 DEF File
  <1>6. (Done(f) => Done(g)) /\ (bytes_read = 0 => Done(g))
    <2> HIDE DEF g
    <2> QED BY <1>1, <1>3, <1>5 DEF Done, AtEnd
  <1> QED BY <1>3, <1>5, <1>6

\* A stream or a listener that may be used is the wrapper's own.
LEMMA Usable ==
    ASSUME Inv, Disciplined, NEW w \in DOMAIN wrappers, MayUse(w)
    PROVE  /\ wrappers[w] \in Wrapper(Len(files)) /\ Alive(w) /\ ~wrappers[w].closed
           /\ Target(w) = wrappers[w].file /\ Target(w) \in DOMAIN files
           /\ files[Target(w)] \in File
  BY Owned DEF MayUse

\* What is left to read stays so, and the flag is set only at the end.
LEMMA ReadBytesInv ==
    ASSUME Inv, Disciplined, NEW w \in DOMAIN wrappers, MayUse(w), NEW bytes_read,
           ReadBytes(w, bytes_read)
    PROVE  Inv'
  <1> DEFINE f == files[Target(w)]
             g == [f EXCEPT !.arrived = @ - bytes_read]
             v == [wrappers[w] EXCEPT !.eof = @ \/ SetsEof(bytes_read)]
  <1>1. /\ wrappers[w] \in Wrapper(Len(files)) /\ Target(w) = wrappers[w].file
        /\ Target(w) \in DOMAIN files /\ f \in File
    BY Usable
  <1>2. g \in File /\ (Done(f) => Done(g)) /\ (bytes_read = 0 => Done(g))
    <2>1. bytes_read \in Results(f)
      BY DEF ReadBytes
    <2> HIDE DEF f
    <2> QED BY <1>1, <2>1, TakenFrom
  <1>3. /\ v \in Wrapper(Len(files)) /\ v.fd = wrappers[w].fd /\ v.file = wrappers[w].file
        /\ v.closed = wrappers[w].closed /\ v.refs = wrappers[w].refs
        /\ v.eof => wrappers[w].eof \/ bytes_read = 0
    BY <1>1 DEF Wrapper, SetsEof
  <1>4. files' = [files EXCEPT ![Target(w)] = g] /\ wrappers' = [wrappers EXCEPT ![w] = v]
        /\ table' = table
    BY DEF ReadBytes
  <1> HIDE DEF f, g, v
  <1> QED BY <1>1, <1>2, <1>3, <1>4, QuietWrapper DEF f

\* The other read sets no flag.
LEMMA ReadVectorInv ==
    ASSUME Inv, Disciplined, NEW w \in DOMAIN wrappers, MayUse(w), NEW bytes_read,
           ReadVectorBytes(w, bytes_read)
    PROVE  Inv'
  <1>1. /\ bytes_read \in Results(files[Target(w)])
        /\ files' = [files EXCEPT ![Target(w)].arrived = @ - bytes_read]
        /\ wrappers' = [wrappers EXCEPT ![w].phantom = @ \/ bytes_read < kReadBufferSize]
        /\ table' = table
    BY DEF ReadVectorBytes
  <1> DEFINE f == files[Target(w)]
             g == [f EXCEPT !.arrived = @ - bytes_read]
             v == [wrappers[w] EXCEPT !.phantom = @ \/ bytes_read < kReadBufferSize]
  <1>2. /\ wrappers[w] \in Wrapper(Len(files)) /\ Target(w) = wrappers[w].file
        /\ Target(w) \in DOMAIN files /\ f \in File
    BY Usable
  <1>3. g \in File /\ (Done(f) => Done(g))
    <2>1. bytes_read \in Results(f)
      BY <1>1
    <2> HIDE DEF f
    <2> QED BY <1>2, <2>1, TakenFrom
  <1>4. /\ v \in Wrapper(Len(files)) /\ v.fd = wrappers[w].fd /\ v.file = wrappers[w].file
        /\ v.closed = wrappers[w].closed /\ v.refs = wrappers[w].refs /\ v.eof = wrappers[w].eof
    <2> DEFINE less == bytes_read < kReadBufferSize
    <2>1. wrappers[w].phantom \/ less \in BOOLEAN
      BY <1>2 DEF Wrapper
    <2> HIDE DEF less
    <2> QED BY <1>2, <2>1 DEF Wrapper
  <1>5. files' = [files EXCEPT ![Target(w)] = g] /\ wrappers' = [wrappers EXCEPT ![w] = v]
        /\ table' = table
    BY <1>1
  <1> HIDE DEF f, g, v
  <1> QED BY <1>2, <1>3, <1>4, <1>5, QuietWrapper DEF f

\* Only the wrapper changes, and of it neither the number nor the flags that
\* matter.
LEMMA WrapperInv ==
    ASSUME Inv, Disciplined, NEW w \in DOMAIN wrappers, MayUse(w),
           \/ Duplicate(w) \/ ReadAgain(w)
           \/ \E blocking \in BOOLEAN : SetBlocking(w, blocking)
    PROVE  Inv'
  <1>1. /\ wrappers[w] \in Wrapper(Len(files)) /\ Target(w) = wrappers[w].file
        /\ Target(w) \in DOMAIN files /\ files[Target(w)] \in File /\ Alive(w)
    BY Usable
  <1>2. ASSUME NEW v \in Wrapper(Len(files)), wrappers' = [wrappers EXCEPT ![w] = v],
               v.fd = wrappers[w].fd, v.file = wrappers[w].file, v.closed = wrappers[w].closed,
               v.refs > 0, v.eof = wrappers[w].eof, UNCHANGED kernel
        PROVE  Inv'
    <2> DEFINE g == files[Target(w)]
    <2>1. files' = [files EXCEPT ![wrappers[w].file] = g] /\ table' = table
      BY <1>1, <1>2 DEF kernel, Inv, TypeOK
    <2>2. wrappers[w].refs > 0
      BY <1>1 DEF Alive
    <2> HIDE DEF g
    <2> QED BY <1>1, <1>2, <2>1, <2>2, QuietWrapper DEF g
  <1>3. CASE Duplicate(w)
    <2> DEFINE v == [wrappers[w] EXCEPT !.refs = @ + 1]
    <2>1. wrappers' = [wrappers EXCEPT ![w] = v] /\ UNCHANGED kernel
      BY <1>3 DEF Duplicate
    <2>2. /\ v \in Wrapper(Len(files)) /\ v.fd = wrappers[w].fd /\ v.file = wrappers[w].file
          /\ v.closed = wrappers[w].closed /\ v.refs > 0 /\ v.eof = wrappers[w].eof
      BY <1>1 DEF Wrapper
    <2> HIDE DEF v
    <2> QED BY <1>2, <2>1, <2>2
  <1>4. CASE ReadAgain(w)
    <2> DEFINE v == [wrappers[w] EXCEPT !.phantom = TRUE]
    <2>1. wrappers' = [wrappers EXCEPT ![w] = v] /\ UNCHANGED kernel
      BY <1>4 DEF ReadAgain
    <2>2. /\ v \in Wrapper(Len(files)) /\ v.fd = wrappers[w].fd /\ v.file = wrappers[w].file
          /\ v.closed = wrappers[w].closed /\ v.refs > 0 /\ v.eof = wrappers[w].eof
      BY <1>1 DEF Wrapper, Alive
    <2> HIDE DEF v
    <2> QED BY <1>2, <2>1, <2>2
  <1>5. ASSUME NEW blocking \in BOOLEAN, SetBlocking(w, blocking) PROVE Inv'
    <2> DEFINE f == files[Target(w)]
               g == [f EXCEPT !.non_blocking = ~blocking]
               v == [wrappers[w] EXCEPT !.non_blocking = ~blocking]
    <2>1. files' = [files EXCEPT ![Target(w)] = g] /\ wrappers' = [wrappers EXCEPT ![w] = v]
          /\ table' = table
      BY <1>5 DEF SetBlocking
    <2>2. g \in File /\ (Done(f) => Done(g))
      BY <1>1 DEF File, Done
    <2>3. /\ v \in Wrapper(Len(files)) /\ v.fd = wrappers[w].fd /\ v.file = wrappers[w].file
          /\ v.closed = wrappers[w].closed /\ v.refs = wrappers[w].refs /\ v.eof = wrappers[w].eof
      BY <1>1 DEF Wrapper
    <2> HIDE DEF f, g, v
    <2> QED BY <1>1, <2>1, <2>2, <2>3, QuietWrapper DEF f
  <1> QED BY <1>3, <1>4, <1>5

\* Only a file changes, and what was done stays done.
LEMMA FileInv ==
    ASSUME Inv, Disciplined,
           \/ \E w \in DOMAIN wrappers :
                \/ Shutdown(w) \/ AcceptSome(w)
                \/ MayUse(w) /\ WriteBytes(w, RequestLen)
           \/ \E file \in DOMAIN files : PeerSends(file) \/ PeerEnds(file)
    PROVE  Inv'
  <1>1. \A i \in DOMAIN files : files[i] \in File
    BY DEF Inv, TypeOK
  <1>2. ASSUME NEW k \in DOMAIN files, NEW g \in File, files' = [files EXCEPT ![k] = g],
               Done(files[k]) => Done(g), table' = table, wrappers' = wrappers
        PROVE  Inv'
    BY <1>2, QuietFile
  <1>3. ASSUME NEW w \in DOMAIN wrappers, Shutdown(w) PROVE Inv'
    <2> DEFINE f == files[Target(w)]
               g == [f EXCEPT !.shut = TRUE]
    <2>1. f \in File /\ Target(w) \in DOMAIN files
      BY <1>3, Usable DEF Shutdown
    <2>2. g \in File /\ (Done(f) => Done(g))
      BY <2>1 DEF File, Done
    <2>3. files' = [files EXCEPT ![Target(w)] = g] /\ table' = table /\ wrappers' = wrappers
      BY <1>3 DEF Shutdown
    <2> HIDE DEF g
    <2> QED BY <1>2, <2>1, <2>2, <2>3
  <1>4. ASSUME NEW w \in DOMAIN wrappers, AcceptSome(w) PROVE Inv'
    <2> DEFINE f == files[Target(w)]
               g == [f EXCEPT !.arrived = @ - 1]
    <2>1. f \in File /\ Target(w) \in DOMAIN files /\ f.arrived > 0
      BY <1>4, Usable DEF AcceptSome
    <2>2. g \in File /\ (Done(f) => Done(g))
      <3> HIDE DEF f
      <3> QED BY <2>1 DEF File, Done
    <2>3. files' = [files EXCEPT ![Target(w)] = g] /\ table' = table /\ wrappers' = wrappers
      BY <1>4 DEF AcceptSome
    <2> HIDE DEF g
    <2> QED BY <1>2, <2>1, <2>2, <2>3
  <1>5. ASSUME NEW w \in DOMAIN wrappers, WriteBytes(w, RequestLen), MayUse(w) PROVE Inv'
    <2>1. PICK bytes_written \in IF ShortWrites THEN 1..RequestLen ELSE {RequestLen} :
            files' = [files EXCEPT ![Target(w)].taken = @ + bytes_written]
            /\ table' = table /\ wrappers' = wrappers
      BY <1>5 DEF WriteBytes
    <2> DEFINE f == files[Target(w)]
               g == [f EXCEPT !.taken = @ + bytes_written]
    <2>2. f \in File /\ Target(w) \in DOMAIN files /\ bytes_written \in Nat
      BY <1>5, Usable, RequestAssumption
    <2>3. g \in File /\ (Done(f) => Done(g))
      <3> HIDE DEF f
      <3> QED BY <2>2 DEF File, Done
    <2>4. files' = [files EXCEPT ![Target(w)] = g]
      BY <2>1
    <2> HIDE DEF g
    <2> QED BY <1>2, <2>1, <2>2, <2>3, <2>4
  <1>6. ASSUME NEW k \in DOMAIN files, PeerSends(k) PROVE Inv'
    <2> DEFINE f == files[k]
               g == [f EXCEPT !.sent = @ + 1, !.arrived = @ + 1]
    <2>1. files' = [files EXCEPT ![k] = g] /\ table' = table /\ wrappers' = wrappers
      BY <1>6 DEF PeerSends
    <2>2. f \in File /\ ~f.ended
      BY <1>1, <1>6 DEF PeerSends
    <2>3. g \in File /\ (Done(f) => Done(g))
      <3> HIDE DEF f
      <3>1. f.sent + 1 \in Nat /\ f.arrived + 1 \in Nat
        BY <2>2 DEF File
      <3>2. g \in File /\ g.shut = f.shut
        BY <2>2, <3>1 DEF File
      <3> QED BY <2>2, <3>2 DEF Done
    <2> HIDE DEF g
    <2> QED BY <1>2, <2>1, <2>2, <2>3
  <1>7. ASSUME NEW k \in DOMAIN files, PeerEnds(k) PROVE Inv'
    <2> DEFINE g == [files[k] EXCEPT !.ended = TRUE]
    <2>1. files' = [files EXCEPT ![k] = g] /\ table' = table /\ wrappers' = wrappers
      BY <1>7 DEF PeerEnds
    <2>2. g \in File /\ (Done(files[k]) => Done(g))
      BY <1>1 DEF File, Done
    <2> HIDE DEF g
    <2> QED BY <1>2, <2>1, <2>2
  <1> QED BY <1>3, <1>4, <1>5, <1>6, <1>7

\* Whatever another program does with its descriptors keeps the invariant.
LEMMA OtherInv == ASSUME Inv, Disciplined, Next PROVE Inv'
  <1>1. ASSUME NEW file \in {table[m] : m \in Numbers} \ {Free, Stdin},
               PeerSends(file) \/ PeerEnds(file)
        PROVE  Inv'
    <2>1. file \in DOMAIN files
      BY DEF Inv, TypeOK, Free
    <2> QED BY <1>1, <2>1, FileInv
  <1>2. ASSUME NEW w \in DOMAIN wrappers, Read(w) \/ ReadVector(w) PROVE Inv'
    BY <1>2, ReadBytesInv, ReadVectorInv, WrapperInv DEF Read, ReadVector
  <1>3. ASSUME NEW w \in DOMAIN wrappers,
               Duplicate(w) \/ \E blocking \in BOOLEAN : SetBlocking(w, blocking)
        PROVE  Inv'
    <2>1. MayUse(w)
      BY <1>3 DEF Duplicate, SetBlocking
    <2> QED BY <1>3, <2>1, WrapperInv
  <1> QED BY <1>1, <1>2, <1>3, OpenInv, CloseInv, DropInv, FileInv DEF Next

\* What WebgetInv says of webget makes its descriptor usable.
LEMMA RunningFacts ==
    ASSUME Inv, Running
    PROVE  /\ 1 \in DOMAIN wrappers /\ MayUse(1) /\ Alive(1) /\ wrappers[1].file = 2
           /\ Target(1) = 2 /\ 2 \in DOMAIN files /\ files[2] \in File
           /\ wrappers[1] \in Wrapper(2) /\ ClosesLast(wrappers[1])
           /\ DOMAIN wrappers = {1} /\ DOMAIN files = {1, 2}
  <1>1. files \in Seq(File) /\ wrappers \in Seq(Wrapper(2)) /\ Len(files) = 2 /\ Len(wrappers) = 1
    BY DEF Inv, TypeOK, Running
  <1>2. DOMAIN wrappers = {1} /\ DOMAIN files = {1, 2}
    BY <1>1
  <1>3. Alive(1) /\ ~wrappers[1].closed /\ MayUse(1) /\ ClosesLast(wrappers[1])
    BY <1>2 DEF Running, Alive, MayUse, ClosesLast
  <1> QED BY <1>1, <1>2, <1>3, Owned DEF Running

\* When its only handle is destroyed, webget has no descriptor left.
LEMMA ExitInv ==
    ASSUME Inv, Running, Drop(Sock)
    PROVE  files' = files /\ wrappers'[1].file = 2 /\ \A m \in Numbers \ {0} : table'[m] = Free
  <1>1. ClosesLast(wrappers[1]) /\ 1 \in DOMAIN wrappers /\ wrappers[1].file = 2
    BY RunningFacts
  <1>2. table' = [table EXCEPT ![wrappers[1].fd] = Free] /\ files' = files
        /\ wrappers' = [wrappers EXCEPT ![1].refs = @ - 1]
    BY <1>1 DEF Drop, Sock
  <1>3. wrappers'[1].file = 2
    <2> DEFINE v == [wrappers[1] EXCEPT !.refs = @ - 1]
    <2>1. v.file = 2
      BY <1>1, RunningFacts DEF Wrapper
    <2>2. wrappers' = [wrappers EXCEPT ![1] = v]
      BY <1>2
    <2> HIDE DEF v
    <2> QED BY <1>1, <2>1, <2>2
  <1>4. table \in [Numbers -> 0..Len(files)]
    BY DEF Inv, TypeOK
  <1> QED BY <1>2, <1>3, <1>4 DEF Running

\* A read moves bytes from the file to what is printed.
LEMMA ReadResponseInv ==
    ASSUME Inv, WebgetInv, Disciplined, ReadResponse PROVE Inv' /\ WebgetInv'
  <1>1. Running /\ pc = "loop" /\ pc' = "loop" /\ printed \in Nat
    BY DEF ReadResponse, WebgetInv
  <1>2. PICK bytes_read \in 0..kReadBufferSize :
          ReadBytes(1, bytes_read) /\ printed' = printed + bytes_read
    BY DEF ReadResponse, Sock
  <1>3. /\ 1 \in DOMAIN wrappers /\ MayUse(1) /\ Target(1) = 2 /\ 2 \in DOMAIN files
        /\ files[2] \in File /\ DOMAIN files = {1, 2}
    BY <1>1, RunningFacts
  <1>4. Inv'
    BY <1>2, <1>3, ReadBytesInv
  <1> DEFINE f == files[2]
             g == [f EXCEPT !.arrived = @ - bytes_read]
             v == [wrappers[1] EXCEPT !.eof = @ \/ SetsEof(bytes_read)]
  <1>5. files' = [files EXCEPT ![2] = g] /\ wrappers' = [wrappers EXCEPT ![1] = v]
        /\ table' = table
    BY <1>2, <1>3 DEF ReadBytes
  <1>6. /\ g.arrived = f.arrived - bytes_read /\ bytes_read \in Nat /\ f.arrived \in Nat
        /\ g.sent = f.sent /\ g.ended = f.ended /\ g.shut = f.shut /\ g.kind = f.kind
        /\ f.sent \in Nat
    BY <1>3 DEF File
  <1>7. v.file = wrappers[1].file /\ v.closed = wrappers[1].closed /\ v.refs = wrappers[1].refs
        /\ v.fd = wrappers[1].fd
    BY <1>1, RunningFacts DEF Wrapper
  <1> HIDE DEF g, v
  <1>8. Len(files') = 2 /\ Len(wrappers') = 1 /\ files'[2] = g /\ wrappers'[1] = v
    BY <1>1, <1>3, <1>5 DEF Running, Inv, TypeOK
  <1>9. printed' + g.arrived = f.sent /\ printed' \in Nat
    BY <1>1, <1>2, <1>6 DEF Running
  <1>10. Running'
    BY <1>1, <1>5, <1>6, <1>7, <1>8, <1>9 DEF Running
  <1>11. SuccessIsComplete'
    BY <1>1 DEF SuccessIsComplete, Exited
  <1> QED BY <1>1, <1>4, <1>9, <1>10, <1>11 DEF WebgetInv

\* The server sends while it may, and ends when it has sent everything.
LEMMA ServerInv ==
    ASSUME Inv, WebgetInv, Disciplined, ServerSends \/ ServerEnds PROVE Inv' /\ WebgetInv'
  <1>1. Running /\ pc = "loop" /\ pc' = "loop" /\ printed \in Nat /\ printed' = printed
    BY DEF ServerSends, ServerEnds, Answers, WebgetInv
  <1>2. /\ wrappers[1].file = 2 /\ 2 \in DOMAIN files /\ files[2] \in File /\ Conn = 2
        /\ DOMAIN files = {1, 2}
    BY <1>1, RunningFacts DEF Conn, Sock
  <1> DEFINE f == files[2]
  <1>3. SuccessIsComplete'
    BY <1>1 DEF SuccessIsComplete, Exited
  <1>4. ASSUME NEW g \in File, files' = [files EXCEPT ![2] = g], table' = table,
               wrappers' = wrappers, g.sent - g.arrived = f.sent - f.arrived,
               g.shut = f.shut, g.kind = f.kind, g.ended => g.sent = MaxSent
        PROVE  WebgetInv'
    <2>1. Len(files') = 2 /\ files'[2] = g
      BY <1>1, <1>2, <1>4 DEF Running, Inv, TypeOK
    <2>2. f.sent \in Nat /\ f.arrived \in Nat /\ g.sent \in Nat /\ g.arrived \in Nat
      BY <1>2, <1>4 DEF File
    <2>3. printed' + g.arrived = g.sent
      BY <1>1, <1>4, <2>2 DEF Running
    <2>4. Running'
      BY <1>1, <1>4, <2>1, <2>3 DEF Running
    <2> QED BY <1>1, <1>3, <2>4 DEF WebgetInv
  <1>5. CASE ServerSends
    <2> DEFINE g == [f EXCEPT !.sent = @ + 1, !.arrived = @ + 1]
    <2>1. PeerSends(2)
      BY <1>2, <1>5 DEF ServerSends
    <2>2. Inv'
      BY <1>2, <2>1, FileInv
    <2>3. files' = [files EXCEPT ![2] = g] /\ table' = table /\ wrappers' = wrappers /\ ~f.ended
      BY <2>1 DEF PeerSends
    <2>4. /\ g \in File /\ g.sent - g.arrived = f.sent - f.arrived
          /\ g.shut = f.shut /\ g.kind = f.kind /\ ~g.ended
      <3> HIDE DEF f
      <3>1. f.sent + 1 \in Nat /\ f.arrived + 1 \in Nat /\ f.sent \in Nat /\ f.arrived \in Nat
        BY <1>2 DEF File, f
      <3>2. g \in File /\ g.sent = f.sent + 1 /\ g.arrived = f.arrived + 1
            /\ g.shut = f.shut /\ g.kind = f.kind /\ g.ended = f.ended
        BY <1>2, <3>1 DEF File, f
      <3> HIDE DEF g
      <3> QED BY <2>3, <3>1, <3>2
    <2> HIDE DEF g
    <2> QED BY <1>4, <2>2, <2>3, <2>4
  <1>6. CASE ServerEnds
    <2> DEFINE g == [f EXCEPT !.ended = TRUE]
    <2>1. PeerEnds(2) /\ f.sent = MaxSent
      BY <1>2, <1>6 DEF ServerEnds
    <2>2. Inv'
      BY <1>2, <2>1, FileInv
    <2>3. files' = [files EXCEPT ![2] = g] /\ table' = table /\ wrappers' = wrappers
      BY <2>1 DEF PeerEnds
    <2>4. /\ g \in File /\ g.sent = f.sent /\ g.arrived = f.arrived
          /\ g.shut = f.shut /\ g.kind = f.kind
      BY <1>2 DEF File
    <2> HIDE DEF g
    <2> QED BY <1>4, <2>1, <2>2, <2>3, <2>4
  <1> QED BY <1>5, <1>6

\* Each step of webget and of its server keeps what is known of both.
LEMMA WebgetStep ==
    ASSUME Inv, WebgetInv, Disciplined, WebgetNext PROVE Inv' /\ WebgetInv'
  <1>1. CASE GetSocket
    <2>1. Open("stream") /\ pc = "socket" /\ pc' = "connect" /\ printed' = printed /\ printed = 0
      BY <1>1 DEF GetSocket, WebgetInv
    <2>2. /\ Len(wrappers) = 0 /\ Len(files) = 1
          /\ table \in [Numbers -> 0..Len(files)] /\ \A m \in Numbers \ {0} : table[m] = Free
      BY <2>1 DEF WebgetInv, Inv, TypeOK
    <2>3. Inv' /\ Len(files') = 2 /\ files'[2] = NewFile("stream") /\ Len(wrappers') = 1
      <3>1. /\ Inv' /\ Len(files') = Len(files) + 1 /\ files'[Len(files')] = NewFile("stream")
            /\ Len(wrappers') = Len(wrappers) + 1
        BY <2>1, OpenInv
      <3> QED BY <2>2, <3>1
    <2>4. /\ wrappers'[1].file = 2 /\ ~wrappers'[1].closed /\ wrappers'[1].refs = 1
          /\ table' = [table EXCEPT ![wrappers'[1].fd] = 2]
      BY <2>1, <2>3, OpenInv
    <2>5. Running'
      BY <2>1, <2>2, <2>3, <2>4 DEF Running, NewFile
    <2>6. SuccessIsComplete'
      BY <2>1 DEF SuccessIsComplete, Exited
    <2> QED BY <2>1, <2>3, <2>5, <2>6 DEF WebgetInv
  <1>2. CASE Connect
    <2>1. UNCHANGED <<files, table, wrappers, printed>> /\ pc = "connect" /\ pc' = "write"
      BY <1>2 DEF Connect
    <2>2. Inv'
      BY <2>1 DEF Inv, TypeOK, OwnsItsFile, EofMeansDone, Responsible, Alive
    <2>3. Running' /\ SuccessIsComplete'
      BY <2>1 DEF WebgetInv, Running, SuccessIsComplete, Exited
    <2> QED BY <2>1, <2>2, <2>3 DEF WebgetInv
  <1>3. CASE WriteRequest
    <2>1. WriteBytes(1, RequestLen) /\ pc = "write" /\ pc' = "loop" /\ printed' = printed /\ Running
      BY <1>3 DEF WriteRequest, Sock, WebgetInv
    <2>2. /\ 1 \in DOMAIN wrappers /\ MayUse(1) /\ Target(1) = 2 /\ 2 \in DOMAIN files
          /\ files[2] \in File
      BY <2>1, RunningFacts
    <2>3. Inv'
      BY <2>1, <2>2, FileInv
    <2>4. PICK bytes_written :
            /\ files' = [files EXCEPT ![2].taken = @ + bytes_written]
            /\ table' = table /\ wrappers' = wrappers
      BY <2>1, <2>2 DEF WriteBytes
    <2>5. Len(files') = 2 /\ files'[2] = [files[2] EXCEPT !.taken = @ + bytes_written]
      BY <2>1, <2>2, <2>4 DEF Running, Inv, TypeOK
    <2>6. /\ files'[2].arrived = files[2].arrived /\ files'[2].sent = files[2].sent
          /\ files'[2].ended = files[2].ended /\ files'[2].shut = files[2].shut
          /\ files'[2].kind = files[2].kind
      BY <2>2, <2>5 DEF File
    <2>7. Running'
      BY <2>1, <2>4, <2>5, <2>6 DEF Running
    <2>8. SuccessIsComplete'
      BY <2>1 DEF SuccessIsComplete, Exited
    <2> QED BY <2>1, <2>3, <2>7, <2>8 DEF WebgetInv
  <1>4. CASE Finish
    <2>1. Drop(Sock) /\ pc = "loop" /\ pc' = "success" /\ printed' = printed /\ Running
          /\ wrappers[1].eof
      BY <1>4 DEF Finish, WebgetInv, Sock
    <2>2. 1 \in DOMAIN wrappers /\ wrappers[1].file = 2 /\ files[2] \in File
      BY <2>1, RunningFacts
    <2>3. Inv'
      BY <2>1, <2>2, DropInv DEF Sock
    <2>4. files' = files /\ wrappers'[1].file = 2 /\ \A m \in Numbers \ {0} : table'[m] = Free
      BY <2>1, ExitInv
    <2>5. files[2].ended /\ files[2].arrived = 0 /\ files[2].sent = MaxSent
      BY <2>1, <2>2 DEF Inv, EofMeansDone, Done, Running
    <2>6. files[2].arrived \in Nat /\ printed \in Nat
      BY <2>2 DEF File, WebgetInv
    <2>7. SuccessIsComplete'
      BY <2>1, <2>4, <2>5, <2>6 DEF SuccessIsComplete, Exited, Conn, Sock, Running
    <2> QED BY <2>1, <2>3, <2>7 DEF WebgetInv
  <1>5. CASE FailEarly
    <2>1. UNCHANGED <<files, table, wrappers, printed>> /\ pc = "socket" /\ pc' = "failure"
      BY <1>5 DEF FailEarly
    <2>2. Inv'
      BY <2>1 DEF Inv, TypeOK, OwnsItsFile, EofMeansDone, Responsible, Alive
    <2>3. SuccessIsComplete'
      BY <2>1 DEF WebgetInv, SuccessIsComplete, Exited
    <2> QED BY <2>1, <2>2, <2>3 DEF WebgetInv
  <1>6. CASE Fail
    <2>1. Drop(Sock) /\ pc' = "failure" /\ printed' = printed /\ Running
      BY <1>6 DEF Fail, WebgetInv
    <2>2. 1 \in DOMAIN wrappers
      BY <2>1, RunningFacts
    <2>3. Inv'
      BY <2>1, <2>2, DropInv DEF Sock
    <2>4. SuccessIsComplete'
      BY <2>1, ExitInv DEF SuccessIsComplete, Exited
    <2> QED BY <2>1, <2>3, <2>4 DEF WebgetInv
  <1>7. CASE OtherProgram
    <2>1. Next /\ pc = "other program" /\ pc' = pc /\ printed' = printed
      BY <1>7 DEF OtherProgram
    <2>2. SuccessIsComplete'
      BY <2>1 DEF SuccessIsComplete, Exited
    <2> QED BY <2>1, <2>2, OtherInv DEF WebgetInv
  <1> QED BY <1>1, <1>2, <1>3, <1>4, <1>5, <1>6, <1>7, ReadResponseInv, ServerInv
          DEF WebgetNext, Program

\* Both invariants hold in every state, if the owner of a descriptor leaves it
\* alone once it is closed.
LEMMA Invariance == ASSUME Disciplined PROVE Spec => [](Inv /\ WebgetInv)
  <1>1. WebgetInit => Inv /\ WebgetInv
    <2> SUFFICES ASSUME WebgetInit PROVE Inv /\ WebgetInv
      OBVIOUS
    <2>1. /\ files = <<NewFile("terminal")>> /\ wrappers = <<>> /\ printed = 0
          /\ table = [m \in Numbers |-> IF m = 0 THEN Stdin ELSE Free]
          /\ pc \in {"socket", "other program"}
      BY DEF WebgetInit, Init
    <2>2. NewFile("terminal") \in File
      BY DEF NewFile, File
    <2>3. files \in Seq(File) /\ Len(files) = 1 /\ DOMAIN wrappers = {} /\ Len(wrappers) = 0
      <3> DEFINE terminal == NewFile("terminal")
      <3>1. files = <<terminal>> /\ terminal \in File
        BY <2>1, <2>2
      <3> HIDE DEF terminal
      <3>2. files \in Seq(File) /\ Len(files) = 1
        BY <3>1
      <3>3. DOMAIN <<>> = {} /\ Len(<<>>) = 0
        OBVIOUS
      <3> QED BY <2>1, <3>2, <3>3
    <2>4. TypeOK
      <3>1. wrappers \in Seq(Wrapper(Len(files)))
        <4> DEFINE W == Wrapper(Len(files))
        <4>1. <<>> \in Seq(W)
          <5> HIDE DEF W
          <5> QED OBVIOUS
        <4>2. wrappers = <<>>
          BY <2>1
        <4> QED BY <4>1, <4>2
      <3>2. table \in [Numbers -> 0..1]
        <4>1. \A m \in Numbers : (IF m = 0 THEN Stdin ELSE Free) \in 0..1
          BY DEF Stdin, Free
        <4>2. table = [m \in Numbers |-> IF m = 0 THEN Stdin ELSE Free]
          BY <2>1
        <4> QED BY <4>1, <4>2
      <3> QED BY <2>3, <3>1, <3>2 DEF TypeOK
    <2>5. OwnsItsFile
      BY <2>1, <2>3, NumbersAssumption DEF OwnsItsFile, Responsible, Stdin, Free
    <2>6. EofMeansDone
      BY <2>3 DEF EofMeansDone
    <2>7. SuccessIsComplete
      BY <2>1 DEF SuccessIsComplete, Exited
    <2>8. \A m \in Numbers \ {0} : table[m] = Free
      BY <2>1
    <2> QED BY <2>1, <2>3, <2>4, <2>5, <2>6, <2>7, <2>8 DEF Inv, WebgetInv
  <1>2. Inv /\ WebgetInv /\ [WebgetNext]_vars => Inv' /\ WebgetInv'
    <2>1. ASSUME Inv, WebgetInv, UNCHANGED vars PROVE Inv' /\ WebgetInv'
      <3>1. UNCHANGED <<files, table, wrappers, pc, printed>>
        BY <2>1 DEF vars
      <3>2. Inv'
        BY <2>1, <3>1 DEF Inv, TypeOK, OwnsItsFile, EofMeansDone, Responsible, Alive
      <3>3. WebgetInv'
        BY <2>1, <3>1 DEF WebgetInv, Running, SuccessIsComplete, Exited, Conn, Sock
      <3> QED BY <3>2, <3>3
    <2> QED BY <2>1, WebgetStep
  <1> QED BY <1>1, <1>2, PTL DEF Spec

\* Each open file has one wrapper that is responsible for it, in whichever
\* order handles are copied, closed and destroyed and numbers given out again
\* (file_descriptor.cc:50-67).
THEOREM DescriptorsAreOwned == ASSUME Disciplined PROVE Spec => []OwnsItsFile
  <1>1. Inv => OwnsItsFile
    BY DEF Inv
  <1> QED BY <1>1, Invariance, PTL

\* The eof flag of a descriptor that is not closed tells the truth, whichever
\* handle reads and whatever arrives between the reads
\* (file_descriptor.cc:98).
THEOREM EofIsTrue == ASSUME Disciplined PROVE Spec => []EofIsExact
  <1>1. Inv => EofIsExact
    BY DEF Inv, EofMeansDone, EofIsExact, Done
  <1> QED BY <1>1, Invariance, PTL

\* If webget exits with success it has printed the whole response, whatever
\* its length and however it was cut, and it leaves no descriptor open.
THEOREM WholeResponse == ASSUME Disciplined PROVE Spec => []SuccessIsComplete
  <1>1. WebgetInv => SuccessIsComplete
    BY DEF WebgetInv
  <1> QED BY <1>1, Invariance, PTL

=============================================================================

--------------------------- MODULE HypermemoryProofs ---------------------------
(***************************************************************************)
(* Proofs about the commands, the index and the vectors of Hypermemory,    *)
(* for every set of texts, keys, notes and captures.                       *)
(***************************************************************************)
EXTENDS Hypermemory, SequenceTheorems, NaturalsInduction, WellFoundedInduction, TLAPS

Row == [file : ToSet(Files), pos : Nat, line : Line]

Ats   == {"rest", "flush", "rebuild", "sync", "slot", "append", "capture",
          "forget", "reflect", "search"}
Thens == {"rest", "stored", "slot", "search", "forget", "superseded",
          "forgotten", "updated", "reflected"}

\* todo and stale are sets of whatever the command walks through.
CmdTyped ==
  cmd \in [at : Ats, then : Thens, text : Texts \cup {NoText}, more : Seq(Texts),
           todo : {cmd.todo}, stale : {cmd.stale}]

Types ==
  /\ file \in [ToSet(Files) -> Seq(Line)] /\ indexed \in [ToSet(Files) -> Seq(Line)]
  /\ rows \in Seq(Row)
  /\ told \in [Keys -> Texts \cup {NoText}]
  /\ recalled \subseteq Nat \ {0}
  /\ disturbed \in BOOLEAN

\* What a command carries from step to step.
Control ==
  /\ cmd.at \in {"slot", "append"} \/ cmd.then \in {"stored", "slot"} => cmd.text \in Texts
  /\ cmd.at = "append" => cmd.then = "superseded"
  /\ cmd.at \in {"rest", "slot", "capture", "forget", "reflect", "search"} => cmd.then = "rest"
  /\ cmd.at = "capture" => cmd.more # <<>>

\* The notes a reflection has still to promote are there.
NotesRemain == cmd.at = "reflect" => cmd.todo \subseteq DOMAIN file["daily"]

\* Every row points into a file as it was indexed, and no two at the same line.
RowsNumbered ==
  /\ \A i \in DOMAIN rows : rows[i].pos \in DOMAIN indexed[rows[i].file]
  /\ \A i, j \in DOMAIN rows : rows[i].file = rows[j].file /\ rows[i].pos = rows[j].pos => i = j

\* A command that is about to remove a line by its number has just reindexed,
\* and since then the files can only have grown.
LinesRemain ==
  cmd.at \in {"sync", "forget"} => \A f \in ToSet(Files) : Len(indexed[f]) <= Len(file[f])

\* A rebuild empties vector_items; only a sync that succeeds fills it again.
VectorsOfRows ==
  /\ DOMAIN vectors \in {DOMAIN rows, {}}
  /\ cmd.at = "sync" => DOMAIN vectors = {}

BaseInv ==
  CmdTyped /\ Types /\ Control /\ NotesRemain /\ RowsNumbered /\ LinesRemain /\ VectorsOfRows

-------------------------------------------------------------------------------
(* What the operators of the model return.                                  *)

LEMMA MadeSeq ==
  ASSUME NEW S, NEW n \in Nat, NEW s, s = [i \in 1..n |-> s[i]], \A i \in 1..n : s[i] \in S
  PROVE  s \in Seq(S) /\ Len(s) = n /\ DOMAIN s = 1..n
<1>1. s \in [1..n -> S]
  OBVIOUS
<1>2. s \in Seq(S)
  BY <1>1
<1>3. DOMAIN s = 1..n
  BY <1>1
<1>4. QED
  BY <1>2, <1>3, LenProperties

LEMMA TwoFiles ==
  /\ ToSet(Files) = {"daily", "bank"}
  /\ Files[1] = "daily" /\ Files[2] = "bank"
<1>1. Files = <<"daily", "bank">>
  BY DEF Files
<1>2. DOMAIN Files = {1, 2}
  BY <1>1
<1>3. QED
  BY <1>1, <1>2 DEF ToSet

LEMMA KeyTyped ==
  ASSUME NEW t \in Texts
  PROVE  /\ KeyOf[t] \in Keys \cup {NoKey}
         /\ KeyOf[t] # NoKey => KeyOf[t] \in Keys
         /\ NoKey \notin Keys
BY DEF Keys

LEMMA FreshTyped ==
  ASSUME NEW t \in Texts, NEW k \in Keys \cup {NoKey}
  PROVE  Fresh(t, k) \in Line
<1>1. 0 \in 0..MaxHits
  BY HypermemoryAssumption
<1>2. QED
  BY <1>1 DEF Fresh, Line

\* Rebuilding numbers the rows through: those of the daily log, then the bank's.
LEMMA RowsOfFiles ==
  ASSUME NEW fs \in [ToSet(Files) -> Seq(Line)]
  PROVE  /\ AllRows(fs) \in Seq(Row)
         /\ Len(AllRows(fs)) = Len(fs["daily"]) + Len(fs["bank"])
         /\ \A i \in DOMAIN AllRows(fs) :
              AllRows(fs)[i] =
                IF i <= Len(fs["daily"])
                THEN [file |-> "daily", pos |-> i, line |-> fs["daily"][i]]
                ELSE [file |-> "bank", pos |-> i - Len(fs["daily"]),
                      line |-> fs["bank"][i - Len(fs["daily"])]]
<1>1. ASSUME NEW f \in ToSet(Files)
      PROVE  RowsOf(f, fs) \in Seq(Row) /\ Len(RowsOf(f, fs)) = Len(fs[f])
  <2>1. fs[f] \in Seq(Line) /\ DOMAIN fs[f] = 1..Len(fs[f]) /\ Len(fs[f]) \in Nat
    BY LenProperties
  <2>2. \A i \in 1..Len(fs[f]) : [file |-> f, pos |-> i, line |-> fs[f][i]] \in Row
    BY <2>1, ElementOfSeq DEF Row
  <2>3. QED
    BY <2>1, <2>2 DEF RowsOf
<1>2. AllRows(fs) = RowsOf("daily", fs) \o RowsOf("bank", fs)
  BY TwoFiles DEF AllRows
<1>3. fs["daily"] \in Seq(Line) /\ fs["bank"] \in Seq(Line)
  BY TwoFiles
<1> DEFINE daily == RowsOf("daily", fs)
           bank  == RowsOf("bank", fs)
<1>8. daily \in Seq(Row) /\ bank \in Seq(Row)
      /\ Len(daily) = Len(fs["daily"]) /\ Len(bank) = Len(fs["bank"])
  BY <1>1, TwoFiles
<1>4. /\ AllRows(fs) \in Seq(Row)
      /\ Len(AllRows(fs)) = Len(fs["daily"]) + Len(fs["bank"])
      /\ \A i \in 1 .. Len(fs["daily"]) + Len(fs["bank"]) :
           AllRows(fs)[i] = IF i <= Len(fs["daily"]) THEN RowsOf("daily", fs)[i]
                            ELSE RowsOf("bank", fs)[i - Len(fs["daily"])]
  <2> HIDE DEF daily, bank
  <2>1. /\ daily \o bank \in Seq(Row)
        /\ Len(daily \o bank) = Len(daily) + Len(bank)
        /\ \A i \in 1 .. Len(daily) + Len(bank) :
             (daily \o bank)[i] = IF i <= Len(daily) THEN daily[i] ELSE bank[i - Len(daily)]
    BY <1>8, ConcatProperties
  <2>2. QED
    BY <2>1, <1>2, <1>8 DEF daily, bank
<1>5. ASSUME NEW i \in DOMAIN AllRows(fs)
      PROVE  i \in 1 .. Len(fs["daily"]) + Len(fs["bank"])
  BY <1>4, LenProperties
<1>6. \A f \in ToSet(Files) : \A i \in 1..Len(fs[f]) :
        RowsOf(f, fs)[i] = [file |-> f, pos |-> i, line |-> fs[f][i]]
  BY LenProperties DEF RowsOf
<1>7. Len(fs["daily"]) \in Nat /\ Len(fs["bank"]) \in Nat
  BY <1>3, LenProperties
<1>9. ASSUME NEW i \in 1 .. Len(fs["daily"]) + Len(fs["bank"])
      PROVE  AllRows(fs)[i] =
               IF i <= Len(fs["daily"])
               THEN [file |-> "daily", pos |-> i, line |-> fs["daily"][i]]
               ELSE [file |-> "bank", pos |-> i - Len(fs["daily"]),
                     line |-> fs["bank"][i - Len(fs["daily"])]]
  <2>1. CASE i <= Len(fs["daily"])
    <3>1. i \in 1..Len(fs["daily"])
      BY <2>1, <1>7
    <3>2. QED
      BY <3>1, <2>1, <1>4, <1>6, TwoFiles
  <2>2. CASE ~(i <= Len(fs["daily"]))
    <3>1. i - Len(fs["daily"]) \in 1..Len(fs["bank"])
      <4>1. \A a, b \in Nat : \A x \in 1..a + b : ~(x <= a) => x - a \in 1..b
        OBVIOUS
      <4>2. QED
        BY <4>1, <2>2, <1>7
    <3>2. RowsOf("bank", fs)[i - Len(fs["daily"])] =
            [file |-> "bank", pos |-> i - Len(fs["daily"]), line |-> fs["bank"][i - Len(fs["daily"])]]
      BY <3>1, <1>6, TwoFiles
    <3>3. QED
      BY <3>2, <2>2, <1>4
  <2>3. QED
    BY <2>1, <2>2
<1>10. QED
  BY <1>4, <1>5, <1>9

\* A flush rewrites every line of a file and adds or removes none.
LEMMA SyncedTyped ==
  ASSUME Types, NEW f \in ToSet(Files)
  PROVE  Synced(f) \in Seq(Line) /\ DOMAIN Synced(f) = DOMAIN file[f] /\ Len(Synced(f)) = Len(file[f])
<1>1. file[f] \in Seq(Line) /\ DOMAIN file[f] = 1..Len(file[f]) /\ Len(file[f]) \in Nat
  BY LenProperties DEF Types
<1>2. \A r \in ToSet(rows) : r \in Row
  BY ElementOfSeq, LenProperties DEF Types, ToSet
<1>3. ASSUME NEW i \in DOMAIN file[f]
      PROVE  Synced(f)[i] \in Line
  <2>1. file[f][i] \in Line
    BY <1>1, ElementOfSeq
  <2>2. CASE \E r \in ToSet(rows) : r.file = f /\ r.pos = i
    <3> DEFINE r == CHOOSE r \in ToSet(rows) : r.file = f /\ r.pos = i
    <3>1. r \in Row
      BY <2>2, <1>2
    <3>2. [r.line EXCEPT !.text = file[f][i].text] \in Line
      BY <3>1, <2>1 DEF Row, Line
    <3>3. QED
      BY <2>2, <3>2 DEF Synced
  <2>3. QED
    BY <2>1, <2>2 DEF Synced
<1>4. Synced(f) = [i \in 1..Len(file[f]) |-> Synced(f)[i]]
  BY <1>1 DEF Synced
<1>5. QED
  BY <1>1, <1>3, <1>4, MadeSeq

\* Marking a line leaves all others and every line's text and key.
LEMMA MarkedLine ==
  ASSUME file \in [ToSet(Files) -> Seq(Line)], NEW f, NEW n, NEW hard, ~hard,
         NEW g \in ToSet(Files), NEW s, s = Forgotten(f, n, hard)[g]
  PROVE  /\ s \in Seq(Line) /\ DOMAIN s = DOMAIN file[g]
         /\ \A i \in DOMAIN file[g] :
              /\ s[i].text = file[g][i].text /\ s[i].key = file[g][i].key
              /\ ~(g = f /\ i = n) => s[i] = file[g][i]
<1>1. file[g] \in Seq(Line) /\ DOMAIN file[g] = 1..Len(file[g]) /\ Len(file[g]) \in Nat
  BY LenProperties
<1>2. \A i \in 1..Len(file[g]) : file[g][i] \in Line
  BY <1>1, ElementOfSeq
<1>3. CASE g = f
  <2>1. s = [file[g] EXCEPT ![n].dead = TRUE]
    BY <1>3 DEF Forgotten
  <2>2. s = [i \in 1..Len(file[g]) |-> IF i = n THEN [file[g][i] EXCEPT !.dead = TRUE] ELSE file[g][i]]
    BY <1>1, <2>1
  <2>3. ASSUME NEW i \in 1..Len(file[g])
        PROVE  /\ s[i] \in Line /\ s[i].text = file[g][i].text /\ s[i].key = file[g][i].key
               /\ i # n => s[i] = file[g][i]
    BY <1>2, <2>2 DEF Line
  <2>4. s = [i \in 1..Len(file[g]) |-> s[i]]
    BY <2>2
  <2>5. s \in Seq(Line) /\ DOMAIN s = DOMAIN file[g]
    BY <1>1, <2>3, <2>4, MadeSeq
  <2>6. QED
    BY <1>1, <1>3, <2>3, <2>5
<1>4. CASE g # f
  <2>1. s = file[g]
    BY <1>4 DEF Forgotten
  <2>2. QED
    BY <1>1, <1>4, <2>1
<1>5. QED
  BY <1>3, <1>4

LEMMA MarkedDead ==
  ASSUME file \in [ToSet(Files) -> Seq(Line)], NEW f, NEW n, NEW hard, ~hard,
         NEW g \in ToSet(Files), NEW s, s = Forgotten(f, n, hard)[g]
  PROVE  \A i \in DOMAIN file[g] : ~s[i].dead => ~file[g][i].dead /\ ~(g = f /\ i = n)
<1>1. file[g] \in Seq(Line) /\ DOMAIN file[g] = 1..Len(file[g]) /\ Len(file[g]) \in Nat
  BY LenProperties
<1>2. \A i \in 1..Len(file[g]) : file[g][i] \in Line
  BY <1>1, ElementOfSeq
<1>3. CASE g = f
  <2>1. s = [file[g] EXCEPT ![n].dead = TRUE]
    BY <1>3 DEF Forgotten
  <2>2. s = [i \in 1..Len(file[g]) |-> IF i = n THEN [file[g][i] EXCEPT !.dead = TRUE] ELSE file[g][i]]
    BY <1>1, <2>1
  <2>3. QED
    BY <1>1, <1>2, <2>2 DEF Line
<1>4. CASE g # f
  BY <1>4 DEF Forgotten
<1>5. QED
  BY <1>3, <1>4

LEMMA MarkedFile ==
  ASSUME file \in [ToSet(Files) -> Seq(Line)], NEW f, NEW n, NEW hard, ~hard
  PROVE  Forgotten(f, n, hard) \in [ToSet(Files) -> Seq(Line)]
<1> DEFINE new == Forgotten(f, n, hard)
<1>1. new = [g \in ToSet(Files) |-> new[g]]
  BY DEF Forgotten
<1>2. ASSUME NEW g \in ToSet(Files)
      PROVE  new[g] \in Seq(Line)
  <2>1. PICK s : s = Forgotten(f, n, hard)[g]
    OBVIOUS
  <2>2. QED
    BY <2>1, MarkedLine
<1> HIDE DEF new
<1>3. new \in [ToSet(Files) -> Seq(Line)]
  BY <1>1, <1>2
<1>4. QED
  BY <1>3 DEF new

LEMMA RemovedFile ==
  ASSUME file \in [ToSet(Files) -> Seq(Line)], NEW f \in ToSet(Files), NEW n \in 1..Len(file[f])
  PROVE  /\ Forgotten(f, n, TRUE) \in [ToSet(Files) -> Seq(Line)]
         /\ \A g \in ToSet(Files) : g # f => Forgotten(f, n, TRUE)[g] = file[g]
         /\ Len(Forgotten(f, n, TRUE)[f]) = Len(file[f]) - 1
         /\ \A i \in 1..Len(file[f]) - 1 :
              Forgotten(f, n, TRUE)[f][i] = IF i < n THEN file[f][i] ELSE file[f][i + 1]
<1> DEFINE old == file[f]
           low == SubSeq(old, 1, n - 1)
           high == SubSeq(old, n + 1, Len(old))
<1>1. old \in Seq(Line) /\ Len(old) \in Nat /\ n \in 1..Len(old) /\ n \in Nat
  BY LenProperties
<1>2. Forgotten(f, n, TRUE) = [file EXCEPT ![f] = low \o high]
  BY DEF Forgotten, RemoveAt
<1>3. \A i \in 1..Len(old) : old[i] \in Line
  BY <1>1, ElementOfSeq
<1> HIDE DEF old
<1>4. low \in Seq(Line) /\ Len(low) = n - 1 /\ \A i \in 1..n - 1 : low[i] = old[i]
  <2>1. \A i \in 1..n - 1 : old[i] \in Line
    BY <1>1, <1>3
  <2>2. /\ low \in Seq(Line) /\ Len(low) = IF 1 <= n - 1 THEN n - 1 - 1 + 1 ELSE 0
        /\ \A i \in 1 .. n - 1 - 1 + 1 : low[i] = old[1 + i - 1]
    BY <1>1, <2>1, SubSeqProperties
  <2>3. QED
    BY <1>1, <2>2
<1>5. high \in Seq(Line) /\ Len(high) = Len(old) - n /\ \A i \in 1..Len(old) - n : high[i] = old[n + i]
  <2>1. \A i \in n + 1..Len(old) : old[i] \in Line
    BY <1>1, <1>3
  <2>2. /\ high \in Seq(Line) /\ Len(high) = IF n + 1 <= Len(old) THEN Len(old) - (n + 1) + 1 ELSE 0
        /\ \A i \in 1 .. Len(old) - (n + 1) + 1 : high[i] = old[n + 1 + i - 1]
    BY <1>1, <2>1, SubSeqProperties
  <2>3. QED
    BY <1>1, <2>2
<1> HIDE DEF low, high
<1>6. /\ low \o high \in Seq(Line) /\ Len(low \o high) = Len(low) + Len(high)
      /\ \A i \in 1..Len(low) + Len(high) :
           (low \o high)[i] = IF i <= Len(low) THEN low[i] ELSE high[i - Len(low)]
  BY <1>4, <1>5, ConcatProperties
<1>7. Len(low \o high) = Len(old) - 1
  BY <1>1, <1>4, <1>5, <1>6
<1>8. ASSUME NEW i \in 1..Len(old) - 1
      PROVE  (low \o high)[i] = IF i < n THEN old[i] ELSE old[i + 1]
  <2>1. i \in 1..Len(low) + Len(high)
    BY <1>1, <1>4, <1>5
  <2>2. CASE i < n
    BY <2>1, <2>2, <1>1, <1>4, <1>6
  <2>3. CASE ~(i < n)
    <3>1. i - (n - 1) \in 1..Len(old) - n /\ n + (i - (n - 1)) = i + 1 /\ ~(i <= n - 1)
      BY <2>3, <1>1
    <3>2. QED
      BY <3>1, <2>1, <2>3, <1>4, <1>5, <1>6
  <2>4. QED
    BY <2>2, <2>3
<1> DEFINE new == low \o high
<1>9. /\ [file EXCEPT ![f] = new][f] = new
      /\ \A g \in ToSet(Files) : g # f => [file EXCEPT ![f] = new][g] = file[g]
      /\ [file EXCEPT ![f] = new] \in [ToSet(Files) -> Seq(Line)]
  BY <1>6
<1>10. QED
  BY <1>2, <1>7, <1>8, <1>9 DEF old

\* append_unique_entry leaves the bank, or adds one line at its end.
LEMMA AppendedFile ==
  ASSUME file \in [ToSet(Files) -> Seq(Line)], NEW l \in Line
  PROVE  /\ AppendUnique(l) \in [ToSet(Files) -> Seq(Line)]
         /\ AppendUnique(l)["daily"] = file["daily"]
         /\ Present(l, file["bank"]) => AppendUnique(l) = file
         /\ ~Present(l, file["bank"]) =>
              /\ Len(AppendUnique(l)["bank"]) = Len(file["bank"]) + 1
              /\ AppendUnique(l)["bank"][Len(file["bank"]) + 1] = l
              /\ \A i \in 1..Len(file["bank"]) : AppendUnique(l)["bank"][i] = file["bank"][i]
<1>1. file["bank"] \in Seq(Line)
  BY TwoFiles
<1> DEFINE new == Append(file["bank"], l)
<1>2. /\ new \in Seq(Line) /\ Len(new) = Len(file["bank"]) + 1
      /\ new[Len(file["bank"]) + 1] = l
      /\ \A i \in 1..Len(file["bank"]) : new[i] = file["bank"][i]
  BY <1>1, AppendProperties
<1> HIDE DEF new
<1>3. /\ [file EXCEPT !["bank"] = new] \in [ToSet(Files) -> Seq(Line)]
      /\ [file EXCEPT !["bank"] = new]["bank"] = new
      /\ [file EXCEPT !["bank"] = new]["daily"] = file["daily"]
  BY <1>2, TwoFiles
<1>4. AppendUnique(l) = IF Present(l, file["bank"]) THEN file ELSE [file EXCEPT !["bank"] = new]
  BY DEF AppendUnique, new
<1>5. QED
  BY <1>2, <1>3, <1>4

-------------------------------------------------------------------------------
(* What a command carries.                                                  *)

LEMMA MadeCmd ==
  ASSUME NEW a \in Ats, NEW b \in Thens, NEW t \in Texts \cup {NoText}, NEW m \in Seq(Texts),
         NEW d, NEW s,
         cmd' = [at |-> a, then |-> b, text |-> t, more |-> m, todo |-> d, stale |-> s],
         a \in {"slot", "append"} \/ b \in {"stored", "slot"} => t \in Texts,
         a = "append" => b = "superseded",
         a \in {"rest", "slot", "capture", "forget", "reflect", "search"} => b = "rest",
         a = "capture" => m # <<>>
  PROVE  CmdTyped' /\ Control'
<1>1. /\ cmd'.at = a /\ cmd'.then = b /\ cmd'.text = t /\ cmd'.more = m
      /\ cmd'.todo = d /\ cmd'.stale = s
  OBVIOUS
<1>2. CmdTyped'
  BY <1>1 DEF CmdTyped
<1>3. QED
  BY <1>1, <1>2 DEF Control

LEMMA RestCmd ==
  ASSUME cmd' = Rest
  PROVE  CmdTyped' /\ Control'
<1>1. cmd' = [at |-> "rest", then |-> "rest", text |-> NoText, more |-> <<>>, todo |-> {}, stale |-> {}]
  BY DEF Rest
<1>2. <<>> \in Seq(Texts)
  BY EmptySeq
<1>3. QED
  BY <1>1, <1>2, MadeCmd DEF Ats, Thens

LEMMA StoredCmd ==
  ASSUME CmdTyped, Stored
  PROVE  CmdTyped' /\ Control' /\ cmd'.at \in {"rest", "capture"} /\ cmd'.then = "rest"
<1>1. cmd' = [at |-> IF cmd.more = <<>> THEN "rest" ELSE "capture", then |-> "rest", text |-> NoText,
              more |-> cmd.more, todo |-> {}, stale |-> {}]
  BY DEF Stored, Rest
<1>2. cmd.more \in Seq(Texts)
  BY DEF CmdTyped
<1>3. QED
  BY <1>1, <1>2, MadeCmd DEF Ats, Thens

LEMMA ReturnCmd ==
  ASSUME CmdTyped, Control, NEW ok, Return(ok)
  PROVE  CmdTyped' /\ Control' /\ cmd'.at \in {"rest", "capture", "slot", "search", "forget"}
         /\ cmd'.then = "rest"
         /\ (cmd'.at = "forget" => cmd.then = "forget")
<1>1. CASE cmd.then = "stored"
  BY <1>1, StoredCmd DEF Return
<1>2. CASE cmd.then # "stored" /\ cmd' = Rest
  BY <1>2, RestCmd DEF Rest
<1>3. CASE cmd.then # "stored" /\ cmd' # Rest
  <2>1. /\ cmd.then \in {"slot", "search", "forget"}
        /\ cmd' = [at |-> cmd.then, then |-> "rest", text |-> cmd.text,
                   more |-> cmd.more, todo |-> {}, stale |-> {}]
    BY <1>3 DEF Return, Rest
  <2>2. cmd.text \in Texts \cup {NoText} /\ cmd.more \in Seq(Texts)
        /\ (cmd.then = "slot" => cmd.text \in Texts)
    BY DEF CmdTyped, Control
  <2>3. CmdTyped' /\ Control'
    BY <2>1, <2>2, MadeCmd DEF Ats, Thens
  <2>4. QED
    BY <2>1, <2>3
<1>4. QED
  BY <1>1, <1>2, <1>3

LEMMA BeginCmd ==
  ASSUME NEW t \in Texts, NEW more \in Seq(Texts), BeginStore(t, more)
  PROVE  CmdTyped' /\ Control' /\ cmd'.at \in {"flush", "slot"} /\ cmd'.then \in {"slot", "rest"}
         /\ (cmd'.at = "slot" => ~IsDirty)
<1>1. \/ ~IsDirty /\ cmd' = [at |-> "slot", then |-> "rest", text |-> t, more |-> more, todo |-> {}, stale |-> {}]
      \/ cmd' = [at |-> "flush", then |-> "slot", text |-> t, more |-> more,
                 todo |-> ToSet(Files), stale |-> {}]
  BY DEF BeginStore, Rest
<1>2. CASE cmd' = [at |-> "slot", then |-> "rest", text |-> t, more |-> more, todo |-> {}, stale |-> {}]
  BY <1>1, <1>2, MadeCmd DEF Ats, Thens
<1>3. CASE cmd' = [at |-> "flush", then |-> "slot", text |-> t, more |-> more,
                   todo |-> ToSet(Files), stale |-> {}]
  BY <1>3, MadeCmd DEF Ats, Thens
<1>4. QED
  BY <1>1, <1>2, <1>3

LEMMA ReindexCmd ==
  ASSUME CmdTyped, NEW flush \in BOOLEAN, NEW then \in Thens, NEW text \in Texts \cup {NoText},
         Reindex(flush, then, text), then \in {"stored", "slot"} => text \in Texts
  PROVE  CmdTyped' /\ Control' /\ cmd'.at = (IF flush THEN "flush" ELSE "rebuild")
         /\ cmd'.then = then /\ cmd'.text = text
<1>1. cmd' = [at |-> IF flush THEN "flush" ELSE "rebuild", then |-> then, text |-> text, more |-> cmd.more,
              todo |-> IF flush THEN ToSet(Files) ELSE {}, stale |-> {}]
  BY DEF Reindex, Rest
<1>2. cmd.more \in Seq(Texts)
  BY DEF CmdTyped
<1>3. CASE flush
  <2>1. cmd' = [at |-> "flush", then |-> then, text |-> text, more |-> cmd.more,
                todo |-> ToSet(Files), stale |-> {}]
    BY <1>1, <1>3
  <2>2. CmdTyped' /\ Control'
    BY <1>2, <2>1, MadeCmd DEF Ats
  <2>3. QED
    BY <1>3, <2>1, <2>2
<1>4. CASE ~flush
  <2>1. cmd' = [at |-> "rebuild", then |-> then, text |-> text, more |-> cmd.more,
                todo |-> {}, stale |-> {}]
    BY <1>1, <1>4
  <2>2. CmdTyped' /\ Control'
    BY <1>2, <2>1, MadeCmd DEF Ats
  <2>3. QED
    BY <1>4, <2>1, <2>2
<1>5. QED
  BY <1>3, <1>4

LEMMA CmdKept ==
  ASSUME CmdTyped, Control, Next
  PROVE  CmdTyped' /\ Control'
<1>0. NoText \in Texts \cup {NoText} /\ <<>> \in Seq(Texts)
  BY EmptySeq
<1>1. CASE \E f \in ToSet(Files) : FlushFile(f)
  BY <1>1 DEF FlushFile, CmdTyped, Control, Rest, Ats, Thens
<1>2. CASE Rebuild
  BY <1>2 DEF Rebuild, CmdTyped, Control, Rest, Ats, Thens
<1>3. CASE FlushEnds
  BY <1>3, RestCmd DEF FlushEnds
<1>4. CASE SyncVectors
  <2>1. Return(TRUE)
    BY <1>4 DEF SyncVectors
  <2>2. QED
    BY <2>1, ReturnCmd, Zenon
<1>5. CASE SyncFails
  <2>1. Return(FALSE)
    BY <1>5 DEF SyncFails
  <2>2. QED
    BY <2>1, ReturnCmd, Zenon
<1>6. CASE SlotHolds
  BY <1>6, StoredCmd DEF SlotHolds
<1>7. CASE Supersede
  BY <1>7 DEF Supersede, CmdTyped, Control, Rest, Ats, Thens
<1>8. CASE Duplicate
  BY <1>8, StoredCmd DEF Duplicate
<1>9. CASE AppendEntry
  BY <1>9 DEF AppendEntry, SlotFree, ReindexQuietly, Reindex, CmdTyped, Control, Rest, Ats, Thens
<1>10. CASE \E hard \in BOOLEAN : ForgetHit(hard)
  <2>1. CASE cmd' = Rest
    BY <2>1, RestCmd
  <2>2. CASE ReindexQuietly("forgotten", NoText)
    BY <2>2, <1>0, ReindexCmd DEF ReindexQuietly, Thens
  <2>3. QED
    BY <1>10, <2>1, <2>2 DEF ForgetHit
<1>11. CASE Promote
  BY <1>11 DEF Promote, Reindex, CmdTyped, Control, Rest, Ats, Thens
<1>12. CASE Recall
  BY <1>12, RestCmd DEF Recall
<1>13. CASE StoreCandidate
  <2>1. Head(cmd.more) \in Texts /\ Tail(cmd.more) \in Seq(Texts)
    BY <1>13, HeadTailProperties DEF StoreCandidate, CmdTyped, Control
  <2>2. QED
    BY <1>13, <2>1, BeginCmd DEF StoreCandidate
<1>14. CASE \E t \in Texts : Store(t)
  BY <1>14, <1>0, BeginCmd DEF Store
<1>15. CASE \E candidates \in Captures : Capture(candidates)
  BY <1>15, HypermemoryAssumption DEF Capture, Command, CmdTyped, Control, Rest, Ats, Thens
<1>16. CASE \E t \in Texts, hard \in BOOLEAN : ForgetText(t, hard)
  BY <1>16, <1>0, ReindexCmd DEF ForgetText, ReindexQuietly, Thens
<1>17. CASE \E f \in ToSet(Files), t, u \in Texts : Update(f, t, u)
  BY <1>17, <1>0, ReindexCmd DEF Update, ReindexQuietly, Thens
<1>18. CASE ForgetQuery
  <2>1. CASE IsDirty
    BY <1>18, <1>0, <2>1, ReindexCmd DEF ForgetQuery, Thens
  <2>2. CASE ~IsDirty
    <3>1. cmd' = [at |-> "forget", then |-> "rest", text |-> NoText, more |-> <<>>, todo |-> {}, stale |-> {}]
      BY <1>18, <2>2 DEF ForgetQuery, Rest
    <3>2. QED
      BY <3>1, <1>0, MadeCmd DEF Ats, Thens
  <2>3. QED
    BY <2>1, <2>2
<1>19. CASE Reflect
  <2>1. cmd' = [at |-> "reflect", then |-> "rest", text |-> NoText, more |-> <<>>,
                 todo |-> DOMAIN file["daily"], stale |-> {}]
    BY <1>19 DEF Reflect, Rest
  <2>2. QED
    BY <2>1, <1>0, MadeCmd DEF Ats, Thens
<1>20. CASE FlushMetadata
  <2>1. cmd' = [at |-> "flush", then |-> "rest", text |-> NoText, more |-> <<>>,
                 todo |-> ToSet(Files), stale |-> {}]
    BY <1>20 DEF FlushMetadata, Rest
  <2>2. QED
    BY <2>1, <1>0, MadeCmd DEF Ats, Thens
<1>21. CASE Search
  <2>1. CASE IsDirty
    BY <1>21, <1>0, <2>1, ReindexCmd DEF Search, Thens
  <2>2. CASE ~IsDirty
    <3>1. cmd' = [at |-> "search", then |-> "rest", text |-> NoText, more |-> <<>>, todo |-> {}, stale |-> {}]
      BY <1>21, <2>2 DEF Search, Rest
    <3>2. QED
      BY <3>1, <1>0, MadeCmd DEF Ats, Thens
  <2>3. QED
    BY <2>1, <2>2
<1>22. CASE Record
  BY <1>22 DEF Record, CmdTyped, Control, Rest, Ats, Thens
<1>23. CASE Kill
  BY <1>23, RestCmd DEF Kill
<1>24. CASE \E f \in ToSet(Files) : Edit(f)
  BY <1>24 DEF Edit, CmdTyped, Control, Rest, Ats, Thens
<1>25. QED
  BY <1>1, <1>2, <1>3, <1>4, <1>5, <1>6, <1>7, <1>8, <1>9, <1>10, <1>11, <1>12, <1>13, <1>14, <1>15, <1>16, <1>17, <1>18, <1>19, <1>20, <1>21, <1>22, <1>23, <1>24 DEF Next, Continue

-------------------------------------------------------------------------------
(* Types and positions.                                                     *)

LEMMA ToldKept ==
  ASSUME Types, CmdTyped, Control, Next
  PROVE  told' \in [Keys -> Texts \cup {NoText}]
<1>1. \A ks : Untold(ks) \in [Keys -> Texts \cup {NoText}]
  BY DEF Untold, Types
<1>2. CASE \E ok \in BOOLEAN : Return(ok)
  <2>1. CASE cmd.then = "stored" /\ KeyOf[cmd.text] # NoKey
    <3>1. told' = [told EXCEPT ![KeyOf[cmd.text]] = cmd.text]
      BY <1>2, <2>1 DEF Return
    <3>2. cmd.text \in Texts
      BY <2>1 DEF Control
    <3>3. QED
      BY <3>1, <3>2 DEF Types
  <2>2. CASE ~(cmd.then = "stored" /\ KeyOf[cmd.text] # NoKey)
    BY <1>2, <2>2 DEF Return, Types
  <2>3. QED
    BY <2>1, <2>2
<1>3. CASE SlotHolds
  <2>1. cmd.text \in Texts /\ told' = [told EXCEPT ![KeyOf[cmd.text]] = cmd.text]
    BY <1>3 DEF Control, SlotHolds
  <2>2. QED
    BY <2>1 DEF Types
<1>4. CASE \E ks : told' = Untold(ks)
  BY <1>1, <1>4
<1>5. CASE UNCHANGED told
  BY <1>5 DEF Types
<1>6. CASE \E f \in ToSet(Files) : FlushFile(f)
  BY <1>5, <1>6 DEF FlushFile, disk, tables
<1>7. CASE Rebuild
  BY <1>5, <1>7 DEF Rebuild, disk, tables
<1>8. CASE FlushEnds
  BY <1>5, <1>8 DEF FlushEnds, disk, tables
<1>9. CASE SyncVectors
  <2>1. Return(TRUE)
    BY <1>9 DEF SyncVectors
  <2>2. QED
    BY <1>2, <2>1, Zenon
<1>10. CASE SyncFails
  <2>1. Return(FALSE)
    BY <1>10 DEF SyncFails
  <2>2. QED
    BY <1>2, <2>1, Zenon
<1>11. CASE Supersede
  BY <1>5, <1>11 DEF Supersede, disk, tables
<1>12. CASE Duplicate
  BY <1>5, <1>12 DEF Duplicate, disk, tables
<1>13. CASE AppendEntry
  BY <1>5, <1>13 DEF AppendEntry, disk, tables
<1>14. CASE \E hard \in BOOLEAN : ForgetHit(hard)
  BY <1>4, <1>5, <1>14 DEF ForgetHit
<1>15. CASE Promote
  BY <1>5, <1>15 DEF Promote, disk, tables
<1>16. CASE Recall
  BY <1>5, <1>16 DEF Recall, disk, tables
<1>17. CASE StoreCandidate
  BY <1>5, <1>17 DEF StoreCandidate, disk, tables
<1>18. CASE \E t \in Texts : Store(t)
  BY <1>5, <1>18 DEF Store, disk, tables
<1>19. CASE \E candidates \in Captures : Capture(candidates)
  BY <1>5, <1>19 DEF Capture, disk, tables
<1>20. CASE \E t \in Texts, hard \in BOOLEAN : ForgetText(t, hard)
  BY <1>4, <1>5, <1>20 DEF ForgetText
<1>21. CASE \E f \in ToSet(Files), t, u \in Texts : Update(f, t, u)
  BY <1>4, <1>5, <1>21 DEF Update
<1>22. CASE ForgetQuery
  BY <1>5, <1>22 DEF ForgetQuery, disk, tables
<1>23. CASE Reflect
  BY <1>5, <1>23 DEF Reflect, disk, tables
<1>24. CASE FlushMetadata
  BY <1>5, <1>24 DEF FlushMetadata, disk, tables
<1>25. CASE Search
  BY <1>5, <1>25 DEF Search, disk, tables
<1>26. CASE Record
  BY <1>5, <1>26 DEF Record, disk, tables
<1>27. CASE Kill
  BY <1>5, <1>27 DEF Kill, disk, tables
<1>28. CASE \E f \in ToSet(Files) : Edit(f)
  BY <1>5, <1>28 DEF Edit, disk, tables
<1>29. QED
  BY <1>3, <1>6, <1>7, <1>8, <1>9, <1>10, <1>11, <1>12, <1>13, <1>14, <1>15, <1>16, <1>17, <1>18, <1>19, <1>20, <1>21, <1>22, <1>23, <1>24, <1>25, <1>26, <1>27, <1>28 DEF Next, Continue

\* A step that leaves the index alone, whatever it does to the files.
LEMMA IndexLeft ==
  ASSUME BaseInv, CmdTyped', Control', told' \in [Keys -> Texts \cup {NoText}],
         file' \in [ToSet(Files) -> Seq(Line)], UNCHANGED <<rows, indexed, vectors>>,
         recalled' \subseteq Nat \ {0}, disturbed' \in BOOLEAN,
         cmd'.at = "sync" => cmd.at = "sync",
         cmd'.at \in {"sync", "forget"} =>
           /\ cmd.at \in {"sync", "forget"} \/ file = indexed
           /\ \A f \in ToSet(Files) : Len(file[f]) <= Len(file'[f]),
         cmd'.at = "reflect" => cmd'.todo \subseteq DOMAIN file'["daily"]
  PROVE  BaseInv'
<1>1. Types'
  BY DEF BaseInv, Types
<1>2. NotesRemain'
  BY DEF NotesRemain
<1>3. RowsNumbered'
  BY DEF BaseInv, RowsNumbered
<1>4. LinesRemain'
  <2>1. ASSUME NEW f \in ToSet(Files), cmd'.at \in {"sync", "forget"}
        PROVE  Len(indexed[f]) <= Len(file'[f])
    <3>1. Len(indexed[f]) <= Len(file[f])
      <4>1. Len(file[f]) \in Nat
        BY LenProperties DEF BaseInv, Types
      <4>2. QED
        BY <4>1, <2>1 DEF BaseInv, LinesRemain
    <3>2. Len(file[f]) <= Len(file'[f])
      BY <2>1
    <3>3. Len(indexed[f]) \in Nat /\ Len(file[f]) \in Nat /\ Len(file'[f]) \in Nat
      BY LenProperties DEF BaseInv, Types
    <3>4. QED
      BY <3>1, <3>2, <3>3
  <2>2. QED
    BY <2>1 DEF LinesRemain
<1>5. VectorsOfRows'
  BY DEF BaseInv, VectorsOfRows
<1>6. QED
  BY <1>1, <1>2, <1>3, <1>4, <1>5 DEF BaseInv

Replaced(f, some, u) ==
  [file EXCEPT ![f] = [i \in DOMAIN @ |-> IF i \in some THEN [@[i] EXCEPT !.text = u] ELSE @[i]]]

\* update replaces texts and nothing else.
LEMMA UpdatedFile ==
  ASSUME file \in [ToSet(Files) -> Seq(Line)], NEW f \in ToSet(Files), NEW some, NEW u \in Texts
  PROVE  /\ Replaced(f, some, u) \in [ToSet(Files) -> Seq(Line)]
         /\ \A g \in ToSet(Files) :
              /\ DOMAIN Replaced(f, some, u)[g] = DOMAIN file[g]
              /\ \A i \in DOMAIN file[g] :
                   Replaced(f, some, u)[g][i] = IF g = f /\ i \in some THEN [file[g][i] EXCEPT !.text = u] ELSE file[g][i]
<1> DEFINE new == [i \in DOMAIN file[f] |-> IF i \in some THEN [file[f][i] EXCEPT !.text = u] ELSE file[f][i]]
<1>1. file[f] \in Seq(Line) /\ DOMAIN file[f] = 1..Len(file[f]) /\ Len(file[f]) \in Nat
  BY LenProperties
<1>2. \A i \in 1..Len(file[f]) : file[f][i] \in Line
  BY <1>1, ElementOfSeq
<1>3. \A i \in 1..Len(file[f]) : [file[f][i] EXCEPT !.text = u] \in Line
  BY <1>2 DEF Line
<1>4. \A i \in 1..Len(file[f]) : new[i] \in Line
  BY <1>1, <1>2, <1>3
<1>5. new = [i \in 1..Len(file[f]) |-> new[i]]
  BY <1>1
<1>6. new \in Seq(Line) /\ DOMAIN new = DOMAIN file[f]
  <2> HIDE DEF new
  <2>1. QED
    BY <1>1, <1>4, <1>5, MadeSeq
<1>7. Replaced(f, some, u) = [file EXCEPT ![f] = new]
  BY DEF Replaced
<1>8. \A i \in DOMAIN file[f] :
        new[i] = IF i \in some THEN [file[f][i] EXCEPT !.text = u] ELSE file[f][i]
  OBVIOUS
<1> HIDE DEF new
<1>9. Replaced(f, some, u)[f] = new /\ \A g \in ToSet(Files) : g # f => Replaced(f, some, u)[g] = file[g]
  BY <1>7
<1>10. QED
  BY <1>6, <1>7, <1>8, <1>9

\* People put notes above the others, or change a line: nothing gets lost.
LEMMA EditedFile ==
  ASSUME BaseInv, NEW f \in ToSet(Files), Edit(f)
  PROVE  /\ file' \in [ToSet(Files) -> Seq(Line)]
         /\ \A g \in ToSet(Files) : Len(file[g]) <= Len(file'[g])
<1>1. file \in [ToSet(Files) -> Seq(Line)]
  BY DEF BaseInv, Types
<1>2. \A g \in ToSet(Files) : file[g] \in Seq(Line) /\ DOMAIN file[g] = 1..Len(file[g]) /\ Len(file[g]) \in Nat
  BY <1>1, LenProperties
<1>3. CASE \E t \in Typed : file' = [file EXCEPT ![f] = <<Fresh(t, NoKey)>> \o @]
  <2>1. PICK t \in Typed : file' = [file EXCEPT ![f] = <<Fresh(t, NoKey)>> \o @]
    BY <1>3
  <2>2. Fresh(t, NoKey) \in Line
    BY FreshTyped, HypermemoryAssumption
  <2> DEFINE note == <<Fresh(t, NoKey)>>
             new == note \o file[f]
  <2>3. note \in Seq(Line) /\ Len(note) = 1
    BY <2>2
  <2> HIDE DEF note
  <2>4. new \in Seq(Line) /\ Len(new) = 1 + Len(file[f])
    BY <1>2, <2>3, ConcatProperties
  <2>5. file' = [file EXCEPT ![f] = new]
    BY <2>1 DEF note
  <2> HIDE DEF new
  <2>6. QED
    BY <1>1, <1>2, <2>4, <2>5
<1>4. CASE \E i \in DOMAIN file[f] : file' = [file EXCEPT ![f][i].dead = ~@]
  <2>1. PICK i \in DOMAIN file[f] : file' = [file EXCEPT ![f][i].dead = ~@]
    BY <1>4
  <2>2. file[f][i] \in Line
    BY <1>2, ElementOfSeq
  <2> DEFINE l == [file[f][i] EXCEPT !.dead = ~file[f][i].dead]
             new == [file[f] EXCEPT ![i] = l]
  <2>3. l \in Line
    BY <2>2 DEF Line
  <2> HIDE DEF l
  <2>4. new \in Seq(Line) /\ Len(new) = Len(file[f])
    BY <1>2, <2>3, ExceptSeq
  <2>5. file' = [file EXCEPT ![f] = new]
    BY <1>1, <2>1 DEF l
  <2> HIDE DEF new
  <2>6. QED
    BY <1>1, <1>2, <2>4, <2>5
<1>5. QED
  BY <1>3, <1>4 DEF Edit

\* Feedback counts up and changes nothing else of a row.
LEMMA FeedbackRows ==
  ASSUME rows \in Seq(Row), Record
  PROVE  /\ rows' \in Seq(Row) /\ DOMAIN rows' = DOMAIN rows
         /\ \A i \in DOMAIN rows :
              /\ rows'[i].file = rows[i].file /\ rows'[i].pos = rows[i].pos
              /\ rows'[i].line.text = rows[i].line.text
              /\ rows'[i].line.key = rows[i].line.key
              /\ rows'[i].line.dead = rows[i].line.dead
              /\ [rows'[i].line EXCEPT !.hits = 0] = [rows[i].line EXCEPT !.hits = 0]
<1>1. DOMAIN rows = 1..Len(rows) /\ Len(rows) \in Nat /\ \A i \in 1..Len(rows) : rows[i] \in Row
  BY LenProperties, ElementOfSeq
<1>2. rows' = [i \in 1..Len(rows) |->
                 IF i \in recalled /\ rows[i].line.hits < MaxHits
                 THEN [rows[i] EXCEPT !.line.hits = @ + 1] ELSE rows[i]]
  BY <1>1 DEF Record
<1>3. ASSUME NEW i \in 1..Len(rows)
      PROVE  /\ rows'[i] \in Row
             /\ rows'[i].file = rows[i].file /\ rows'[i].pos = rows[i].pos
             /\ rows'[i].line.text = rows[i].line.text
             /\ rows'[i].line.key = rows[i].line.key
             /\ rows'[i].line.dead = rows[i].line.dead
             /\ [rows'[i].line EXCEPT !.hits = 0] = [rows[i].line EXCEPT !.hits = 0]
  <2>1. CASE i \in recalled /\ rows[i].line.hits < MaxHits
    <3>1. rows'[i] = [rows[i] EXCEPT !.line.hits = @ + 1]
      BY <1>2, <2>1
    <3>2. rows[i] \in Row /\ rows[i].line \in Line
      BY <1>1 DEF Row
    <3>3. rows[i].line.hits + 1 \in 0..MaxHits
      BY <3>2, <2>1, HypermemoryAssumption DEF Line
    <3>4. rows'[i].line = [rows[i].line EXCEPT !.hits = @ + 1] /\ rows'[i].file = rows[i].file
          /\ rows'[i].pos = rows[i].pos
      BY <3>1, <3>2 DEF Row
    <3>5. rows'[i].line \in Line
      BY <3>2, <3>3, <3>4 DEF Line
    <3>6. rows'[i] \in Row
      BY <3>1, <3>2, <3>5 DEF Row
    <3>7. QED
      BY <3>2, <3>4, <3>6 DEF Line
  <2>2. CASE ~(i \in recalled /\ rows[i].line.hits < MaxHits)
    BY <1>1, <1>2, <2>2
  <2>3. QED
    BY <2>1, <2>2
<1>4. rows' = [i \in 1..Len(rows) |-> rows'[i]]
  BY <1>2
<1>5. rows' \in Seq(Row) /\ DOMAIN rows' = 1..Len(rows)
  BY <1>1, <1>3, <1>4, MadeSeq
<1>6. QED
  BY <1>1, <1>3, <1>5

LessThan == {ss \in Nat \X Nat : ss[1] < ss[2]}

LEMMA LeastOf ==
  ASSUME NEW S \in SUBSET Nat, S # {}
  PROVE  Min(S) \in S
<1>1. IsWellFoundedOn(LessThan, Nat)
  BY NatLessThanWellFounded DEF OpToRel, LessThan
<1>2. PICK i \in S : \A j \in S : ~(<<j, i>> \in LessThan)
  BY <1>1, WFMin
<1>3. ASSUME NEW j \in S PROVE i <= j
  <2>1. i \in Nat /\ j \in Nat
    OBVIOUS
  <2>2. j < i => <<j, i>> \in LessThan
    BY <2>1 DEF LessThan
  <2>3. QED
    BY <1>2, <2>1, <2>2
<1>4. QED
  BY <1>3 DEF Min

LEMMA BaseStep ==
  ASSUME BaseInv, [Next]_vars
  PROVE  BaseInv'
<1>1. CASE UNCHANGED vars
  BY <1>1 DEF vars, disk, tables, BaseInv, CmdTyped, Types, Control, NotesRemain, RowsNumbered,
              LinesRemain, VectorsOfRows
<1>2. SUFFICES ASSUME Next PROVE BaseInv'
  BY <1>1
<1>3. CmdTyped' /\ Control' /\ told' \in [Keys -> Texts \cup {NoText}]
  BY <1>2, CmdKept, ToldKept DEF BaseInv
<1>4. /\ file \in [ToSet(Files) -> Seq(Line)] /\ rows \in Seq(Row)
      /\ recalled \subseteq Nat \ {0} /\ disturbed \in BOOLEAN
      /\ \A f \in ToSet(Files) : file[f] \in Seq(Line) /\ DOMAIN file[f] = 1..Len(file[f]) /\ Len(file[f]) \in Nat
  BY LenProperties DEF BaseInv, Types
\* Steps that leave files and index.
<1>5. ASSUME UNCHANGED <<file, rows, indexed, vectors>>, recalled' \subseteq Nat \ {0}, disturbed' \in BOOLEAN,
             cmd'.at = "sync" => cmd.at = "sync",
             cmd'.at = "forget" => cmd.at \in {"sync", "forget"} \/ file = indexed,
             cmd'.at = "reflect" => (cmd.at = "reflect" /\ cmd' = cmd) \/ cmd'.todo = DOMAIN file["daily"]
      PROVE  BaseInv'
  <2>1. cmd'.at = "reflect" => cmd'.todo \subseteq DOMAIN file'["daily"]
    BY <1>5 DEF BaseInv, NotesRemain
  <2>2. \A f \in ToSet(Files) : Len(file[f]) <= Len(file'[f])
    BY <1>4, <1>5
  <2>3. QED
    BY <2>1, <2>2, <1>3, <1>4, <1>5, IndexLeft
\* Steps that write a file and go on to reindex.
<1>6. ASSUME file' \in [ToSet(Files) -> Seq(Line)], UNCHANGED <<rows, indexed, vectors, recalled, disturbed>>,
             cmd'.at \in {"flush", "rebuild", "append", "rest"}
      PROVE  BaseInv'
  BY <1>3, <1>4, <1>6, IndexLeft
<1>7. CASE \E f \in ToSet(Files) : FlushFile(f)
  <2>1. PICK f \in ToSet(Files) : FlushFile(f)
    BY <1>7
  <2>2. Synced(f) \in Seq(Line)
    BY SyncedTyped DEF BaseInv
  <2>3. /\ file' = [file EXCEPT ![f] = Synced(f)] /\ cmd' = [cmd EXCEPT !.todo = @ \ {f}]
        /\ cmd.at = "flush" /\ UNCHANGED <<rows, indexed, vectors, recalled, disturbed>>
    BY <2>1 DEF FlushFile, tables
  <2>4. file' \in [ToSet(Files) -> Seq(Line)] /\ cmd'.at = "flush"
    BY <1>4, <2>2, <2>3 DEF BaseInv, CmdTyped
  <2>5. QED
    BY <1>6, <2>3, <2>4
<1>8. CASE Rebuild
  <2>1. /\ rows' = AllRows(file) /\ indexed' = file /\ vectors' = <<>> /\ cmd'.at = "sync"
        /\ UNCHANGED <<file, told, recalled, disturbed>>
    BY <1>8 DEF Rebuild, disk, BaseInv, CmdTyped
  <2>2. /\ AllRows(file) \in Seq(Row)
        /\ Len(AllRows(file)) = Len(file["daily"]) + Len(file["bank"])
        /\ \A i \in DOMAIN AllRows(file) :
             AllRows(file)[i] =
               IF i <= Len(file["daily"])
               THEN [file |-> "daily", pos |-> i, line |-> file["daily"][i]]
               ELSE [file |-> "bank", pos |-> i - Len(file["daily"]),
                     line |-> file["bank"][i - Len(file["daily"])]]
    BY <1>4, RowsOfFiles
  <2> DEFINE n == Len(file["daily"])
             m == Len(file["bank"])
  <2>3. n \in Nat /\ m \in Nat /\ DOMAIN file["daily"] = 1..n /\ DOMAIN file["bank"] = 1..m
        /\ DOMAIN AllRows(file) = 1..n + m
    BY <1>4, <2>2, TwoFiles, LenProperties
  <2>4. ASSUME NEW i \in DOMAIN AllRows(file)
        PROVE  /\ i \in 1..n + m
               /\ i <= n => AllRows(file)[i].file = "daily" /\ AllRows(file)[i].pos = i
               /\ ~(i <= n) => AllRows(file)[i].file = "bank" /\ AllRows(file)[i].pos = i - n
    <3>1. AllRows(file)[i] =
             IF i <= n THEN [file |-> "daily", pos |-> i, line |-> file["daily"][i]]
             ELSE [file |-> "bank", pos |-> i - n, line |-> file["bank"][i - n]]
      BY <2>2
    <3> HIDE DEF n
    <3>2. QED
      BY <2>3, <3>1
  <2>5. Types'
    BY <1>3, <1>4, <2>1, <2>2 DEF BaseInv, Types
  <2>6. NotesRemain'
    BY <2>1 DEF NotesRemain
  <2>7. RowsNumbered'
    <3> HIDE DEF n, m
    <3>1. \A i \in DOMAIN AllRows(file) : AllRows(file)[i].pos \in DOMAIN file[AllRows(file)[i].file]
      BY <2>3, <2>4
    <3>2. ASSUME NEW i \in DOMAIN AllRows(file), NEW j \in DOMAIN AllRows(file),
                 AllRows(file)[i].file = AllRows(file)[j].file, AllRows(file)[i].pos = AllRows(file)[j].pos
          PROVE  i = j
      BY <2>3, <2>4, <3>2
    <3>3. QED
      BY <2>1, <3>1, <3>2 DEF RowsNumbered
  <2>8. LinesRemain'
    <3>1. \A f \in ToSet(Files) : Len(file[f]) <= Len(file[f])
      BY <1>4
    <3>2. QED
      BY <2>1, <3>1 DEF LinesRemain
  <2>9. VectorsOfRows'
    <3>1. DOMAIN vectors' = {}
      BY <2>1
    <3>2. QED
      BY <3>1 DEF VectorsOfRows
  <2>10. QED
    BY <1>3, <2>5, <2>6, <2>7, <2>8, <2>9 DEF BaseInv
<1>9. CASE FlushEnds
  <2>1. cmd'.at = "rest" /\ UNCHANGED <<file, rows, indexed, vectors, recalled, disturbed>>
    BY <1>9 DEF FlushEnds, disk, tables, Rest
  <2>2. QED
    BY <1>4, <1>5, <2>1
<1>10. CASE SyncVectors
  <2>1. /\ UNCHANGED <<file, rows, indexed, recalled, disturbed>>
        /\ DOMAIN vectors' = DOMAIN rows /\ cmd.at = "sync" /\ Return(TRUE)
    BY <1>10 DEF SyncVectors
  <2>2. cmd'.at \in {"rest", "capture", "slot", "search", "forget"}
    BY <2>1, ReturnCmd, Zenon DEF BaseInv
  <2>3. Types'
    BY <1>3, <2>1 DEF BaseInv, Types
  <2>4. NotesRemain' /\ RowsNumbered' /\ LinesRemain'
    BY <2>1, <2>2 DEF BaseInv, NotesRemain, RowsNumbered, LinesRemain
  <2>5. VectorsOfRows'
    BY <2>1, <2>2 DEF VectorsOfRows
  <2>6. QED
    BY <1>3, <2>3, <2>4, <2>5 DEF BaseInv
<1>11. CASE SyncFails
  <2>1. /\ UNCHANGED <<file, rows, indexed, vectors, recalled, disturbed>>
        /\ cmd.at = "sync" /\ Return(FALSE)
    BY <1>11 DEF SyncFails
  <2>2. cmd'.at \in {"rest", "capture", "slot", "search", "forget"}
    BY <2>1, ReturnCmd, Zenon DEF BaseInv
  <2>3. QED
    BY <1>4, <1>5, <2>1, <2>2
<1>12. CASE SlotHolds
  <2>1. Stored /\ UNCHANGED <<file, rows, indexed, vectors, recalled, disturbed>>
    BY <1>12 DEF SlotHolds, disk, tables
  <2>2. cmd'.at \in {"rest", "capture"}
    BY <2>1, StoredCmd DEF BaseInv
  <2>3. QED
    BY <1>4, <1>5, <2>1, <2>2
<1>13. CASE Supersede
  <2>1. /\ \E f, n : file' = Forgotten(f, n, FALSE)
        /\ cmd'.at = "append" /\ UNCHANGED <<rows, indexed, vectors, recalled, disturbed>>
    BY <1>13 DEF Supersede, tables, BaseInv, CmdTyped
  <2>2. file' \in [ToSet(Files) -> Seq(Line)]
    <3>1. PICK f, n, hard : ~hard /\ file' = Forgotten(f, n, hard)
      BY <2>1
    <3>2. QED
      BY <1>4, <3>1, MarkedFile
  <2>3. QED
    BY <1>6, <2>1, <2>2
<1>14. CASE Duplicate
  <2>1. Stored /\ UNCHANGED <<file, rows, indexed, vectors, recalled, disturbed>>
    BY <1>14 DEF Duplicate, disk, tables
  <2>2. cmd'.at \in {"rest", "capture"}
    BY <2>1, StoredCmd DEF BaseInv
  <2>3. QED
    BY <1>4, <1>5, <2>1, <2>2
<1>15. CASE AppendEntry
  <2>1. /\ file' = AppendUnique(Fresh(cmd.text, KeyOf[cmd.text])) /\ cmd.at \in {"slot", "append"}
        /\ cmd'.at \in {"flush", "rebuild"} /\ UNCHANGED <<rows, indexed, vectors, recalled, disturbed>>
    BY <1>15 DEF AppendEntry, SlotFree, ReindexQuietly, Reindex, Rest, tables
  <2>2. Fresh(cmd.text, KeyOf[cmd.text]) \in Line
    BY <2>1, KeyTyped, FreshTyped DEF BaseInv, Control
  <2>3. file' \in [ToSet(Files) -> Seq(Line)]
    BY <1>4, <2>1, <2>2, AppendedFile
  <2>4. QED
    BY <1>6, <2>1, <2>3
<1>16. CASE \E hard \in BOOLEAN : ForgetHit(hard)
  <2>1. PICK hard \in BOOLEAN : ForgetHit(hard)
    BY <1>16
  <2>2. CASE \E i \in DOMAIN rows : file' = Forgotten(rows[i].file, rows[i].pos, hard)
                                   /\ ReindexQuietly("forgotten", NoText)
    <3>1. PICK i \in DOMAIN rows : file' = Forgotten(rows[i].file, rows[i].pos, hard)
                                   /\ ReindexQuietly("forgotten", NoText)
      BY <2>2
    <3>2. cmd.at = "forget" /\ UNCHANGED <<rows, indexed, vectors, recalled, disturbed>>
      BY <2>1 DEF ForgetHit, tables
    <3>3. cmd'.at = "rebuild"
      BY <3>1 DEF ReindexQuietly, Reindex, Rest
    <3>4. rows[i].file \in ToSet(Files) /\ rows[i].pos \in 1..Len(file[rows[i].file])
      <4>1. rows[i].file \in ToSet(Files)
        <5>1. rows[i] \in Row
          BY <1>4, ElementOfSeq, LenProperties
        <5>2. QED
          BY <5>1 DEF Row
      <4>2. rows[i].pos \in 1..Len(indexed[rows[i].file]) /\ Len(indexed[rows[i].file]) \in Nat
        BY <4>1, LenProperties DEF BaseInv, RowsNumbered, Types
      <4>3. Len(indexed[rows[i].file]) <= Len(file[rows[i].file])
        BY <3>2, <4>1 DEF BaseInv, LinesRemain
      <4>4. QED
        BY <1>4, <4>1, <4>2, <4>3
    <3>5. file' \in [ToSet(Files) -> Seq(Line)]
      <4>1. CASE hard
        <5>1. Forgotten(rows[i].file, rows[i].pos, TRUE) \in [ToSet(Files) -> Seq(Line)]
          BY <1>4, <3>4, RemovedFile
        <5>2. QED
          BY <3>1, <4>1, <5>1 DEF Forgotten
      <4>2. CASE ~hard
        <5>1. Forgotten(rows[i].file, rows[i].pos, hard) \in [ToSet(Files) -> Seq(Line)]
          BY <1>4, <4>2, MarkedFile
        <5>2. QED
          BY <3>1, <5>1
      <4>3. QED
        BY <4>1, <4>2
    <3>6. QED
      BY <1>6, <3>2, <3>3, <3>5
  <2>3. CASE UNCHANGED <<file, told>> /\ cmd' = Rest
    <3>1. cmd'.at = "rest"
      BY <2>3 DEF Rest
    <3>2. QED
      BY <1>4, <1>5, <2>1, <2>3, <3>1 DEF ForgetHit, tables
  <2>4. QED
    BY <2>1, <2>2, <2>3, Zenon DEF ForgetHit
<1>17. CASE Promote
  <2>1. cmd.at = "reflect" /\ UNCHANGED <<rows, indexed, vectors, recalled, disturbed>>
    BY <1>17 DEF Promote, tables
  <2>2. CASE cmd.todo = {}
    <3>1. file' = file /\ cmd'.at = "flush"
      BY <1>17, <2>2 DEF Promote, Reindex, Rest
    <3>2. QED
      BY <1>4, <1>6, <2>1, <3>1
  <2>3. CASE cmd.todo # {}
    <3>1. /\ file' = AppendUnique(file["daily"][Min(cmd.todo)])
          /\ cmd' = [cmd EXCEPT !.todo = @ \ {Min(@)}]
      BY <1>17, <2>3 DEF Promote
    <3>2. cmd.todo \subseteq DOMAIN file["daily"]
      BY <2>1 DEF BaseInv, NotesRemain
    <3>3. Min(cmd.todo) \in DOMAIN file["daily"]
      BY <1>4, <2>3, <3>2, LeastOf, TwoFiles
    <3>4. file["daily"][Min(cmd.todo)] \in Line
      BY <1>4, <3>3, ElementOfSeq, TwoFiles
    <3>5. file' \in [ToSet(Files) -> Seq(Line)] /\ file'["daily"] = file["daily"]
      BY <1>4, <3>1, <3>4, AppendedFile
    <3>6. cmd'.at = "reflect" /\ cmd'.todo \subseteq cmd.todo
      BY <2>1, <3>1 DEF BaseInv, CmdTyped
    <3>7. QED
      BY <1>3, <1>4, <2>1, <3>2, <3>5, <3>6, IndexLeft
  <2>4. QED
    BY <2>2, <2>3
<1>18. CASE Recall
  <2>1. /\ UNCHANGED <<file, rows, indexed, vectors, disturbed>>
        /\ recalled' \in {{}} \cup {{i} : i \in {j \in DOMAIN rows : ~rows[j].line.dead}} /\ cmd'.at = "rest"
    BY <1>18 DEF Recall, disk, tables, Rest
  <2>2. DOMAIN rows \subseteq Nat \ {0}
    BY <1>4, LenProperties
  <2>3. recalled' \subseteq Nat \ {0}
    BY <2>1, <2>2
  <2>4. QED
    BY <1>4, <1>5, <2>1, <2>3
<1>19. CASE StoreCandidate
  <2>1. cmd'.at \in {"flush", "slot"} /\ UNCHANGED <<file, rows, indexed, vectors, recalled, disturbed>>
    BY <1>19 DEF StoreCandidate, BeginStore, disk, tables, Rest
  <2>2. QED
    BY <1>4, <1>5, <2>1
<1>20. CASE \E t \in Texts : Store(t)
  <2>1. cmd'.at \in {"flush", "slot"} /\ UNCHANGED <<file, rows, indexed, vectors, recalled, disturbed>>
    BY <1>20 DEF Store, BeginStore, disk, tables, Rest
  <2>2. QED
    BY <1>4, <1>5, <2>1
<1>21. CASE \E candidates \in Captures : Capture(candidates)
  <2>1. cmd'.at = "capture" /\ UNCHANGED <<file, rows, indexed, vectors, recalled, disturbed>>
    BY <1>21 DEF Capture, disk, tables, Rest
  <2>2. QED
    BY <1>4, <1>5, <2>1
<1>22. CASE \E t \in Texts, hard \in BOOLEAN : ForgetText(t, hard)
  <2>1. PICK t \in Texts, hard \in BOOLEAN : ForgetText(t, hard)
    BY <1>22
  <2> DEFINE found == {i \in DOMAIN file["bank"] : file["bank"][i].text = t}
  <2>2. /\ found # {} /\ UNCHANGED <<rows, indexed, vectors, recalled, disturbed>>
        /\ cmd'.at = "rebuild"
    BY <2>1 DEF ForgetText, tables, ReindexQuietly, Reindex, Rest
  <2>3. file' = Forgotten("bank", Min(found), hard)
    BY <2>1 DEF ForgetText
  <2>4. Min(found) \in 1..Len(file["bank"])
    <3>1. found \in SUBSET Nat
      BY <1>4, TwoFiles
    <3>3. Min(found) \in found
      <4> HIDE DEF found
      <4>1. QED
        BY <3>1, <2>2, LeastOf
    <3>2. QED
      BY <1>4, <3>3, TwoFiles
  <2> HIDE DEF found
  <2>5. file' \in [ToSet(Files) -> Seq(Line)]
    <3>1. CASE hard
      <4>1. Forgotten("bank", Min(found), TRUE) \in [ToSet(Files) -> Seq(Line)]
        BY <1>4, <2>4, RemovedFile, TwoFiles
      <4>2. QED
        BY <2>3, <3>1, <4>1 DEF Forgotten
    <3>2. CASE ~hard
      <4>1. Forgotten("bank", Min(found), hard) \in [ToSet(Files) -> Seq(Line)]
        BY <1>4, <3>2, MarkedFile
      <4>2. QED
        BY <2>3, <4>1
    <3>3. QED
      BY <3>1, <3>2
  <2>6. QED
    BY <1>6, <2>2, <2>5
<1>23. CASE \E f \in ToSet(Files), t, u \in Texts : Update(f, t, u)
  <2>1. PICK f \in ToSet(Files), t \in Texts, u \in Texts : Update(f, t, u)
    BY <1>23
  <2>2. PICK some : file' = Replaced(f, some, u)
    BY <2>1 DEF Update, Replaced
  <2>3. cmd'.at = "rebuild" /\ UNCHANGED <<rows, indexed, vectors, recalled, disturbed>>
    BY <2>1 DEF Update, tables, ReindexQuietly, Reindex, Rest
  <2>4. file' \in [ToSet(Files) -> Seq(Line)]
    BY <1>4, <2>2, UpdatedFile
  <2>5. QED
    BY <1>6, <2>3, <2>4
<1>24. CASE ForgetQuery
  <2>1. cmd'.at \in {"flush", "forget"} /\ (cmd'.at = "forget" => ~IsDirty)
        /\ UNCHANGED <<file, rows, indexed, vectors, recalled, disturbed>>
    BY <1>24 DEF ForgetQuery, Reindex, disk, tables, Rest
  <2>2. cmd'.at = "forget" => file = indexed
    BY <2>1 DEF IsDirty
  <2>3. QED
    BY <1>4, <1>5, <2>1, <2>2
<1>25. CASE Reflect
  <2>1. cmd'.todo = DOMAIN file["daily"] /\ cmd'.at = "reflect"
        /\ UNCHANGED <<file, rows, indexed, vectors, recalled, disturbed>>
    BY <1>25 DEF Reflect, disk, tables, Rest
  <2>2. QED
    BY <1>4, <1>5, <2>1
<1>26. CASE FlushMetadata
  <2>1. cmd'.at = "flush" /\ UNCHANGED <<file, rows, indexed, vectors, recalled, disturbed>>
    BY <1>26 DEF FlushMetadata, disk, tables, Rest
  <2>2. QED
    BY <1>4, <1>5, <2>1
<1>27. CASE Search
  <2>1. cmd'.at \in {"flush", "search"} /\ UNCHANGED <<file, rows, indexed, vectors, recalled, disturbed>>
    BY <1>27 DEF Search, Reindex, disk, tables, Rest
  <2>2. QED
    BY <1>4, <1>5, <2>1
<1>28. CASE Record
  <2>1. /\ UNCHANGED <<file, indexed, vectors, cmd, disturbed>> /\ recalled' = {}
        /\ DOMAIN rows' = DOMAIN rows
    BY <1>28 DEF Record, disk
  <2>2. rows' \in Seq(Row) /\ \A i \in DOMAIN rows : rows'[i].file = rows[i].file /\ rows'[i].pos = rows[i].pos
    BY <1>4, <1>28, FeedbackRows
  <2>3. Types'
    BY <1>3, <2>1, <2>2 DEF BaseInv, Types
  <2>4. NotesRemain' /\ LinesRemain' /\ VectorsOfRows'
    BY <2>1 DEF BaseInv, NotesRemain, LinesRemain, VectorsOfRows
  <2>5. RowsNumbered'
    BY <2>1, <2>2 DEF BaseInv, RowsNumbered
  <2>6. QED
    BY <1>3, <2>3, <2>4, <2>5 DEF BaseInv
<1>29. CASE Kill
  <2>1. cmd'.at = "rest" /\ UNCHANGED <<file, rows, indexed, vectors, recalled>> /\ disturbed' \in BOOLEAN
    BY <1>29 DEF Kill, disk, tables, Rest
  <2>2. QED
    BY <1>4, <1>5, <2>1
<1>30. CASE \E f \in ToSet(Files) : Edit(f)
  <2>1. PICK f \in ToSet(Files) : Edit(f)
    BY <1>30
  <2>2. UNCHANGED <<rows, indexed, vectors, cmd, recalled>> /\ disturbed' = TRUE
    BY <2>1 DEF Edit, tables
  <2>3. /\ file' \in [ToSet(Files) -> Seq(Line)]
        /\ \A g \in ToSet(Files) : Len(file[g]) <= Len(file'[g])
    BY <2>1, EditedFile
  <2>4. DOMAIN file["daily"] \subseteq DOMAIN file'["daily"]
    <3>1. file'["daily"] \in Seq(Line) /\ Len(file["daily"]) <= Len(file'["daily"])
      BY <2>3, TwoFiles
    <3>2. DOMAIN file'["daily"] = 1..Len(file'["daily"]) /\ Len(file'["daily"]) \in Nat
      BY <3>1, LenProperties
    <3>3. QED
      BY <1>4, <3>1, <3>2, TwoFiles
  <2>5. cmd'.at = "reflect" => cmd'.todo \subseteq DOMAIN file'["daily"]
    BY <2>2, <2>4 DEF BaseInv, NotesRemain
  <2>6. QED
    BY <1>3, <1>4, <2>2, <2>3, <2>5, IndexLeft
<1>31. QED
  BY <1>2, <1>7, <1>8, <1>9, <1>10, <1>11, <1>12, <1>13, <1>14, <1>15, <1>16, <1>17, <1>18, <1>19, <1>20, <1>21, <1>22, <1>23, <1>24, <1>25, <1>26, <1>27, <1>28, <1>29, <1>30 DEF Next, Continue

LEMMA InitBase ==
  ASSUME Init
  PROVE  BaseInv
<1>1. <<>> \in Seq(Line) /\ <<>> \in Seq(Row) /\ <<>> \in Seq(Texts) /\ DOMAIN <<>> = {}
  BY EmptySeq
<1>2. file \in [ToSet(Files) -> Seq(Line)]
  BY <1>1, HypermemoryAssumption DEF Init
<1>3. Types
  BY <1>1, <1>2 DEF Init, Types
<1>4. cmd = [at |-> "rest", then |-> "rest", text |-> NoText, more |-> <<>>, todo |-> {}, stale |-> {}]
  BY DEF Init, Rest
<1>5. CmdTyped /\ Control
  BY <1>1, <1>4 DEF CmdTyped, Control, Ats, Thens
<1>6. NotesRemain /\ LinesRemain
  BY <1>4 DEF NotesRemain, LinesRemain
<1>7. RowsNumbered /\ VectorsOfRows
  BY <1>1, <1>4 DEF Init, RowsNumbered, VectorsOfRows
<1>8. QED
  BY <1>3, <1>5, <1>6, <1>7 DEF BaseInv

LEMMA AlwaysBase == Spec => []BaseInv
<1>1. Init => BaseInv
  BY InitBase
<1>2. BaseInv /\ [Next]_vars => BaseInv'
  BY BaseStep
<1>3. QED
  BY <1>1, <1>2, PTL DEF Spec

\* Every state is well typed: files, rows and documents hold lines, a vector_items
\* entry belongs to a row, and what was told of a key is a text.
THEOREM TypesHold == Spec => []TypeOK
<1>1. BaseInv => TypeOK
  BY DEF BaseInv, Types, VectorsOfRows, TypeOK, Row
<1>2. QED
  BY <1>1, AlwaysBase, PTL

-------------------------------------------------------------------------------
(* vector_items and the collection.                                         *)

LEMMA TruthStep ==
  ASSUME BaseInv, VectorsTellTruth, [Next]_vars
  PROVE  VectorsTellTruth'
<1>1. CASE Rebuild
  <2>1. DOMAIN vectors' = {}
    BY <1>1 DEF Rebuild
  <2>2. QED
    BY <2>1 DEF VectorsTellTruth
<1>2. CASE SyncVectors
  <2>1. rows' = rows /\ vectors' = [i \in DOMAIN rows |-> PointId(rows[i])]
    BY <1>2 DEF SyncVectors
  <2>2. ASSUME NEW i \in DOMAIN rows
        PROVE  <<PointId(rows[i]), i>> \in points'
    <3>1. rows # <<>>
      BY <2>2
    <3>2. points' = {p \in Upserted(PointIds) : p[1] \notin StalePoints}
      BY <1>2, <3>1 DEF SyncVectors
    <3>3. PointId(rows[i]) \in PointIds
      BY <2>2 DEF PointIds
    <3>4. <<PointId(rows[i]), i>> \in Upserted(PointIds)
      BY <2>2, <3>3 DEF Upserted
    <3>5. PointId(rows[i]) \notin StalePoints
      BY <3>3 DEF StalePoints
    <3>6. QED
      BY <3>2, <3>4, <3>5
  <2>3. \A i \in DOMAIN rows : PointId(rows[i])[3] = rows[i].line
    BY DEF PointId
  <2>4. QED
    BY <2>1, <2>2, <2>3 DEF VectorsTellTruth
<1>3. CASE SyncFails
  <2>1. vectors' = vectors /\ DOMAIN vectors = {}
    BY <1>3 DEF SyncFails, BaseInv, VectorsOfRows
  <2>2. QED
    BY <2>1 DEF VectorsTellTruth
<1>4. CASE Record
  <2>1. UNCHANGED <<vectors, points>>
    BY <1>4 DEF Record, disk
  <2>2. \A i \in DOMAIN rows : [rows'[i].line EXCEPT !.hits = 0] = [rows[i].line EXCEPT !.hits = 0]
    BY <1>4, FeedbackRows DEF BaseInv, Types
  <2>3. DOMAIN vectors \subseteq DOMAIN rows
    BY DEF BaseInv, VectorsOfRows
  <2>4. QED
    BY <2>1, <2>2, <2>3 DEF VectorsTellTruth
<1>5. CASE UNCHANGED <<rows, vectors, points>>
  BY <1>5 DEF VectorsTellTruth
<1>6. CASE \E f \in ToSet(Files) : FlushFile(f)
  BY <1>5, <1>6 DEF FlushFile, disk, tables
<1>7. CASE FlushEnds
  BY <1>5, <1>7 DEF FlushEnds, disk, tables
<1>8. CASE SlotHolds
  BY <1>5, <1>8 DEF SlotHolds, disk, tables
<1>9. CASE Supersede
  BY <1>5, <1>9 DEF Supersede, disk, tables
<1>10. CASE Duplicate
  BY <1>5, <1>10 DEF Duplicate, disk, tables
<1>11. CASE AppendEntry
  BY <1>5, <1>11 DEF AppendEntry, disk, tables
<1>12. CASE \E hard \in BOOLEAN : ForgetHit(hard)
  BY <1>5, <1>12 DEF ForgetHit, disk, tables
<1>13. CASE Promote
  BY <1>5, <1>13 DEF Promote, disk, tables
<1>14. CASE Recall
  BY <1>5, <1>14 DEF Recall, disk, tables
<1>15. CASE StoreCandidate
  BY <1>5, <1>15 DEF StoreCandidate, disk, tables
<1>16. CASE \E t \in Texts : Store(t)
  BY <1>5, <1>16 DEF Store, disk, tables
<1>17. CASE \E candidates \in Captures : Capture(candidates)
  BY <1>5, <1>17 DEF Capture, disk, tables
<1>18. CASE \E t \in Texts, hard \in BOOLEAN : ForgetText(t, hard)
  BY <1>5, <1>18 DEF ForgetText, disk, tables
<1>19. CASE \E f \in ToSet(Files), t, u \in Texts : Update(f, t, u)
  BY <1>5, <1>19 DEF Update, disk, tables
<1>20. CASE ForgetQuery
  BY <1>5, <1>20 DEF ForgetQuery, disk, tables
<1>21. CASE Reflect
  BY <1>5, <1>21 DEF Reflect, disk, tables
<1>22. CASE FlushMetadata
  BY <1>5, <1>22 DEF FlushMetadata, disk, tables
<1>23. CASE Search
  BY <1>5, <1>23 DEF Search, disk, tables
<1>24. CASE Kill
  BY <1>5, <1>24 DEF Kill, disk, tables
<1>25. CASE \E f \in ToSet(Files) : Edit(f)
  BY <1>5, <1>25 DEF Edit, disk, tables
<1>26. CASE UNCHANGED vars
  BY <1>5, <1>26 DEF vars, disk, tables
<1>27. QED
  BY <1>1, <1>2, <1>3, <1>4, <1>6, <1>7, <1>8, <1>9, <1>10, <1>11, <1>12, <1>13, <1>14, <1>15, <1>16, <1>17, <1>18, <1>19, <1>20, <1>21, <1>22, <1>23, <1>24, <1>25, <1>26 DEF Next, Continue

\* Whatever command is killed and whichever part of a sync fails, a row that has
\* a vector_items entry has its point in the collection, under its own id.
THEOREM VectorsBelongToRows == Spec => []VectorsTellTruth
<1>1. Init => VectorsTellTruth
  <2>1. Init => DOMAIN vectors = {}
    BY DEF Init
  <2>2. QED
    BY <2>1 DEF VectorsTellTruth
<1>2. BaseInv /\ VectorsTellTruth /\ [Next]_vars => VectorsTellTruth'
  BY TruthStep
<1>3. QED
  BY <1>1, <1>2, AlwaysBase, PTL DEF Spec

-------------------------------------------------------------------------------
(* What a line says and what its row says.                                  *)

SameFact(l, m) == l.text = m.text /\ l.key = m.key /\ l.dead = m.dead

\* A row says what its line says, feedback aside, except between a write that
\* moves or changes lines and the rebuild that follows it.
RowsAgree ==
  ~disturbed /\ cmd.at \notin {"append", "rebuild"} =>
    \A i \in DOMAIN rows :
      /\ rows[i].pos \in DOMAIN file[rows[i].file]
      /\ SameFact(rows[i].line, file[rows[i].file][rows[i].pos])

\* While the rows agree a flush changes neither text nor key nor validity.
LEMMA FlushSame ==
  ASSUME BaseInv, RowsAgree, ~disturbed, cmd.at = "flush", NEW f \in ToSet(Files),
         NEW i \in DOMAIN file[f]
  PROVE  SameFact(Synced(f)[i], file[f][i])
<1>1. \A r \in ToSet(rows) : r \in Row
  BY ElementOfSeq, LenProperties DEF BaseInv, Types, ToSet
<1>2. CASE \E r \in ToSet(rows) : r.file = f /\ r.pos = i
  <2> DEFINE r == CHOOSE r \in ToSet(rows) : r.file = f /\ r.pos = i
  <2>1. r \in ToSet(rows) /\ r.file = f /\ r.pos = i
    BY <1>2
  <2>2. Synced(f)[i] = [r.line EXCEPT !.text = file[f][i].text]
    BY <1>2 DEF Synced
  <2> HIDE DEF r
  <2>3. PICK j \in DOMAIN rows : r = rows[j]
    BY <2>1 DEF ToSet
  <2>4. SameFact(r.line, file[f][i])
    BY <2>1, <2>3 DEF RowsAgree
  <2>5. r.line \in Line
    BY <1>1, <2>1 DEF Row
  <2>6. QED
    BY <2>2, <2>4, <2>5 DEF SameFact, Line
<1>3. CASE ~(\E r \in ToSet(rows) : r.file = f /\ r.pos = i)
  <2>1. Synced(f)[i] = file[f][i]
    BY <1>3 DEF Synced
  <2>2. QED
    BY <2>1 DEF SameFact
<1>4. QED
  BY <1>2, <1>3

LEMMA AppendKeeps ==
  ASSUME file \in [ToSet(Files) -> Seq(Line)], NEW l \in Line, NEW f \in ToSet(Files),
         NEW i \in DOMAIN file[f]
  PROVE  i \in DOMAIN AppendUnique(l)[f] /\ AppendUnique(l)[f][i] = file[f][i]
<1>1. CASE f = "daily"
  BY <1>1, AppendedFile
<1>2. CASE f = "bank"
  <2>1. CASE Present(l, file["bank"])
    BY <1>2, <2>1, AppendedFile
  <2>2. CASE ~Present(l, file["bank"])
    <3>1. /\ AppendUnique(l)["bank"] \in Seq(Line) /\ file["bank"] \in Seq(Line)
          /\ Len(AppendUnique(l)["bank"]) = Len(file["bank"]) + 1
          /\ \A j \in 1..Len(file["bank"]) : AppendUnique(l)["bank"][j] = file["bank"][j]
      BY <2>2, AppendedFile, TwoFiles
    <3>2. DOMAIN AppendUnique(l)["bank"] = 1..Len(file["bank"]) + 1 /\ DOMAIN file["bank"] = 1..Len(file["bank"])
          /\ Len(file["bank"]) \in Nat
      BY <3>1, LenProperties
    <3>3. QED
      BY <1>2, <3>1, <3>2
  <2>3. QED
    BY <2>1, <2>2
<1>3. QED
  BY <1>1, <1>2, TwoFiles

LEMMA PromotedLine ==
  ASSUME BaseInv, cmd.at = "reflect", cmd.todo # {}
  PROVE  Min(cmd.todo) \in DOMAIN file["daily"] /\ file["daily"][Min(cmd.todo)] \in Line
<1>1. file["daily"] \in Seq(Line) /\ DOMAIN file["daily"] = 1..Len(file["daily"]) /\ Len(file["daily"]) \in Nat
  BY TwoFiles, LenProperties DEF BaseInv, Types
<1>2. cmd.todo \subseteq DOMAIN file["daily"]
  BY DEF BaseInv, NotesRemain
<1>3. Min(cmd.todo) \in DOMAIN file["daily"]
  BY <1>1, <1>2, LeastOf
<1>4. QED
  BY <1>1, <1>3, ElementOfSeq

\* A rebuilt row says what its line says.
LEMMA RowsSayLines ==
  ASSUME file \in [ToSet(Files) -> Seq(Line)], NEW i \in DOMAIN AllRows(file)
  PROVE  /\ AllRows(file)[i].pos \in DOMAIN file[AllRows(file)[i].file]
         /\ AllRows(file)[i].line = file[AllRows(file)[i].file][AllRows(file)[i].pos]
<1> DEFINE n == Len(file["daily"])
           m == Len(file["bank"])
<1>1. /\ AllRows(file)[i] =
           IF i <= n THEN [file |-> "daily", pos |-> i, line |-> file["daily"][i]]
           ELSE [file |-> "bank", pos |-> i - n, line |-> file["bank"][i - n]]
      /\ AllRows(file) \in Seq(Row) /\ Len(AllRows(file)) = n + m
  BY RowsOfFiles
<1>2. n \in Nat /\ m \in Nat /\ DOMAIN file["daily"] = 1..n /\ DOMAIN file["bank"] = 1..m
  BY LenProperties, TwoFiles
<1>3. i \in 1..n + m
  BY <1>1, LenProperties
<1> HIDE DEF n, m
<1>4. CASE i <= n
  BY <1>1, <1>2, <1>3, <1>4
<1>5. CASE ~(i <= n)
  <2>1. i - n \in 1..m
    BY <1>2, <1>3, <1>5
  <2>2. QED
    BY <1>1, <1>2, <1>5, <2>1
<1>6. QED
  BY <1>4, <1>5

\* A step that leaves the rows and says no other thing in any line.
LEMMA AgreeKept ==
  ASSUME BaseInv, RowsAgree, UNCHANGED <<rows, disturbed>>,
         cmd.at \in {"append", "rebuild"} => cmd'.at \in {"append", "rebuild"},
         \A f \in ToSet(Files) : \A i \in DOMAIN file[f] :
           i \in DOMAIN file'[f] /\ SameFact(file'[f][i], file[f][i])
  PROVE  RowsAgree'
<1>1. ASSUME NEW i \in DOMAIN rows, ~disturbed, cmd'.at \notin {"append", "rebuild"}
      PROVE  /\ rows[i].pos \in DOMAIN file'[rows[i].file]
             /\ SameFact(rows[i].line, file'[rows[i].file][rows[i].pos])
  <2>1. /\ rows[i].pos \in DOMAIN file[rows[i].file]
        /\ SameFact(rows[i].line, file[rows[i].file][rows[i].pos])
    BY <1>1 DEF RowsAgree
  <2>2. rows[i] \in Row
    BY ElementOfSeq, LenProperties DEF BaseInv, Types
  <2>3. rows[i].file \in ToSet(Files)
    BY <2>2 DEF Row
  <2>4. QED
    BY <2>1, <2>3 DEF SameFact
<1>2. QED
  BY <1>1 DEF RowsAgree, SameFact

LEMMA AgreeStep ==
  ASSUME BaseInv, RowsAgree, [Next]_vars
  PROVE  RowsAgree'
<1>1. CASE disturbed'
  BY <1>1 DEF RowsAgree
<1>2. CASE cmd'.at \in {"append", "rebuild"}
  BY <1>2 DEF RowsAgree
<1>3. ASSUME UNCHANGED <<file, rows, disturbed>>,
             cmd.at \in {"append", "rebuild"} => cmd'.at \in {"append", "rebuild"}
      PROVE  RowsAgree'
  BY <1>3, AgreeKept DEF SameFact
<1>4. ASSUME UNCHANGED <<rows, disturbed>>, cmd.at \notin {"append", "rebuild"},
             NEW l \in Line, file' = AppendUnique(l)
      PROVE  RowsAgree'
  <2>1. \A f \in ToSet(Files) : \A i \in DOMAIN file[f] :
           i \in DOMAIN file'[f] /\ SameFact(file'[f][i], file[f][i])
    BY <1>4, AppendKeeps DEF SameFact, BaseInv, Types
  <2>2. QED
    BY <1>4, <2>1, AgreeKept
<1>5. CASE \E f \in ToSet(Files) : FlushFile(f)
  <2>1. PICK f \in ToSet(Files) : FlushFile(f)
    BY <1>5
  <2>2. cmd.at = "flush" /\ file' = [file EXCEPT ![f] = Synced(f)] /\ UNCHANGED <<rows, disturbed>>
    BY <2>1 DEF FlushFile, tables
  <2>3. CASE ~disturbed
    <3>1. \A i \in DOMAIN file[f] : SameFact(Synced(f)[i], file[f][i])
      BY <2>2, <2>3, FlushSame
    <3>2. DOMAIN Synced(f) = DOMAIN file[f]
      BY SyncedTyped DEF BaseInv
    <3>3. \A g \in ToSet(Files) : \A i \in DOMAIN file[g] :
            i \in DOMAIN file'[g] /\ SameFact(file'[g][i], file[g][i])
      BY <2>2, <3>1, <3>2 DEF SameFact, BaseInv, Types
    <3>4. QED
      BY <2>2, <3>3, AgreeKept
  <2>4. QED
    BY <1>1, <2>2, <2>3
<1>6. CASE Rebuild
  <2>1. rows' = AllRows(file) /\ file' = file
    BY <1>6 DEF Rebuild, disk
  <2>2. file \in [ToSet(Files) -> Seq(Line)]
    BY DEF BaseInv, Types
  <2>3. \A i \in DOMAIN AllRows(file) :
          /\ AllRows(file)[i].pos \in DOMAIN file[AllRows(file)[i].file]
          /\ AllRows(file)[i].line = file[AllRows(file)[i].file][AllRows(file)[i].pos]
    BY <2>2, RowsSayLines
  <2>4. QED
    BY <2>1, <2>3 DEF RowsAgree, SameFact
<1>7. CASE FlushEnds
  BY <1>3, <1>7 DEF FlushEnds, disk, tables
<1>8. CASE SyncVectors
  BY <1>3, <1>8 DEF SyncVectors, disk, tables
<1>9. CASE SyncFails
  BY <1>3, <1>9 DEF SyncFails, disk, tables
<1>10. CASE SlotHolds
  BY <1>3, <1>10 DEF SlotHolds, disk, tables
<1>11. CASE Supersede
  <2>1. cmd'.at = "append"
    BY <1>11 DEF Supersede, BaseInv, CmdTyped
  <2>2. QED
    BY <1>2, <2>1
<1>12. CASE Duplicate
  BY <1>3, <1>12 DEF Duplicate, SlotFree, disk, tables
<1>13. CASE AppendEntry
  <2>1. CASE cmd.then = "superseded"
    <3>1. cmd'.at = "rebuild"
      BY <1>13, <2>1 DEF AppendEntry, ReindexQuietly, Reindex, Rest
    <3>2. QED
      BY <1>2, <3>1
  <2>2. CASE cmd.then # "superseded"
    <3>1. cmd.at = "slot" /\ cmd.text \in Texts
      BY <1>13, <2>2 DEF AppendEntry, SlotFree, BaseInv, Control
    <3>2. Fresh(cmd.text, KeyOf[cmd.text]) \in Line
      BY <3>1, KeyTyped, FreshTyped
    <3>3. file' = AppendUnique(Fresh(cmd.text, KeyOf[cmd.text])) /\ UNCHANGED <<rows, disturbed>>
      BY <1>13 DEF AppendEntry, tables
    <3>4. QED
      BY <1>4, <3>1, <3>2, <3>3
  <2>3. QED
    BY <2>1, <2>2
<1>14. CASE \E hard \in BOOLEAN : ForgetHit(hard)
  <2>1. CASE cmd'.at = "rebuild"
    BY <1>2, <2>1
  <2>2. CASE cmd'.at # "rebuild"
    <3>1. cmd.at = "forget" /\ UNCHANGED <<file, rows, disturbed>>
      BY <1>14, <2>2 DEF ForgetHit, tables, ReindexQuietly, Reindex, Rest
    <3>2. QED
      BY <1>3, <3>1
  <2>3. QED
    BY <2>1, <2>2
<1>15. CASE Promote
  <2>1. cmd.at = "reflect" /\ UNCHANGED <<rows, disturbed>>
    BY <1>15 DEF Promote, tables
  <2>2. CASE cmd.todo = {}
    BY <1>3, <1>15, <2>1, <2>2 DEF Promote
  <2>3. CASE cmd.todo # {}
    <3>1. file' = AppendUnique(file["daily"][Min(cmd.todo)])
      BY <1>15, <2>3 DEF Promote
    <3>2. file["daily"][Min(cmd.todo)] \in Line
      BY <2>1, <2>3, PromotedLine
    <3>3. QED
      BY <1>4, <2>1, <3>1, <3>2
  <2>4. QED
    BY <2>2, <2>3
<1>16. CASE Recall
  BY <1>3, <1>16 DEF Recall, disk, tables
<1>17. CASE StoreCandidate
  BY <1>3, <1>17 DEF StoreCandidate, disk, tables
<1>18. CASE \E t \in Texts : Store(t)
  BY <1>3, <1>18 DEF Store, Command, disk, tables
<1>19. CASE \E candidates \in Captures : Capture(candidates)
  BY <1>3, <1>19 DEF Capture, Command, disk, tables
<1>20. CASE \E t \in Texts, hard \in BOOLEAN : ForgetText(t, hard)
  <2>1. cmd'.at = "rebuild"
    BY <1>20 DEF ForgetText, ReindexQuietly, Reindex, Rest
  <2>2. QED
    BY <1>2, <2>1
<1>21. CASE \E f \in ToSet(Files), t, u \in Texts : Update(f, t, u)
  <2>1. cmd'.at = "rebuild"
    BY <1>21 DEF Update, ReindexQuietly, Reindex, Rest
  <2>2. QED
    BY <1>2, <2>1
<1>22. CASE ForgetQuery
  BY <1>3, <1>22 DEF ForgetQuery, Command, disk, tables
<1>23. CASE Reflect
  BY <1>3, <1>23 DEF Reflect, Command, disk, tables
<1>24. CASE FlushMetadata
  BY <1>3, <1>24 DEF FlushMetadata, Command, disk, tables
<1>25. CASE Search
  BY <1>3, <1>25 DEF Search, disk, tables
<1>26. CASE Record
  <2>1. UNCHANGED <<file, cmd, disturbed>>
    BY <1>26 DEF Record, disk
  <2>2. /\ DOMAIN rows' = DOMAIN rows
        /\ \A i \in DOMAIN rows :
              /\ rows'[i].file = rows[i].file /\ rows'[i].pos = rows[i].pos
              /\ SameFact(rows'[i].line, rows[i].line)
    BY <1>26, FeedbackRows DEF BaseInv, Types, SameFact
  <2>3. QED
    BY <2>1, <2>2 DEF RowsAgree, SameFact
<1>27. CASE Kill
  BY <1>1, <1>27 DEF Kill
<1>28. CASE \E f \in ToSet(Files) : Edit(f)
  BY <1>1, <1>28 DEF Edit
<1>29. CASE UNCHANGED vars
  BY <1>3, <1>29 DEF vars, disk, tables
<1>30. QED
  BY <1>5, <1>6, <1>7, <1>8, <1>9, <1>10, <1>11, <1>12, <1>13, <1>14, <1>15, <1>16, <1>17, <1>18, <1>19, <1>20, <1>21, <1>22, <1>23, <1>24, <1>25, <1>26, <1>27, <1>28, <1>29 DEF Next, Continue

LEMMA AlwaysAgree == Spec => [](BaseInv /\ RowsAgree)
<1>1. Init => RowsAgree
  BY DEF Init, RowsAgree
<1>2. BaseInv /\ RowsAgree /\ [Next]_vars => RowsAgree'
  BY AgreeStep
<1>3. QED
  BY <1>1, <1>2, AlwaysBase, PTL DEF Spec

\* Feedback flushed to the line numbers the rows remember never invalidates,
\* revives or rekeys a line, as long as no command is killed and nobody edits.
THEOREM FlushesKeepMeaning == Spec => FlushKeepsMeaning
<1>1. ASSUME BaseInv, RowsAgree, Next, cmd.at = "flush", ~disturbed',
             NEW h \in DOMAIN file, NEW n \in DOMAIN file[h]
      PROVE  file'[h][n].key = file[h][n].key /\ file'[h][n].dead = file[h][n].dead
  <2>0. file \in [ToSet(Files) -> Seq(Line)]
    BY <1>1 DEF BaseInv, Types
  <2>1. h \in ToSet(Files) /\ file \in [ToSet(Files) -> Seq(Line)]
    BY <1>1, <2>0
  <2>2. CASE \E g \in ToSet(Files) : FlushFile(g)
    <3>1. PICK g \in ToSet(Files) : FlushFile(g)
      BY <2>2
    <3>2. file' = [file EXCEPT ![g] = Synced(g)] /\ ~disturbed
      BY <1>1, <3>1 DEF FlushFile
    <3>3. CASE h = g
      <4>1. SameFact(Synced(h)[n], file[h][n])
        BY <1>1, <2>1, <3>2, FlushSame
      <4>2. QED
        BY <2>1, <3>2, <3>3, <4>1 DEF SameFact
    <3>4. CASE h # g
      BY <2>1, <3>2, <3>4
    <3>5. QED
      BY <3>3, <3>4
  <2>3. CASE UNCHANGED file
    BY <2>3
  <2>4. CASE Rebuild
    BY <1>1, <2>3, <2>4 DEF Rebuild, disk, tables
  <2>5. CASE FlushEnds
    BY <1>1, <2>3, <2>5 DEF FlushEnds, disk, tables
  <2>6. CASE SyncVectors
    BY <1>1, <2>3, <2>6 DEF SyncVectors, disk, tables
  <2>7. CASE SyncFails
    BY <1>1, <2>3, <2>7 DEF SyncFails, disk, tables
  <2>8. CASE SlotHolds
    BY <1>1, <2>3, <2>8 DEF SlotHolds, disk, tables
  <2>9. CASE Supersede
    BY <1>1, <2>3, <2>9 DEF Supersede, disk, tables
  <2>10. CASE Duplicate
    BY <1>1, <2>3, <2>10 DEF Duplicate, SlotFree, Control, BaseInv, disk, tables
  <2>11. CASE AppendEntry
    BY <1>1, <2>3, <2>11 DEF AppendEntry, SlotFree, Control, BaseInv, disk, tables
  <2>12. CASE \E hard \in BOOLEAN : ForgetHit(hard)
    BY <1>1, <2>3, <2>12 DEF ForgetHit, disk, tables
  <2>13. CASE Promote
    BY <1>1, <2>3, <2>13 DEF Promote, disk, tables
  <2>14. CASE Recall
    BY <1>1, <2>3, <2>14 DEF Recall, disk, tables
  <2>15. CASE StoreCandidate
    BY <1>1, <2>3, <2>15 DEF StoreCandidate, disk, tables
  <2>16. CASE \E t \in Texts : Store(t)
    BY <1>1, <2>3, <2>16 DEF Store, Command, disk, tables
  <2>17. CASE \E candidates \in Captures : Capture(candidates)
    BY <1>1, <2>3, <2>17 DEF Capture, Command, disk, tables
  <2>18. CASE \E t \in Texts, hard \in BOOLEAN : ForgetText(t, hard)
    BY <1>1, <2>3, <2>18 DEF ForgetText, Command, disk, tables
  <2>19. CASE \E f \in ToSet(Files), t, u \in Texts : Update(f, t, u)
    BY <1>1, <2>3, <2>19 DEF Update, Command, disk, tables
  <2>20. CASE ForgetQuery
    BY <1>1, <2>3, <2>20 DEF ForgetQuery, Command, disk, tables
  <2>21. CASE Reflect
    BY <1>1, <2>3, <2>21 DEF Reflect, Command, disk, tables
  <2>22. CASE FlushMetadata
    BY <1>1, <2>3, <2>22 DEF FlushMetadata, Command, disk, tables
  <2>23. CASE Search
    BY <1>1, <2>3, <2>23 DEF Search, disk, tables
  <2>24. CASE Record
    BY <1>1, <2>3, <2>24 DEF Record, disk, tables
  <2>25. CASE Kill
    BY <1>1, <2>3, <2>25 DEF Kill, disk, tables
  <2>26. CASE \E f \in ToSet(Files) : Edit(f)
    BY <1>1, <2>3, <2>26 DEF Edit, disk, tables
  <2>27. QED
    BY <1>1, <2>2, <2>4, <2>5, <2>6, <2>7, <2>8, <2>9, <2>10, <2>11, <2>12, <2>13, <2>14, <2>15, <2>16, <2>17, <2>18, <2>19, <2>20, <2>21, <2>22, <2>23, <2>24, <2>25, <2>26 DEF Next, Continue
<1>2. BaseInv /\ RowsAgree /\ [Next]_vars =>
        [cmd.at = "flush" /\ ~disturbed' =>
           \A f \in DOMAIN file : \A i \in DOMAIN file[f] :
             /\ file'[f][i].key = file[f][i].key
             /\ file'[f][i].dead = file[f][i].dead]_vars
  BY <1>1
<1>3. QED
  BY <1>2, AlwaysAgree, PTL DEF Spec, FlushKeepsMeaning

-------------------------------------------------------------------------------
(* One current value of each key.                                           *)

\* Line i of file f is live and about the key k.
Holds(k, f, i) == i \in DOMAIN file[f] /\ file[f][i].key = k /\ ~file[f][i].dead

Written(k, t) == \E i \in DOMAIN file["bank"] : Holds(k, "bank", i) /\ file["bank"][i].text = t

\* A store of the key is between its first write and its answer.
Busy(k) == (cmd.at = "append" \/ cmd.then = "stored") /\ k = KeyOf[cmd.text]

\* Lines were written and the rebuild that follows has not read them.
Unindexed == cmd.at \in {"append", "rebuild"} \/ (cmd.at = "flush" /\ cmd.then # "rest")

DailyKeyless == \A k \in Keys : \A i \in DOMAIN file["daily"] : ~Holds(k, "daily", i)

OneLine ==
  \A k \in Keys : \A i, j \in DOMAIN file["bank"] :
    Holds(k, "bank", i) /\ Holds(k, "bank", j) => i = j

\* Between invalidating the old line and appending the new one.
Cleared ==
  cmd.at = "append" => \A i \in DOMAIN file["bank"] : ~Holds(KeyOf[cmd.text], "bank", i)

StoreWritten == cmd.then = "stored" /\ KeyOf[cmd.text] # NoKey => Written(KeyOf[cmd.text], cmd.text)

ToldIsWritten == \A k \in Keys : told[k] # NoText /\ ~Busy(k) => Written(k, told[k])

LinesHaveRows ==
  ~Unindexed =>
    \A k \in Keys : \A i \in DOMAIN file["bank"] :
      Holds(k, "bank", i) => \E r \in DOMAIN rows : rows[r].file = "bank" /\ rows[r].pos = i

Facts == DailyKeyless /\ OneLine /\ Cleared /\ StoreWritten /\ ToldIsWritten /\ LinesHaveRows

FactInv == ~disturbed => Facts

\* The registry answers a key with the row of its one live line.
LEMMA RowsOfKey ==
  ASSUME BaseInv, RowsAgree, Facts, ~disturbed, cmd.at \notin {"append", "rebuild"}, NEW k \in Keys
  PROVE  /\ Live(k, "daily") = {}
         /\ \A i \in Live(k, "bank") : Holds(k, "bank", rows[i].pos)
         /\ \A i \in Live(k, "bank") : Live(k, "bank") = {i}
<1>1. \A i \in DOMAIN rows :
        /\ rows[i].pos \in DOMAIN file[rows[i].file]
        /\ SameFact(rows[i].line, file[rows[i].file][rows[i].pos])
  BY DEF RowsAgree
<1>2. Live(k, "daily") = {}
  BY <1>1 DEF Live, Facts, DailyKeyless, Holds, SameFact
<1>3. \A i \in Live(k, "bank") : Holds(k, "bank", rows[i].pos)
  BY <1>1 DEF Live, Holds, SameFact
<1>4. ASSUME NEW i \in Live(k, "bank"), NEW j \in Live(k, "bank")
      PROVE  i = j
  <2>1. Holds(k, "bank", rows[i].pos) /\ Holds(k, "bank", rows[j].pos)
    BY <1>3
  <2>2. rows[i].pos = rows[j].pos
    BY <2>1 DEF Facts, OneLine, Holds
  <2>3. i \in DOMAIN rows /\ j \in DOMAIN rows /\ rows[i].file = "bank" /\ rows[j].file = "bank"
    BY DEF Live
  <2>4. QED
    BY <2>2, <2>3 DEF BaseInv, RowsNumbered
<1>5. QED
  BY <1>2, <1>3, <1>4

LEMMA CurrentIsLive ==
  ASSUME BaseInv, RowsAgree, Facts, ~disturbed, cmd.at \notin {"append", "rebuild"}, NEW k \in Keys,
         Current(k) # 0
  PROVE  Current(k) \in Live(k, "bank")
<1>1. Live(k, "daily") = {} /\ Live(k, "bank") # {}
  BY RowsOfKey DEF Current
<1>2. PICK i \in Live(k, "bank") : Live(k, "bank") = {i}
  BY <1>1, RowsOfKey
<1>3. i \in Nat
  BY LenProperties DEF Live, BaseInv, Types
<1>4. Current(k) = Max({i})
  BY <1>1, <1>2 DEF Current
<1>5. Max({i}) = i
  BY <1>3 DEF Max
<1>6. QED
  BY <1>4, <1>5

LEMMA LiveIsCurrent ==
  ASSUME BaseInv, RowsAgree, Facts, ~disturbed, ~Unindexed, NEW k \in Keys, NEW n, Holds(k, "bank", n)
  PROVE  /\ Current(k) # 0 /\ Current(k) \in DOMAIN rows
         /\ rows[Current(k)].line.text = file["bank"][n].text
<1>0. cmd.at \notin {"append", "rebuild"}
  BY DEF Unindexed
<1>1. PICK r \in DOMAIN rows : rows[r].file = "bank" /\ rows[r].pos = n
  BY DEF Facts, LinesHaveRows, Holds
<1>2. SameFact(rows[r].line, file["bank"][n])
  BY <1>0, <1>1 DEF RowsAgree
<1>3. r \in Live(k, "bank")
  BY <1>1, <1>2 DEF Live, Holds, SameFact
<1>4. Live(k, "daily") = {} /\ Live(k, "bank") = {r}
  BY <1>0, <1>3, RowsOfKey
<1>5. r \in Nat /\ r # 0
  BY LenProperties DEF BaseInv, Types
<1>6. Current(k) = Max({r})
  BY <1>4 DEF Current
<1>7. Max({r}) = r
  BY <1>5 DEF Max
<1>8. QED
  BY <1>1, <1>2, <1>5, <1>6, <1>7 DEF SameFact

\* A step that says no other thing in any line, keeps the rows in place and is
\* of the same store, or of none, before and after.
LEMMA FactsKept ==
  ASSUME BaseInv, Facts, UNCHANGED told, DOMAIN rows' = DOMAIN rows,
         \A r \in DOMAIN rows : rows'[r].file = rows[r].file /\ rows'[r].pos = rows[r].pos,
         \A f \in ToSet(Files) : DOMAIN file'[f] = DOMAIN file[f]
           /\ \A i \in DOMAIN file[f] : SameFact(file'[f][i], file[f][i]),
         cmd'.at = "append" <=> cmd.at = "append",
         cmd'.then = "stored" <=> cmd.then = "stored",
         cmd.at = "append" \/ cmd.then = "stored" => cmd'.text = cmd.text,
         Unindexed => Unindexed'
  PROVE  Facts'
<1>1. \A k : \A f \in ToSet(Files) : \A i \in DOMAIN file[f] : Holds(k, f, i)' <=> Holds(k, f, i)
  BY DEF Holds, SameFact
<1>2. DOMAIN file'["daily"] = DOMAIN file["daily"] /\ DOMAIN file'["bank"] = DOMAIN file["bank"]
      /\ \A i \in DOMAIN file["bank"] : file'["bank"][i].text = file["bank"][i].text
  BY TwoFiles DEF SameFact
<1>3. \A k, i : Holds(k, "bank", i)' <=> Holds(k, "bank", i)
  BY <1>1, <1>2, TwoFiles DEF Holds
<1>4. DailyKeyless'
  BY <1>1, <1>2, TwoFiles DEF Facts, DailyKeyless
<1>5. OneLine'
  BY <1>2, <1>3 DEF Facts, OneLine
<1>6. \A k, t : Written(k, t) => Written(k, t)'
  BY <1>2, <1>3 DEF Written
<1>7. PICK t : t = cmd.text
  OBVIOUS
<1>8. Cleared'
  <2>1. ASSUME cmd'.at = "append"
        PROVE  cmd'.text = t /\ \A i \in DOMAIN file'["bank"] : ~Holds(KeyOf[t], "bank", i)'
    BY <1>2, <1>3, <1>7, <2>1 DEF Facts, Cleared
  <2>2. QED
    BY <2>1 DEF Cleared
<1>9. StoreWritten'
  <2>1. ASSUME cmd'.then = "stored", KeyOf[cmd'.text] # NoKey
        PROVE  cmd'.text = t /\ Written(KeyOf[t], t)'
    BY <1>6, <1>7, <2>1 DEF Facts, StoreWritten
  <2>2. QED
    BY <2>1 DEF StoreWritten
<1>10. ToldIsWritten'
  <2>1. \A k \in Keys : Busy(k) => Busy(k)'
    BY DEF Busy
  <2>2. \A k \in Keys : told[k] # NoText /\ ~Busy(k)' => Written(k, told[k])'
    BY <1>6, <2>1 DEF Facts, ToldIsWritten
  <2>3. QED
    BY <2>2 DEF ToldIsWritten
<1>11. LinesHaveRows'
  BY <1>2, <1>3 DEF Facts, LinesHaveRows
<1>12. QED
  BY <1>4, <1>5, <1>8, <1>9, <1>10, <1>11 DEF Facts

\* Where line i of file g was before line n of f was forgotten.
Was(f, n, hard, g, i) == IF hard /\ g = f /\ ~(i < n) THEN i + 1 ELSE i

LEMMA ForgottenLines ==
  ASSUME file \in [ToSet(Files) -> Seq(Line)], NEW f \in ToSet(Files), NEW n \in 1..Len(file[f]),
         NEW hard \in BOOLEAN, NEW g \in ToSet(Files)
  PROVE  LET new == Forgotten(f, n, hard) IN
         /\ \A i \in DOMAIN new[g] :
              /\ Was(f, n, hard, g, i) \in DOMAIN file[g]
              /\ new[g][i].text = file[g][Was(f, n, hard, g, i)].text
              /\ new[g][i].key = file[g][Was(f, n, hard, g, i)].key
              /\ ~new[g][i].dead =>
                   ~file[g][Was(f, n, hard, g, i)].dead /\ ~(g = f /\ Was(f, n, hard, g, i) = n)
         /\ \A j \in DOMAIN file[g] : ~(g = f /\ j = n) =>
              \E i \in DOMAIN new[g] : Was(f, n, hard, g, i) = j /\ new[g][i] = file[g][j]
<1> DEFINE new == Forgotten(f, n, hard)
           W(i) == Was(f, n, hard, g, i)
<1>1. /\ \A h \in ToSet(Files) : file[h] \in Seq(Line) /\ DOMAIN file[h] = 1..Len(file[h]) /\ Len(file[h]) \in Nat
      /\ \A h \in ToSet(Files) : \A i \in DOMAIN file[h] : file[h][i] \in Line
  BY LenProperties, ElementOfSeq
<1>2. CASE hard
  <2>1. new = Forgotten(f, n, TRUE)
    BY <1>2 DEF Forgotten
  <2> HIDE DEF new
  <2>2. /\ new \in [ToSet(Files) -> Seq(Line)]
        /\ \A h \in ToSet(Files) : h # f => new[h] = file[h]
        /\ Len(new[f]) = Len(file[f]) - 1
        /\ \A i \in 1..Len(file[f]) - 1 : new[f][i] = IF i < n THEN file[f][i] ELSE file[f][i + 1]
    BY <2>1, RemovedFile
  <2>3. DOMAIN new[f] = 1..Len(file[f]) - 1
    BY <2>2, LenProperties
  <2>4. CASE g # f
    <3>1. new[g] = file[g] /\ \A i : W(i) = i
      BY <2>2, <2>4 DEF Was
    <3>2. QED
      BY <3>1, <2>4 DEF new
  <2>5. CASE g = f
    <3>1. ASSUME NEW i \in DOMAIN new[g]
          PROVE  W(i) \in DOMAIN file[g] /\ new[g][i] = file[g][W(i)] /\ W(i) # n
      <4>1. i \in 1..Len(file[f]) - 1 /\ DOMAIN file[g] = 1..Len(file[f]) /\ Len(file[f]) \in Nat
        BY <2>3, <2>5, <1>1
      <4>2. CASE i < n
        BY <4>1, <4>2, <2>2, <2>5 DEF Was
      <4>3. CASE ~(i < n)
        BY <4>1, <4>3, <2>2, <2>5, <1>2 DEF Was
      <4>4. QED
        BY <4>2, <4>3
    <3>2. ASSUME NEW j \in DOMAIN file[g], j # n
          PROVE  \E i \in DOMAIN new[g] : W(i) = j /\ new[g][i] = file[g][j]
      <4>1. j \in 1..Len(file[f]) /\ Len(file[f]) \in Nat
        BY <2>5, <1>1
      <4>2. CASE j < n
        <5>1. j \in DOMAIN new[g] /\ W(j) = j
          BY <4>1, <4>2, <2>3, <2>5 DEF Was
        <5>2. QED
          BY <5>1, <3>1
      <4>3. CASE ~(j < n)
        <5>1. j - 1 \in DOMAIN new[g] /\ W(j - 1) = j
          BY <4>1, <4>3, <3>2, <2>3, <2>5, <1>2 DEF Was
        <5>2. QED
          BY <5>1, <3>1
      <4>4. QED
        BY <4>2, <4>3
    <3>3. QED
      BY <3>1, <3>2, <2>5 DEF new
  <2>6. QED
    BY <2>4, <2>5
<1>3. CASE ~hard
  <2>1. PICK s : s = new[g]
    OBVIOUS
  <2>2. /\ DOMAIN s = DOMAIN file[g]
        /\ \A i \in DOMAIN file[g] :
             /\ s[i].text = file[g][i].text /\ s[i].key = file[g][i].key
             /\ ~(g = f /\ i = n) => s[i] = file[g][i]
    BY <1>3, <2>1, MarkedLine
  <2>3. \A i \in DOMAIN file[g] : ~s[i].dead => ~file[g][i].dead /\ ~(g = f /\ i = n)
    BY <1>3, <2>1, MarkedDead
  <2>4. \A i : W(i) = i
    BY <1>3 DEF Was
  <2> HIDE DEF new
  <2>5. QED
    BY <2>1, <2>2, <2>3, <2>4 DEF new
<1>4. QED
  BY <1>2, <1>3

\* Forgetting a line leaves the other facts as they are.
LEMMA ForgetLives ==
  ASSUME BaseInv, Facts, NEW f \in ToSet(Files), NEW n \in 1..Len(file[f]), NEW hard \in BOOLEAN,
         file' = Forgotten(f, n, hard)
  PROVE  /\ DailyKeyless' /\ OneLine'
         /\ \A k, t : (k # file[f][n].key \/ f # "bank") /\ Written(k, t) => Written(k, t)'
         /\ f = "bank" /\ Holds(file[f][n].key, "bank", n) /\ file[f][n].key \in Keys =>
              \A i \in DOMAIN file'["bank"] : file'["bank"][i].key = file[f][n].key => file'["bank"][i].dead
<1> DEFINE W(g, i) == Was(f, n, hard, g, i)
<1>1. \A g \in ToSet(Files) :
         /\ \A i \in DOMAIN file'[g] :
              /\ W(g, i) \in DOMAIN file[g]
              /\ file'[g][i].text = file[g][W(g, i)].text
              /\ file'[g][i].key = file[g][W(g, i)].key
              /\ ~file'[g][i].dead => ~file[g][W(g, i)].dead /\ ~(g = f /\ W(g, i) = n)
         /\ \A j \in DOMAIN file[g] : ~(g = f /\ j = n) =>
              \E i \in DOMAIN file'[g] : W(g, i) = j /\ file'[g][i] = file[g][j]
  BY ForgottenLines DEF BaseInv, Types
<1>2. "daily" \in ToSet(Files) /\ "bank" \in ToSet(Files)
  BY TwoFiles
<1>3. \A g \in ToSet(Files) : \A i, j \in DOMAIN file'[g] : W(g, i) = W(g, j) => i = j
  <2>1. file' \in [ToSet(Files) -> Seq(Line)]
    <3>1. CASE hard
      BY <3>1, RemovedFile DEF BaseInv, Types, Forgotten
    <3>2. CASE ~hard
      BY <3>2, MarkedFile DEF BaseInv, Types
    <3>3. QED
      BY <3>1, <3>2
  <2>2. ASSUME NEW g \in ToSet(Files), NEW i \in DOMAIN file'[g], NEW j \in DOMAIN file'[g], W(g, i) = W(g, j)
        PROVE  i = j
    <3>1. i \in Nat /\ j \in Nat /\ n \in Nat
      BY <2>1, LenProperties
    <3>2. QED
      BY <3>1, <2>2 DEF Was
  <2>3. QED
    BY <2>2
<1> HIDE DEF W
<1>4. DailyKeyless'
  <2>1. ASSUME NEW k \in Keys, NEW i \in DOMAIN file'["daily"], file'["daily"][i].key = k, ~file'["daily"][i].dead
        PROVE  FALSE
    <3>1. Holds(k, "daily", W("daily", i)) /\ W("daily", i) \in DOMAIN file["daily"]
      BY <1>1, <1>2, <2>1 DEF Holds
    <3>2. QED
      BY <3>1 DEF Facts, DailyKeyless
  <2>2. QED
    BY <2>1 DEF DailyKeyless, Holds
<1>5. OneLine'
  <2>1. ASSUME NEW k \in Keys, NEW i \in DOMAIN file'["bank"], NEW j \in DOMAIN file'["bank"],
               file'["bank"][i].key = k, ~file'["bank"][i].dead,
               file'["bank"][j].key = k, ~file'["bank"][j].dead
        PROVE  i = j
    <3>1. /\ Holds(k, "bank", W("bank", i)) /\ W("bank", i) \in DOMAIN file["bank"]
          /\ Holds(k, "bank", W("bank", j)) /\ W("bank", j) \in DOMAIN file["bank"]
      BY <1>1, <1>2, <2>1 DEF Holds
    <3>2. W("bank", i) = W("bank", j)
      BY <3>1 DEF Facts, OneLine
    <3>3. QED
      BY <3>2, <1>2, <1>3
  <2>2. QED
    BY <2>1 DEF OneLine, Holds
<1>6. ASSUME NEW k, NEW t, k # file[f][n].key \/ f # "bank", Written(k, t)
      PROVE  Written(k, t)'
  <2>1. PICK j \in DOMAIN file["bank"] : Holds(k, "bank", j) /\ file["bank"][j].text = t
    BY <1>6 DEF Written
  <2>2. ~("bank" = f /\ j = n)
    BY <1>6, <2>1 DEF Holds
  <2>3. PICK i \in DOMAIN file'["bank"] : file'["bank"][i] = file["bank"][j]
    BY <1>1, <1>2, <2>2
  <2>4. QED
    BY <2>1, <2>3 DEF Written, Holds
<1>7. ASSUME f = "bank", Holds(file[f][n].key, "bank", n), file[f][n].key \in Keys,
             NEW i \in DOMAIN file'["bank"], file'["bank"][i].key = file[f][n].key, ~file'["bank"][i].dead
      PROVE  FALSE
  <2>1. Holds(file[f][n].key, "bank", W("bank", i)) /\ W("bank", i) \in DOMAIN file["bank"] /\ W("bank", i) # n
    BY <1>1, <1>2, <1>7 DEF Holds
  <2>2. n \in DOMAIN file["bank"]
    BY <1>7 DEF Holds
  <2>3. QED
    BY <2>1, <2>2, <1>7 DEF Facts, OneLine
<1>8. QED
  BY <1>4, <1>5, <1>6, <1>7

\* What a line added at the end of the bank brings.
LEMMA AppendLives ==
  ASSUME BaseInv, Facts, NEW l \in Line, file' = AppendUnique(l)
  PROVE  /\ DailyKeyless'
         /\ \A k, t : Written(k, t) => Written(k, t)'
         /\ \A k, i : Holds(k, "bank", i)' =>
              \/ Holds(k, "bank", i)
              \/ ~Present(l, file["bank"]) /\ i = Len(file["bank"]) + 1 /\ l.key = k /\ ~l.dead
         /\ \A k : k = l.key /\ ~l.dead /\ ~Present(l, file["bank"]) => Written(k, l.text)'
<1>1. /\ AppendUnique(l) \in [ToSet(Files) -> Seq(Line)]
      /\ AppendUnique(l)["daily"] = file["daily"]
      /\ Present(l, file["bank"]) => AppendUnique(l) = file
      /\ ~Present(l, file["bank"]) =>
           /\ Len(AppendUnique(l)["bank"]) = Len(file["bank"]) + 1
           /\ AppendUnique(l)["bank"][Len(file["bank"]) + 1] = l
           /\ \A i \in 1..Len(file["bank"]) : AppendUnique(l)["bank"][i] = file["bank"][i]
  BY AppendedFile DEF BaseInv, Types
<1>2. /\ Len(file["bank"]) \in Nat /\ DOMAIN file["bank"] = 1..Len(file["bank"])
      /\ Len(file'["bank"]) \in Nat /\ DOMAIN file'["bank"] = 1..Len(file'["bank"])
  BY <1>1, LenProperties, TwoFiles DEF BaseInv, Types
<1>3. DailyKeyless'
  <2>1. file'["daily"] = file["daily"]
    BY <1>1
  <2>2. QED
    BY <2>1 DEF Facts, DailyKeyless, Holds
<1>4. CASE Present(l, file["bank"])
  <2>1. file' = file
    BY <1>1, <1>4
  <2>2. \A k, t : Written(k, t) => Written(k, t)'
    BY <2>1 DEF Written, Holds
  <2>3. \A k, i : Holds(k, "bank", i)' => Holds(k, "bank", i)
    BY <2>1 DEF Holds
  <2>4. QED
    BY <1>3, <1>4, <2>2, <2>3
<1>5. CASE ~Present(l, file["bank"])
  <2>1. /\ DOMAIN file'["bank"] = 1..Len(file["bank"]) + 1
        /\ file'["bank"][Len(file["bank"]) + 1] = l
        /\ \A i \in 1..Len(file["bank"]) : file'["bank"][i] = file["bank"][i]
    BY <1>1, <1>2, <1>5
  <2>2. \A k, t : Written(k, t) => Written(k, t)'
    <3>1. ASSUME NEW k, NEW t, NEW i \in DOMAIN file["bank"], Holds(k, "bank", i), file["bank"][i].text = t
          PROVE  i \in DOMAIN file'["bank"] /\ Holds(k, "bank", i)' /\ file'["bank"][i].text = t
      BY <1>2, <2>1, <3>1 DEF Holds
    <3>2. QED
      BY <3>1 DEF Written
  <2>3. ASSUME NEW k, NEW i, Holds(k, "bank", i)'
        PROVE  Holds(k, "bank", i) \/ (i = Len(file["bank"]) + 1 /\ l.key = k /\ ~l.dead)
    <3>1. i \in 1..Len(file["bank"]) + 1 /\ file'["bank"][i].key = k /\ ~file'["bank"][i].dead
      BY <2>1, <2>3 DEF Holds
    <3>2. CASE i \in 1..Len(file["bank"])
      BY <1>2, <2>1, <3>1, <3>2 DEF Holds
    <3>3. CASE i \notin 1..Len(file["bank"])
      <4>1. i = Len(file["bank"]) + 1
        BY <1>2, <3>1, <3>3
      <4>2. QED
        BY <2>1, <3>1, <4>1
    <3>4. QED
      BY <3>2, <3>3
  <2>4. ASSUME NEW k, k = l.key, ~l.dead
        PROVE  Written(k, l.text)'
    <3>1. Len(file["bank"]) + 1 \in DOMAIN file'["bank"]
      BY <1>2, <2>1
    <3>2. QED
      BY <2>1, <2>4, <3>1 DEF Written, Holds
  <2>5. QED
    BY <1>3, <1>5, <2>2, <2>3, <2>4
<1>6. QED
  BY <1>4, <1>5

\* A line that is live and keyed may only join when no other line is.
LEMMA OneLineMore ==
  ASSUME BaseInv, Facts, NEW l \in Line, file' = AppendUnique(l),
         l.dead \/ l.key \notin Keys \/ \A i : ~Holds(l.key, "bank", i)
  PROVE  OneLine'
<1>1. \A k, i : Holds(k, "bank", i)' =>
        \/ Holds(k, "bank", i)
        \/ i = Len(file["bank"]) + 1 /\ l.key = k /\ ~l.dead
  BY AppendLives
<1>2. \A k \in Keys : \A i, j : Holds(k, "bank", i) /\ Holds(k, "bank", j) => i = j
  BY DEF Facts, OneLine, Holds
<1>3. ASSUME NEW k \in Keys, NEW i, NEW j, Holds(k, "bank", i)', Holds(k, "bank", j)'
      PROVE  i = j
  BY <1>1, <1>2, <1>3
<1>4. QED
  BY <1>3 DEF OneLine

LEMMA SupersedeFacts ==
  ASSUME BaseInv, RowsAgree, Facts, ~disturbed, Supersede
  PROVE  Facts'
<1> DEFINE k == KeyOf[cmd.text]
           c == Current(k)
<1>1. /\ cmd.at = "slot" /\ k # NoKey /\ c # 0 /\ UNCHANGED told
      /\ file' = Forgotten(rows[c].file, rows[c].pos, FALSE)
      /\ cmd'.at = "append" /\ cmd'.then = "superseded" /\ cmd'.text = cmd.text
  BY DEF Supersede, BaseInv, CmdTyped
<1>2. k \in Keys
  BY <1>1, KeyTyped DEF BaseInv, Control
<1> HIDE DEF k
<1>3. c \in Live(k, "bank")
  BY <1>1, <1>2, CurrentIsLive
<1>4. rows[c].file = "bank" /\ Holds(k, "bank", rows[c].pos)
  BY <1>1, <1>2, <1>3, RowsOfKey DEF Live
<1> DEFINE n == rows[c].pos
<1>5. n \in 1..Len(file["bank"]) /\ file["bank"][n].key = k
  BY <1>4, LenProperties, TwoFiles DEF Holds, BaseInv, Types
<1>6. PICK hard \in BOOLEAN : ~hard /\ file' = Forgotten("bank", n, hard)
  BY <1>1, <1>4
<1> HIDE DEF n, c
<1>7. /\ DailyKeyless' /\ OneLine'
      /\ \A m, t : m # k /\ Written(m, t) => Written(m, t)'
      /\ \A i \in DOMAIN file'["bank"] : file'["bank"][i].key = k => file'["bank"][i].dead
  <2>1. "bank" \in ToSet(Files)
    BY TwoFiles
  <2>2. QED
    BY <1>2, <1>4, <1>5, <1>6, <2>1, ForgetLives DEF n
<1>8. Cleared'
  <2>1. KeyOf[cmd'.text] = k
    BY <1>1 DEF k
  <2>2. QED
    BY <1>7, <2>1 DEF Cleared, Holds
<1>9. StoreWritten'
  BY <1>1 DEF StoreWritten
<1>10. ToldIsWritten'
  <2>1. ASSUME NEW m \in Keys, told[m] # NoText, ~Busy(m)'
        PROVE  Written(m, told[m]) /\ m # k
    <3>1. m # k
      BY <1>1, <2>1 DEF Busy, k
    <3>2. ~Busy(m)
      BY <1>1, <3>1 DEF Busy, k
    <3>3. QED
      BY <2>1, <3>1, <3>2 DEF Facts, ToldIsWritten
  <2>2. \A m \in Keys : told'[m] # NoText /\ ~Busy(m)' => Written(m, told[m])'
    <3>1. ASSUME NEW m \in Keys, told[m] # NoText, ~Busy(m)'
          PROVE  Written(m, told[m])'
      <4>1. PICK t : t = told[m]
        OBVIOUS
      <4>2. Written(m, t)'
        BY <1>7, <2>1, <3>1, <4>1
      <4>3. QED
        BY <1>1, <4>1, <4>2
    <3>2. QED
      BY <1>1, <3>1
  <2>3. QED
    BY <2>2 DEF ToldIsWritten
<1>11. LinesHaveRows'
  BY <1>1 DEF LinesHaveRows, Unindexed
<1>12. QED
  BY <1>7, <1>8, <1>9, <1>10, <1>11 DEF Facts

\* No live line has the key of an entry that is about to be appended.
LEMMA KeyIsFree ==
  ASSUME BaseInv, RowsAgree, Facts, ~disturbed, cmd.at = "append" \/ SlotFree, KeyOf[cmd.text] # NoKey
  PROVE  \A i : ~Holds(KeyOf[cmd.text], "bank", i)
<1>1. CASE cmd.at = "append"
  BY <1>1 DEF Facts, Cleared, Holds
<1>2. CASE SlotFree
  <2>1. /\ cmd.at = "slot" /\ Current(KeyOf[cmd.text]) = 0 /\ ~Unindexed
        /\ KeyOf[cmd.text] \in Keys
    BY <1>2, KeyTyped DEF SlotFree, Unindexed, BaseInv, Control
  <2>2. ASSUME NEW n, Holds(KeyOf[cmd.text], "bank", n)
        PROVE  FALSE
    BY <2>1, <2>2, LiveIsCurrent
  <2>3. QED
    BY <2>2
<1>3. QED
  BY <1>1, <1>2

LEMMA AppendFacts ==
  ASSUME BaseInv, RowsAgree, Facts, ~disturbed, AppendEntry
  PROVE  Facts'
<1>0. PICK t, k, l : t = cmd.text /\ k = KeyOf[t] /\ l = Fresh(t, k)
  OBVIOUS
<1>1. /\ cmd.at = "append" \/ SlotFree
      /\ cmd.at \in {"slot", "append"} /\ t \in Texts
      /\ file' = AppendUnique(l) /\ UNCHANGED told
  BY <1>0 DEF AppendEntry, SlotFree, BaseInv, Control
<1>2. /\ cmd'.at = "rebuild" \/ (cmd'.at = "flush" /\ cmd'.then # "rest")
      /\ cmd'.then = "stored" /\ cmd'.text = t
  BY <1>0 DEF AppendEntry, ReindexQuietly, Reindex, Rest
<1>3. l \in Line /\ l.text = t /\ l.key = k /\ ~l.dead
  BY <1>0, <1>1, KeyTyped, FreshTyped DEF Fresh
<1>4. k # NoKey => \A i : ~Holds(k, "bank", i)
  BY <1>0, <1>1, KeyIsFree
<1>5. k # NoKey => ~Present(l, file["bank"])
  BY <1>3, <1>4 DEF Present, Same, Holds
<1>6. DailyKeyless' /\ (\A m, u : Written(m, u) => Written(m, u)')
      /\ (k # NoKey => Written(k, t)')
  BY <1>1, <1>3, <1>5, AppendLives
<1>7. OneLine'
  <2>1. l.key \notin Keys \/ \A i : ~Holds(l.key, "bank", i)
    BY <1>0, <1>3, <1>4, <1>1, KeyTyped
  <2>2. QED
    BY <1>1, <1>3, <2>1, OneLineMore
<1>8. Cleared'
  BY <1>2 DEF Cleared
<1>9. StoreWritten'
  BY <1>0, <1>2, <1>6 DEF StoreWritten
<1>10. ToldIsWritten'
  <2>1. ASSUME NEW m \in Keys, told[m] # NoText, ~Busy(m)'
        PROVE  Written(m, told[m])'
    <3>1. m # k
      BY <1>0, <1>2, <2>1 DEF Busy
    <3>2. ~Busy(m)
      BY <1>0, <3>1 DEF Busy
    <3>3. PICK u : u = told[m]
      OBVIOUS
    <3>4. Written(m, u)
      BY <2>1, <3>2, <3>3 DEF Facts, ToldIsWritten
    <3>5. QED
      BY <1>1, <1>6, <3>3, <3>4
  <2>2. QED
    BY <1>1, <2>1 DEF ToldIsWritten
<1>11. LinesHaveRows'
  BY <1>2 DEF LinesHaveRows, Unindexed
<1>12. QED
  BY <1>6, <1>7, <1>8, <1>9, <1>10, <1>11 DEF Facts

LEMMA ForgetFacts ==
  ASSUME BaseInv, Facts, NEW f \in ToSet(Files), NEW n \in 1..Len(file[f]), NEW hard \in BOOLEAN,
         file' = Forgotten(f, n, hard), told' = Untold({file[f][n].key}),
         cmd.at \in {"rest", "forget"}, cmd'.at = "rebuild", cmd'.then = "forgotten"
  PROVE  Facts'
<1>1. /\ DailyKeyless' /\ OneLine'
      /\ \A k, t : (k # file[f][n].key \/ f # "bank") /\ Written(k, t) => Written(k, t)'
  BY ForgetLives
<1>2. Cleared' /\ StoreWritten' /\ LinesHaveRows'
  BY DEF Cleared, StoreWritten, LinesHaveRows, Unindexed
<1>3. \A m \in Keys : ~Busy(m)
  BY DEF Busy, BaseInv, Control
<1>4. ToldIsWritten'
  <2>1. ASSUME NEW m \in Keys, NEW u, u = told'[m], u # NoText
        PROVE  Written(m, u)'
    <3>1. m # file[f][n].key /\ told[m] = u
      BY <2>1 DEF Untold
    <3>2. Written(m, u)
      BY <1>3, <2>1, <3>1 DEF Facts, ToldIsWritten
    <3>3. QED
      BY <1>1, <3>1, <3>2
  <2>2. QED
    BY <2>1 DEF ToldIsWritten
<1>5. QED
  BY <1>1, <1>2, <1>4 DEF Facts

LEMMA ForgetTextFacts ==
  ASSUME BaseInv, Facts, NEW t \in Texts, NEW hard \in BOOLEAN, ForgetText(t, hard)
  PROVE  Facts'
<1> DEFINE found == {i \in DOMAIN file["bank"] : file["bank"][i].text = t}
<1>1. /\ cmd.at = "rest" /\ found # {}
      /\ cmd'.at = "rebuild" /\ cmd'.then = "forgotten"
  BY DEF ForgetText, Command, ReindexQuietly, Reindex, Rest
<1>2. file' = Forgotten("bank", Min(found), hard) /\ told' = Untold({file["bank"][Min(found)].key})
  BY DEF ForgetText
<1>3. DOMAIN file["bank"] = 1..Len(file["bank"]) /\ "bank" \in ToSet(Files)
  BY TwoFiles, LenProperties DEF BaseInv, Types
<1>4. found \subseteq 1..Len(file["bank"])
  BY <1>3
<1>5. found \in SUBSET Nat
  BY <1>4
<1> HIDE DEF found
<1>6. Min(found) \in 1..Len(file["bank"])
  BY <1>1, <1>4, <1>5, LeastOf
<1>7. QED
  BY <1>1, <1>2, <1>3, <1>6, ForgetFacts

LEMMA ForgetHitFacts ==
  ASSUME BaseInv, RowsAgree, Facts, ~disturbed, NEW hard \in BOOLEAN, ForgetHit(hard),
         ~(UNCHANGED <<file, told>> /\ cmd' = Rest)
  PROVE  Facts'
<1>1. PICK i \in DOMAIN rows :
        /\ file' = Forgotten(rows[i].file, rows[i].pos, hard)
        /\ told' = Untold({rows[i].line.key})
        /\ ReindexQuietly("forgotten", NoText)
  BY DEF ForgetHit
<1>2. cmd.at = "forget" /\ cmd'.at = "rebuild" /\ cmd'.then = "forgotten"
  BY <1>1 DEF ForgetHit, ReindexQuietly, Reindex, Rest
<1>3. /\ rows[i].pos \in DOMAIN file[rows[i].file]
      /\ rows[i].line.key = file[rows[i].file][rows[i].pos].key
  BY <1>2 DEF RowsAgree, SameFact
<1>4. rows[i].file \in ToSet(Files) /\ rows[i].pos \in 1..Len(file[rows[i].file])
  <2>1. rows[i] \in Row
    BY LenProperties, ElementOfSeq DEF BaseInv, Types
  <2>2. rows[i].file \in ToSet(Files)
    BY <2>1 DEF Row
  <2>3. file[rows[i].file] \in Seq(Line)
    BY <2>2 DEF BaseInv, Types
  <2>4. QED
    BY <1>3, <2>2, <2>3, LenProperties
<1>5. PICK f, n : f = rows[i].file /\ n = rows[i].pos
  OBVIOUS
<1>6. f \in ToSet(Files) /\ n \in 1..Len(file[f]) /\ file' = Forgotten(f, n, hard)
      /\ told' = Untold({file[f][n].key})
  BY <1>1, <1>3, <1>4, <1>5
<1>7. QED
  BY <1>2, <1>6, ForgetFacts

LEMMA UpdateFacts ==
  ASSUME BaseInv, Facts, NEW f \in ToSet(Files), NEW t \in Texts, NEW u \in Texts, Update(f, t, u)
  PROVE  Facts'
<1>1. PICK some : /\ file' = Replaced(f, some, u)
                  /\ told' = Untold({file[f][i].key : i \in some})
  BY DEF Update, Replaced
<1>2. cmd.at = "rest" /\ cmd'.at = "rebuild" /\ cmd'.then = "updated"
  BY DEF Update, Command, ReindexQuietly, Reindex, Rest
<1>3. ASSUME NEW g \in ToSet(Files)
      PROVE  DOMAIN file'[g] = DOMAIN file[g]
             /\ \A i \in DOMAIN file[g] :
                  /\ file'[g][i].key = file[g][i].key /\ file'[g][i].dead = file[g][i].dead
                  /\ ~(g = f /\ i \in some) => file'[g][i].text = file[g][i].text
  <2>1. file \in [ToSet(Files) -> Seq(Line)] /\ file' = Replaced(f, some, u)
    BY <1>1 DEF BaseInv, Types
  <2>2. CASE g # f
    <3>1. file'[g] = file[g]
      BY <2>1, <2>2 DEF Replaced
    <3>2. QED
      BY <3>1
  <2>3. CASE g = f
    <3>1. file'[f] = [i \in DOMAIN file[f] |-> IF i \in some THEN [file[f][i] EXCEPT !.text = u] ELSE file[f][i]]
      BY <2>1 DEF Replaced
    <3>2. \A i \in DOMAIN file[f] : file[f][i] \in Line
      BY <2>1, LenProperties, ElementOfSeq
    <3>3. QED
      BY <2>3, <3>1, <3>2 DEF Line
  <2>4. QED
    BY <2>2, <2>3
<1>6. "daily" \in ToSet(Files) /\ "bank" \in ToSet(Files)
  BY TwoFiles
<1>7. \A k : \A g \in ToSet(Files) : \A i : Holds(k, g, i)' <=> Holds(k, g, i)
  BY <1>3 DEF Holds
<1>8. DailyKeyless'
  BY <1>3, <1>6, <1>7 DEF Facts, DailyKeyless
<1>9. OneLine'
  BY <1>3, <1>6, <1>7 DEF Facts, OneLine
<1>10. Cleared' /\ StoreWritten' /\ LinesHaveRows'
  BY <1>2 DEF Cleared, StoreWritten, LinesHaveRows, Unindexed
<1>11. \A m \in Keys : ~Busy(m)
  BY <1>2 DEF Busy, BaseInv, Control
<1>12. ToldIsWritten'
  <2>1. ASSUME NEW m \in Keys, NEW v, v = told'[m], v # NoText
        PROVE  Written(m, v)'
    <3>1. m \notin {file[f][i].key : i \in some} /\ told[m] = v
      BY <1>1, <2>1 DEF Untold
    <3>2. Written(m, v)
      BY <1>11, <2>1, <3>1 DEF Facts, ToldIsWritten
    <3>3. PICK i \in DOMAIN file["bank"] : Holds(m, "bank", i) /\ file["bank"][i].text = v
      BY <3>2 DEF Written
    <3>4. ~("bank" = f /\ i \in some)
      BY <3>1, <3>3 DEF Holds
    <3>5. Holds(m, "bank", i)' /\ file'["bank"][i].text = v /\ i \in DOMAIN file'["bank"]
      BY <1>3, <1>6, <1>7, <3>3, <3>4
    <3>6. QED
      BY <3>5 DEF Written
  <2>2. QED
    BY <2>1 DEF ToldIsWritten
<1>13. QED
  BY <1>8, <1>9, <1>10, <1>12 DEF Facts

LEMMA PromoteFacts ==
  ASSUME BaseInv, Facts, cmd.at = "reflect", cmd.todo # {}, Promote
  PROVE  Facts'
<1>1. PICK l : l = file["daily"][Min(cmd.todo)]
  OBVIOUS
<1>2. /\ file' = AppendUnique(l) /\ UNCHANGED <<rows, told>>
      /\ cmd'.at = "reflect" /\ cmd'.then = "rest" /\ cmd.then = "rest"
  BY <1>1 DEF Promote, tables, BaseInv, CmdTyped, Control
<1>3. l \in Line /\ Min(cmd.todo) \in DOMAIN file["daily"]
  BY <1>1, PromotedLine
<1>4. l.dead \/ l.key \notin Keys
  BY <1>1, <1>3 DEF Facts, DailyKeyless, Holds
<1>5. DailyKeyless' /\ (\A k, t : Written(k, t) => Written(k, t)')
  BY <1>2, <1>3, AppendLives
<1>6. OneLine'
  BY <1>2, <1>3, <1>4, OneLineMore
<1>7. Cleared' /\ StoreWritten'
  BY <1>2 DEF Cleared, StoreWritten
<1>8. ToldIsWritten'
  <2>1. \A m \in Keys : ~Busy(m) /\ ~Busy(m)'
    BY <1>2 DEF Busy
  <2>2. \A m \in Keys : told[m] # NoText => Written(m, told[m])
    BY <2>1 DEF Facts, ToldIsWritten
  <2>3. ASSUME NEW m \in Keys, NEW v, v = told'[m], v # NoText
        PROVE  Written(m, v)'
    BY <1>2, <1>5, <2>2, <2>3
  <2>4. QED
    BY <2>3 DEF ToldIsWritten
<1>9. LinesHaveRows'
  <2>1. \A k \in Keys : \A i : Holds(k, "bank", i)' => Holds(k, "bank", i)
    BY <1>2, <1>3, <1>4, AppendLives
  <2>2. ~Unindexed
    BY DEF Unindexed
  <2>3. \A k \in Keys : \A i : Holds(k, "bank", i) =>
           \E r \in DOMAIN rows : rows[r].file = "bank" /\ rows[r].pos = i
    BY <2>2 DEF Facts, LinesHaveRows, Holds
  <2>4. QED
    BY <1>2, <2>1, <2>3 DEF LinesHaveRows
<1>10. QED
  BY <1>5, <1>6, <1>7, <1>8, <1>9 DEF Facts

LEMMA RebuildFacts ==
  ASSUME BaseInv, Facts, Rebuild
  PROVE  Facts'
<1>1. /\ UNCHANGED <<file, told>> /\ rows' = AllRows(file)
      /\ cmd.at # "append" /\ cmd'.at = "sync" /\ cmd'.then = cmd.then /\ cmd'.text = cmd.text
  BY DEF Rebuild, disk, BaseInv, CmdTyped
<1>2. DailyKeyless' /\ OneLine'
  BY <1>1 DEF Facts, DailyKeyless, OneLine, Holds
<1>3. \A k, t : Written(k, t) => Written(k, t)'
  BY <1>1 DEF Written, Holds
<1>4. Cleared'
  BY <1>1 DEF Cleared
<1>5. StoreWritten'
  <2>1. PICK t : t = cmd.text
    OBVIOUS
  <2>2. cmd.then = "stored" /\ KeyOf[t] # NoKey => Written(KeyOf[t], t)'
    BY <1>3, <2>1 DEF Facts, StoreWritten
  <2>3. QED
    BY <1>1, <2>1, <2>2 DEF StoreWritten
<1>6. ToldIsWritten'
  <2>1. \A m \in Keys : Busy(m) => Busy(m)'
    BY <1>1 DEF Busy
  <2>2. \A m \in Keys : told[m] # NoText /\ ~Busy(m)' => Written(m, told[m])
    BY <2>1 DEF Facts, ToldIsWritten
  <2>3. ASSUME NEW m \in Keys, NEW v, v = told'[m], v # NoText, ~Busy(m)'
        PROVE  Written(m, v)'
    BY <1>1, <1>3, <2>2, <2>3
  <2>4. QED
    BY <2>3 DEF ToldIsWritten
<1>7. LinesHaveRows'
  <2>1. file \in [ToSet(Files) -> Seq(Line)] /\ "bank" \in ToSet(Files) /\ "daily" \in ToSet(Files)
    BY TwoFiles DEF BaseInv, Types
  <2> DEFINE n == Len(file["daily"])
             m == Len(file["bank"])
  <2>2. n \in Nat /\ m \in Nat /\ DOMAIN file["bank"] = 1..m
    BY <2>1, LenProperties
  <2> HIDE DEF n, m
  <2>3. /\ AllRows(file) \in Seq(Row) /\ Len(AllRows(file)) = n + m
        /\ \A i \in DOMAIN AllRows(file) : i > n =>
             AllRows(file)[i] = [file |-> "bank", pos |-> i - n, line |-> file["bank"][i - n]]
    <3>1. /\ AllRows(file) \in Seq(Row) /\ Len(AllRows(file)) = n + m
          /\ \A i \in DOMAIN AllRows(file) :
               AllRows(file)[i] =
                 IF i <= n THEN [file |-> "daily", pos |-> i, line |-> file["daily"][i]]
                 ELSE [file |-> "bank", pos |-> i - n, line |-> file["bank"][i - n]]
      BY <2>1, RowsOfFiles DEF n, m
    <3>2. DOMAIN AllRows(file) = 1..n + m
      BY <3>1, LenProperties
    <3>3. QED
      BY <2>2, <3>1, <3>2
  <2>4. DOMAIN AllRows(file) = 1..n + m
    BY <2>3, LenProperties
  <2>5. ASSUME NEW i \in DOMAIN file["bank"]
        PROVE  \E r \in DOMAIN AllRows(file) : AllRows(file)[r].file = "bank" /\ AllRows(file)[r].pos = i
    <3> DEFINE r == n + i
    <3>1. r \in DOMAIN AllRows(file) /\ r > n /\ r - n = i
      BY <2>2, <2>4
    <3> HIDE DEF r
    <3>2. AllRows(file)[r].file = "bank" /\ AllRows(file)[r].pos = i
      BY <2>3, <3>1
    <3>3. QED
      BY <3>1, <3>2
  <2>6. QED
    BY <1>1, <2>5 DEF LinesHaveRows
<1>8. QED
  BY <1>2, <1>4, <1>5, <1>6, <1>7 DEF Facts

\* The last step of a store tells of the value that its lines have.
LEMMA StoredFacts ==
  ASSUME BaseInv, Facts, UNCHANGED <<file, rows>>, NEW t \in Texts, ~Unindexed,
         KeyOf[t] # NoKey => Written(KeyOf[t], t),
         \A m \in Keys : m # KeyOf[t] => ~Busy(m),
         told' = IF KeyOf[t] # NoKey THEN [told EXCEPT ![KeyOf[t]] = t] ELSE told,
         cmd'.at # "append", cmd'.then = "rest"
  PROVE  Facts'
<1>1. DailyKeyless' /\ OneLine'
  BY DEF Facts, DailyKeyless, OneLine, Holds
<1>2. \A k, u : Written(k, u) => Written(k, u)'
  BY DEF Written, Holds
<1>3. Cleared' /\ StoreWritten'
  BY DEF Cleared, StoreWritten
<1>4. ToldIsWritten'
  <2>1. ASSUME NEW m \in Keys, NEW v, v = told'[m], v # NoText
        PROVE  Written(m, v)
    <3>1. CASE m = KeyOf[t]
      <4>1. KeyOf[t] # NoKey /\ told \in [Keys -> Texts \cup {NoText}]
        BY <3>1, KeyTyped DEF BaseInv, Types
      <4>2. v = t
        BY <2>1, <3>1, <4>1
      <4>3. QED
        BY <3>1, <4>1, <4>2
    <3>2. CASE m # KeyOf[t]
      <4>1. told[m] = v
        BY <2>1, <3>2 DEF BaseInv, Types
      <4>2. QED
        BY <2>1, <3>2, <4>1 DEF Facts, ToldIsWritten
    <3>3. QED
      BY <3>1, <3>2
  <2>2. QED
    BY <1>2, <2>1 DEF ToldIsWritten
<1>5. LinesHaveRows'
  BY DEF Facts, LinesHaveRows, Holds
<1>6. QED
  BY <1>1, <1>3, <1>4, <1>5 DEF Facts

LEMMA ReturnFacts ==
  ASSUME BaseInv, Facts, cmd.at = "sync", NEW ok, Return(ok), UNCHANGED <<file, rows>>
  PROVE  Facts'
<1>1. cmd'.at # "append" /\ cmd'.then = "rest" /\ ~Unindexed
  BY ReturnCmd DEF BaseInv, Unindexed
<1>2. CASE cmd.then = "stored"
  <2>1. PICK t : t = cmd.text
    OBVIOUS
  <2>2. /\ t \in Texts /\ (KeyOf[t] # NoKey => Written(KeyOf[t], t))
        /\ \A m \in Keys : m # KeyOf[t] => ~Busy(m)
    BY <1>2, <2>1 DEF BaseInv, Control, Facts, StoreWritten, Busy
  <2>3. told' = IF KeyOf[t] # NoKey THEN [told EXCEPT ![KeyOf[t]] = t] ELSE told
    BY <1>2, <2>1 DEF Return
  <2>4. QED
    BY <1>1, <2>2, <2>3, StoredFacts
<1>3. CASE cmd.then # "stored"
  <2>1. UNCHANGED told
    BY <1>3 DEF Return
  <2>2. \A f \in ToSet(Files) : DOMAIN file'[f] = DOMAIN file[f]
           /\ \A i \in DOMAIN file[f] : SameFact(file'[f][i], file[f][i])
    BY DEF SameFact
  <2>3. QED
    BY <1>1, <1>3, <2>1, <2>2, FactsKept
<1>4. QED
  BY <1>2, <1>3

LEMMA SlotFacts ==
  ASSUME BaseInv, RowsAgree, Facts, ~disturbed, SlotHolds
  PROVE  Facts'
<1>0. PICK t, k, c : t = cmd.text /\ k = KeyOf[t] /\ c = Current(k)
  OBVIOUS
<1>1. /\ cmd.at = "slot" /\ k # NoKey /\ c # 0 /\ rows[c].line.text = t
      /\ told' = [told EXCEPT ![k] = t] /\ UNCHANGED <<file, rows>>
  BY <1>0 DEF SlotHolds, disk, tables
<1>2. t \in Texts /\ k \in Keys
  BY <1>0, <1>1, KeyTyped DEF BaseInv, Control
<1>3. c \in Live(k, "bank")
  BY <1>0, <1>1, <1>2, CurrentIsLive
<1>4. /\ Holds(k, "bank", rows[c].pos)
      /\ rows[c].file = "bank" /\ c \in DOMAIN rows
  BY <1>1, <1>2, <1>3, RowsOfKey DEF Live
<1>5. rows[c].pos \in DOMAIN file["bank"] /\ file["bank"][rows[c].pos].text = t
  BY <1>1, <1>4 DEF RowsAgree, SameFact
<1>6. Written(k, t)
  BY <1>4, <1>5 DEF Written
<1>7. ~Unindexed /\ \A m \in Keys : ~Busy(m)
  BY <1>1 DEF Unindexed, Busy, BaseInv, Control
<1>8. cmd'.at # "append" /\ cmd'.then = "rest"
  BY StoredCmd DEF SlotHolds, BaseInv
<1>9. QED
  BY <1>0, <1>1, <1>2, <1>6, <1>7, <1>8, StoredFacts

\* Nothing takes back that a command was killed or a file edited.
LEMMA DisturbedStays ==
  ASSUME [Next]_vars, ~disturbed'
  PROVE  ~disturbed
<1>1. CASE \E f \in ToSet(Files) : FlushFile(f)
  BY <1>1 DEF FlushFile
<1>2. CASE Rebuild
  BY <1>2 DEF Rebuild
<1>3. CASE FlushEnds
  BY <1>3 DEF FlushEnds
<1>4. CASE SyncVectors
  BY <1>4 DEF SyncVectors
<1>5. CASE SyncFails
  BY <1>5 DEF SyncFails
<1>6. CASE SlotHolds
  BY <1>6 DEF SlotHolds
<1>7. CASE Supersede
  BY <1>7 DEF Supersede
<1>8. CASE Duplicate
  BY <1>8 DEF Duplicate
<1>9. CASE AppendEntry
  BY <1>9 DEF AppendEntry
<1>10. CASE \E hard \in BOOLEAN : ForgetHit(hard)
  BY <1>10 DEF ForgetHit
<1>11. CASE Promote
  BY <1>11 DEF Promote
<1>12. CASE Recall
  BY <1>12 DEF Recall
<1>13. CASE StoreCandidate
  BY <1>13 DEF StoreCandidate
<1>14. CASE \E t \in Texts : Store(t)
  BY <1>14 DEF Store
<1>15. CASE \E candidates \in Captures : Capture(candidates)
  BY <1>15 DEF Capture
<1>16. CASE \E t \in Texts, hard \in BOOLEAN : ForgetText(t, hard)
  BY <1>16 DEF ForgetText
<1>17. CASE \E f \in ToSet(Files), t, u \in Texts : Update(f, t, u)
  BY <1>17 DEF Update
<1>18. CASE ForgetQuery
  BY <1>18 DEF ForgetQuery
<1>19. CASE Reflect
  BY <1>19 DEF Reflect
<1>20. CASE FlushMetadata
  BY <1>20 DEF FlushMetadata
<1>21. CASE Search
  BY <1>21 DEF Search
<1>22. CASE Record
  BY <1>22 DEF Record
<1>23. CASE Kill
  BY <1>23 DEF Kill
<1>24. CASE \E f \in ToSet(Files) : Edit(f)
  BY <1>24 DEF Edit
<1>25. CASE UNCHANGED vars
  BY <1>25 DEF vars
<1>26. QED
  BY <1>1, <1>2, <1>3, <1>4, <1>5, <1>6, <1>7, <1>8, <1>9, <1>10, <1>11, <1>12, <1>13, <1>14, <1>15, <1>16, <1>17, <1>18, <1>19, <1>20, <1>21, <1>22, <1>23, <1>24, <1>25 DEF Next, Continue

\* A step of another kind that writes no file, no row and no answer.
LEMMA FactsIdle ==
  ASSUME BaseInv, Facts, UNCHANGED <<file, rows, told>>, ~Unindexed, cmd.then = "rest",
         cmd'.at # "append", cmd'.then # "stored"
  PROVE  Facts'
<1>1. \A f \in ToSet(Files) : DOMAIN file'[f] = DOMAIN file[f]
         /\ \A i \in DOMAIN file[f] : SameFact(file'[f][i], file[f][i])
  BY DEF SameFact
<1>2. cmd.at # "append" /\ cmd.then # "stored"
  BY DEF Unindexed
<1>3. QED
  BY <1>1, <1>2, FactsKept

LEMMA FactStep ==
  ASSUME BaseInv, RowsAgree, FactInv, [Next]_vars
  PROVE  FactInv'
<1>1. CASE disturbed'
  BY <1>1 DEF FactInv
<1>2. CASE ~disturbed'
  <2>0. ~disturbed /\ Facts
    <3>1. ~disturbed
      BY <1>2, DisturbedStays
    <3>2. QED
      BY <3>1 DEF FactInv
  <2> SUFFICES Facts'
    BY DEF FactInv
  <2>1. cmd.at \in {"rest", "slot", "capture", "forget", "reflect", "search"} => cmd.then = "rest" /\ ~Unindexed
    BY DEF BaseInv, Control, Unindexed
  <2>2. CASE \E f \in ToSet(Files) : FlushFile(f)
    <3>1. PICK f \in ToSet(Files) : FlushFile(f)
      BY <2>2
    <3>2. /\ cmd.at = "flush" /\ file' = [file EXCEPT ![f] = Synced(f)] /\ UNCHANGED <<rows, told>>
          /\ cmd'.at = "flush" /\ cmd'.then = cmd.then /\ cmd'.text = cmd.text
      BY <3>1 DEF FlushFile, tables, BaseInv, CmdTyped
    <3>3. /\ \A i \in DOMAIN file[f] : SameFact(Synced(f)[i], file[f][i])
          /\ DOMAIN Synced(f) = DOMAIN file[f]
      BY <2>0, <3>2, FlushSame, SyncedTyped DEF BaseInv
    <3>4. \A g \in ToSet(Files) : DOMAIN file'[g] = DOMAIN file[g]
             /\ \A i \in DOMAIN file[g] : SameFact(file'[g][i], file[g][i])
      BY <3>2, <3>3 DEF SameFact, BaseInv, Types
    <3>5. Unindexed => Unindexed'
      BY <3>2 DEF Unindexed
    <3>6. QED
      BY <2>0, <3>2, <3>4, <3>5, FactsKept
  <2>3. CASE Rebuild
    BY <2>0, <2>3, RebuildFacts
  <2>4. CASE FlushEnds
    <3>1. cmd.then = "rest" /\ ~Unindexed /\ UNCHANGED <<file, rows, told>> /\ cmd'.at = "rest" /\ cmd'.then = "rest"
      BY <2>4 DEF FlushEnds, disk, tables, Unindexed, Rest
    <3>2. QED
      BY <2>0, <3>1, FactsIdle
  <2>5. CASE SyncVectors
    <3>1. cmd.at = "sync" /\ Return(TRUE) /\ UNCHANGED <<file, rows>>
      BY <2>5 DEF SyncVectors
    <3>2. PICK ok : Return(ok)
      BY <3>1
    <3>3. QED
      BY <2>0, <3>1, <3>2, ReturnFacts
  <2>6. CASE SyncFails
    <3>1. cmd.at = "sync" /\ Return(FALSE) /\ UNCHANGED <<file, rows>>
      BY <2>6 DEF SyncFails
    <3>2. PICK ok : Return(ok)
      BY <3>1
    <3>3. QED
      BY <2>0, <3>1, <3>2, ReturnFacts
  <2>7. CASE SlotHolds
    BY <2>0, <2>7, SlotFacts
  <2>8. CASE Supersede
    BY <2>0, <2>8, SupersedeFacts
  <2>9. CASE Duplicate
    <3>1. cmd.at = "slot" /\ Stored /\ UNCHANGED <<file, rows, told>>
      BY <2>9 DEF Duplicate, SlotFree, disk, tables
    <3>2. cmd'.at \in {"rest", "capture"} /\ cmd'.then = "rest"
      BY <3>1, StoredCmd DEF BaseInv
    <3>3. QED
      BY <2>0, <2>1, <3>1, <3>2, FactsIdle
  <2>10. CASE AppendEntry
    BY <2>0, <2>10, AppendFacts
  <2>11. CASE \E hard \in BOOLEAN : ForgetHit(hard)
    <3>1. PICK hard \in BOOLEAN : ForgetHit(hard)
      BY <2>11
    <3>2. CASE UNCHANGED <<file, told>> /\ cmd' = Rest
      <4>1. cmd.at = "forget" /\ UNCHANGED rows /\ cmd'.at = "rest" /\ cmd'.then = "rest"
        BY <3>1, <3>2 DEF ForgetHit, tables, Rest
      <4>2. QED
        BY <2>0, <2>1, <3>2, <4>1, FactsIdle
    <3>3. CASE ~(UNCHANGED <<file, told>> /\ cmd' = Rest)
      BY <2>0, <3>1, <3>3, ForgetHitFacts
    <3>4. QED
      BY <3>2, <3>3
  <2>12. CASE Promote
    <3>1. CASE cmd.todo = {}
      <4>1. cmd.at = "reflect" /\ UNCHANGED <<file, rows, told>> /\ cmd'.at = "flush" /\ cmd'.then = "reflected"
        BY <2>12, <3>1 DEF Promote, tables, Reindex, Rest
      <4>2. QED
        BY <2>0, <2>1, <4>1, FactsIdle
    <3>2. CASE cmd.todo # {}
      <4>1. cmd.at = "reflect"
        BY <2>12 DEF Promote
      <4>2. QED
        BY <2>0, <2>12, <3>2, <4>1, PromoteFacts
    <3>3. QED
      BY <3>1, <3>2
  <2>13. CASE Recall
    <3>1. cmd.at = "search" /\ UNCHANGED <<file, rows, told>> /\ cmd'.at = "rest" /\ cmd'.then = "rest"
      BY <2>13 DEF Recall, disk, tables, Rest
    <3>2. QED
      BY <2>0, <2>1, <3>1, FactsIdle
  <2>14. CASE StoreCandidate
    <3>1. cmd.at = "capture" /\ UNCHANGED <<file, rows, told>> /\ cmd'.at # "append" /\ cmd'.then # "stored"
      BY <2>14 DEF StoreCandidate, BeginStore, disk, tables, Rest
    <3>2. QED
      BY <2>0, <2>1, <3>1, FactsIdle
  <2>15. CASE \E t \in Texts : Store(t)
    <3>1. cmd.at = "rest" /\ UNCHANGED <<file, rows, told>> /\ cmd'.at # "append" /\ cmd'.then # "stored"
      BY <2>15 DEF Store, Command, BeginStore, disk, tables, Rest
    <3>2. QED
      BY <2>0, <2>1, <3>1, FactsIdle
  <2>16. CASE \E candidates \in Captures : Capture(candidates)
    <3>1. cmd.at = "rest" /\ UNCHANGED <<file, rows, told>> /\ cmd'.at # "append" /\ cmd'.then # "stored"
      BY <2>16 DEF Capture, Command, disk, tables, Rest
    <3>2. QED
      BY <2>0, <2>1, <3>1, FactsIdle
  <2>17. CASE \E t \in Texts, hard \in BOOLEAN : ForgetText(t, hard)
    BY <2>0, <2>17, ForgetTextFacts
  <2>18. CASE \E f \in ToSet(Files), t, u \in Texts : Update(f, t, u)
    BY <2>0, <2>18, UpdateFacts
  <2>19. CASE ForgetQuery
    <3>1. cmd.at = "rest" /\ UNCHANGED <<file, rows, told>> /\ cmd'.at # "append" /\ cmd'.then # "stored"
      BY <2>19 DEF ForgetQuery, Command, Reindex, disk, tables, Rest
    <3>2. QED
      BY <2>0, <2>1, <3>1, FactsIdle
  <2>20. CASE Reflect
    <3>1. cmd.at = "rest" /\ UNCHANGED <<file, rows, told>> /\ cmd'.at # "append" /\ cmd'.then # "stored"
      BY <2>20 DEF Reflect, Command, disk, tables, Rest
    <3>2. QED
      BY <2>0, <2>1, <3>1, FactsIdle
  <2>21. CASE FlushMetadata
    <3>1. cmd.at = "rest" /\ UNCHANGED <<file, rows, told>> /\ cmd'.at # "append" /\ cmd'.then # "stored"
      BY <2>21 DEF FlushMetadata, Command, disk, tables, Rest
    <3>2. QED
      BY <2>0, <2>1, <3>1, FactsIdle
  <2>22. CASE Search
    <3>1. cmd.at = "rest" /\ UNCHANGED <<file, rows, told>> /\ cmd'.at # "append" /\ cmd'.then # "stored"
      BY <2>22 DEF Search, Reindex, disk, tables, Rest
    <3>2. QED
      BY <2>0, <2>1, <3>1, FactsIdle
  <2>23. CASE Record
    <3>1. UNCHANGED <<file, cmd, told>>
      BY <2>23 DEF Record, disk
    <3>2. /\ DOMAIN rows' = DOMAIN rows
          /\ \A r \in DOMAIN rows : rows'[r].file = rows[r].file /\ rows'[r].pos = rows[r].pos
      BY <2>23, FeedbackRows DEF BaseInv, Types
    <3>3. \A f \in ToSet(Files) : DOMAIN file'[f] = DOMAIN file[f]
             /\ \A i \in DOMAIN file[f] : SameFact(file'[f][i], file[f][i])
      BY <3>1 DEF SameFact
    <3>4. /\ (cmd'.at = "append" <=> cmd.at = "append") /\ (cmd'.then = "stored" <=> cmd.then = "stored")
          /\ cmd'.text = cmd.text /\ (Unindexed => Unindexed')
      BY <3>1 DEF Unindexed
    <3>5. QED
      BY <2>0, <3>1, <3>2, <3>3, <3>4, FactsKept
  <2>24. CASE Kill \/ \E f \in ToSet(Files) : Edit(f)
    BY <1>2, <2>24 DEF Kill, Edit
  <2>25. CASE UNCHANGED vars
    <3>1. UNCHANGED <<file, rows, told, cmd>>
      BY <2>25 DEF vars, disk, tables
    <3>2. QED
      BY <2>0, <3>1 DEF Facts, DailyKeyless, OneLine, Cleared, StoreWritten, ToldIsWritten,
                        LinesHaveRows, Holds, Written, Busy, Unindexed
  <2>26. QED
    BY <2>2, <2>3, <2>4, <2>5, <2>6, <2>7, <2>8, <2>9, <2>10, <2>11, <2>12, <2>13, <2>14, <2>15, <2>16, <2>17, <2>18, <2>19, <2>20, <2>21, <2>22, <2>23, <2>24, <2>25 DEF Next, Continue
<1>3. QED
  BY <1>1, <1>2

\* A workspace whose notes are of no fact key, or invalidated.
NotesKeyless == \A n \in Notes : \A i \in DOMAIN n : n[i].dead \/ n[i].key = NoKey

LEMMA InitFacts ==
  ASSUME NotesKeyless, Init
  PROVE  FactInv
<1>1. PICK n \in Notes : file = [f \in ToSet(Files) |-> IF f = "daily" THEN n ELSE <<>>]
  BY DEF Init
<1>2. file["daily"] = n /\ file["bank"] = <<>> /\ DOMAIN file["bank"] = {}
  BY <1>1, TwoFiles
<1>3. cmd.at = "rest" /\ cmd.then = "rest" /\ told = [k \in Keys |-> NoText]
  BY DEF Init, Rest
<1>4. DailyKeyless
  <2>1. NoKey \notin Keys
    BY DEF Keys
  <2>2. QED
    BY <1>2, <2>1 DEF DailyKeyless, Holds, NotesKeyless
<1>5. OneLine /\ LinesHaveRows
  BY <1>2 DEF OneLine, LinesHaveRows
<1>6. Cleared /\ StoreWritten /\ ToldIsWritten
  BY <1>3 DEF Cleared, StoreWritten, ToldIsWritten
<1>7. QED
  BY <1>4, <1>5, <1>6 DEF FactInv, Facts

\* As long as no command is killed and nobody edits the files, the registry
\* answers a key with the value that the last store of it reported - in a
\* workspace whose daily log starts with no live line of a fact key: a line of
\* that kind has no row in the bank for a store to supersede.
THEOREM StoredFactsAreCurrent ==
  ASSUME NotesKeyless
  PROVE  Spec => []StoredFactIsCurrent
<1>1. Init => FactInv
  BY InitFacts
<1>2. BaseInv /\ RowsAgree /\ FactInv /\ [Next]_vars => FactInv'
  BY FactStep
<1>3. BaseInv /\ RowsAgree /\ FactInv => StoredFactIsCurrent
  <2>1. SUFFICES ASSUME BaseInv, RowsAgree, FactInv, cmd.at = "rest", ~disturbed,
                        NEW k \in Keys, told[k] # NoText
                 PROVE  Current(k) # 0 /\ rows[Current(k)].line.text = told[k]
    BY DEF StoredFactIsCurrent
  <2>2. Facts /\ ~Unindexed /\ ~Busy(k)
    BY <2>1 DEF FactInv, Unindexed, Busy, BaseInv, Control
  <2>3. PICK n \in DOMAIN file["bank"] : Holds(k, "bank", n) /\ file["bank"][n].text = told[k]
    BY <2>1, <2>2 DEF Facts, ToldIsWritten, Written
  <2>4. QED
    BY <2>1, <2>2, <2>3, LiveIsCurrent
<1>4. QED
  BY <1>1, <1>2, <1>3, AlwaysAgree, PTL DEF Spec

===============================================================================

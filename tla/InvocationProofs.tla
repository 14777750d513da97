-------------------------- MODULE InvocationProofs --------------------------
(***************************************************************************)
(* Proofs of OkMeansExchanged and NoSpuriousFailure, for every kind of     *)
(* client and server, every capacity and streams of any length.            *)
(***************************************************************************)
EXTENDS Invocation, SequenceTheorems, TLAPS

-----------------------------------------------------------------------------
(* The inductive invariant                                                 *)

Directions == [q : Seq(Token), end : {"open", "fin", "reset"}, gone : BOOLEAN, lost : BOOLEAN]
Streams == [n : Nat, st : {"open", "end", "left", "failed"}]
Task == {"none", "run", "done", "failed", "dropped"}

TypeInv ==
    /\ kind \in Kinds
    /\ up \in Directions /\ down \in Directions
    /\ serving \in {"none", "open", "dropped"} /\ store \in {"open", "stopped"}
    /\ call \in {"start", "wait", "io", "ok", "err"}
    /\ srv \in {"off", "queued", "sent", "handler", "tx", "await", "ok", "err"}
    /\ ptx \in Task /\ prx \in Task /\ rrx \in {"none", "run", "done", "failed"}
    /\ results \in Streams /\ params \in Streams
    /\ wrote \in [up : Seq(Token), down : Seq(Token)]
    /\ taken \in Nat
    /\ cause \in SUBSET {"transport", "invoke", "app", "timeout", "unserved", "handler", "trap", "cancel"}

\* Data is lost only with its reader, and a reader that loses nothing read all.
Noted(d) == (d.lost => d.gone) /\ (d.gone /\ ~d.lost => d.q = <<>>)

\* The end of a stream is under way only as the last of what was written.
EndLast(d, ws) == \A i \in 1..Len(d.q) : d.q[i] = "end" => i = Len(d.q) /\ Whole(ws)

\* The parameter
UpInv ==
    /\ Noted(up) /\ EndLast(up, wrote.up)
    /\ call = "start" => up.q = <<>> /\ wrote.up = <<>>
    /\ ptx = "run" => ~Whole(wrote.up)
    /\ ptx = "done" => Whole(wrote.up)
    /\ prx = "done" => Whole(wrote.up) /\ up.q = <<>>
    /\ params.st = "end" => Whole(wrote.up)

\* The result, and how much of it was taken
AllTaken == Whole(wrote.down) /\ taken = Len(wrote.down) /\ down.q = <<>>
DownInv ==
    /\ Noted(down) /\ EndLast(down, wrote.down)
    /\ \A i \in 1..Len(down.q) : down.q[i] = "end" => taken + Len(down.q) = Len(wrote.down)
    /\ down.end # "reset" /\ ~down.lost => taken + Len(down.q) = Len(wrote.down)
    /\ srv \in {"off", "queued", "sent", "handler", "tx"} => ~Whole(wrote.down)
    /\ srv \in {"await", "ok"} => Whole(wrote.down)
    /\ rrx = "done" => AllTaken
    /\ results.st = "end" => AllTaken

\* The stages of both sides
StageInv ==
    /\ call = "start" => ptx \in (IF Guest THEN {"run", "dropped"} ELSE {"none"})
    /\ call \in {"start", "wait"} /\ ~Guest => rrx = "none"
    /\ Host /\ call \in {"start", "wait", "io"} => results.st = "open"
    /\ Guest => ptx # "none"
    /\ Guest /\ call # "start" /\ results.st # "open" => down.gone
    /\ Guest /\ call = "ok" => taken = Len(wrote.down) /\ down.q = <<>> /\ down.end # "open"
    /\ call = "ok" => ptx \in {"done", "dropped"} /\ (Typed \/ GoClient => rrx = "done")
    /\ HostServer => prx = "none"
    /\ srv = "ok" /\ (Stub \/ GoServer) => prx = "done"

\* As long as there is no cause for a failure, nothing was reset, lost or left,
\* a reader is gone only after the end of its stream, and a direction ends only
\* with it.
EndsWith(d) == d.q # <<>> /\ d.q[Len(d.q)] = "end"
Calm ==
    /\ call # "err" /\ srv # "err" /\ serving # "dropped" /\ store = "open"
    /\ {ptx, prx, rrx} \subseteq {"none", "run", "done"}
    /\ {results.st, params.st} \subseteq {"open", "end"}
    /\ up.end # "reset" /\ down.end # "reset" /\ ~down.lost
    /\ up.gone => Whole(wrote.up) /\ prx # "run"
    /\ up.gone \/ prx # "none" => srv \in {"handler", "tx", "await", "ok"}
    /\ down.gone => Whole(wrote.down) /\ (IF Typed \/ GoClient THEN rrx = "done" ELSE results.st = "end")
    /\ up.end # "open" => up.gone \/ EndsWith(up)
    /\ down.end # "open" => down.gone \/ EndsWith(down)
CalmInv == cause = {} => Calm

InvocationInv == TypeInv /\ UpInv /\ DownInv /\ StageInv /\ CalmInv

-----------------------------------------------------------------------------
(* What the operations of a direction do                                   *)

\* A step that writes and reads nothing: what is under way stays, or is lost to
\* a reset, and whoever is gone, and what is lost or over, remains so.
Keeps(d, e) ==
    /\ e \in Directions /\ Noted(e)
    /\ e.q = d.q \/ (e.q = <<>> /\ e.end = "reset")
    /\ d.end = "reset" => e.end = "reset"
    /\ e.end = "open" => d.end = "open"
    /\ d.gone => e.gone
    /\ d.lost => e.lost

\* The fields of a direction, and the directions that a step may make of it.
LEMMA DirectionFields ==
    ASSUME NEW d \in Directions
    PROVE  d.q \in Seq(Token) /\ d.end \in {"open", "fin", "reset"} /\ d.gone \in BOOLEAN /\ d.lost \in BOOLEAN
BY DEF Directions

LEMMA DropWriterFields ==
    ASSUME NEW d \in Directions
    PROVE  /\ DropWriter(d) \in Directions
           /\ DropWriter(d).q = d.q /\ DropWriter(d).gone = d.gone /\ DropWriter(d).lost = d.lost
           /\ DropWriter(d).end = IF d.end = "open" THEN "fin" ELSE d.end
BY DEF Directions, DropWriter

LEMMA DropReaderFields ==
    ASSUME NEW d \in Directions
    PROVE  /\ DropReader(d) \in Directions
           /\ DropReader(d).q = d.q /\ DropReader(d).end = d.end
           /\ DropReader(d).gone
           /\ DropReader(d).lost <=> d.lost \/ (~d.gone /\ d.q # <<>>)
BY DEF Directions, DropReader

LEMMA ResetFields ==
    ASSUME NEW d \in Directions, NEW k \in BOOLEAN
    PROVE  /\ Reset(d, k) \in Directions
           /\ Reset(d, k).q = (IF k THEN d.q ELSE <<>>) /\ Reset(d, k).end = "reset"
           /\ Reset(d, k).gone = d.gone /\ Reset(d, k).lost = d.lost
<1>1. CASE k
  BY <1>1 DEF Directions, Reset
<1>2. CASE ~k
  <2>1. <<>> \in Seq(Token)
    OBVIOUS
  <2> QED
    BY <1>2, <2>1 DEF Directions, Reset
<1> QED
  BY <1>1, <1>2

LEMMA WrittenFields ==
    ASSUME NEW d \in Directions, NEW v \in Token
    PROVE  /\ Written(d, v) \in Directions
           /\ Written(d, v).q = IF d.gone THEN d.q ELSE Append(d.q, v)
           /\ Written(d, v).end = d.end /\ Written(d, v).gone = d.gone
           /\ Written(d, v).lost <=> d.lost \/ d.gone
<1>1. CASE d.gone
  BY <1>1 DEF Directions, Written
<1>2. CASE ~d.gone
  <2>1. Append(d.q, v) \in Seq(Token)
    BY DEF Directions
  <2> QED
    BY <1>2, <2>1 DEF Directions, Written
<1> QED
  BY <1>1, <1>2

LEMMA ReadFields ==
    ASSUME NEW d \in Directions, d.q # <<>>
    PROVE  /\ Read(d) \in Directions
           /\ Read(d).q = Tail(d.q) /\ Read(d).end = d.end
           /\ Read(d).gone = d.gone /\ Read(d).lost = d.lost
<1>1. Tail(d.q) \in Seq(Token)
  BY DEF Directions
<1> QED
  BY <1>1 DEF Directions, Read

LEMMA KeepsReaderGone ==
    ASSUME NEW d \in Directions, Noted(d)
    PROVE  Keeps(d, DropReader(d))
BY DropReaderFields, DirectionFields DEF Keeps, Noted

LEMMA KeepsTwice ==
    ASSUME NEW d, NEW e, NEW f, Keeps(d, e), Keeps(e, f)
    PROVE  Keeps(d, f)
BY DEF Keeps

LEMMA Kept ==
    ASSUME NEW d \in Directions, Noted(d)
    PROVE  /\ Keeps(d, d) /\ Keeps(d, DropWriter(d)) /\ Keeps(d, DropReader(d))
           /\ Keeps(d, [d EXCEPT !.end = "reset"])
           /\ \A k \in BOOLEAN : Keeps(d, Reset(d, k)) /\ Keeps(d, DropReader(Reset(d, k)))
<1>1. Keeps(d, d)
  BY DEF Keeps
<1>2. Keeps(d, DropWriter(d))
  BY DropWriterFields, DirectionFields DEF Keeps, Noted
<1>3. Keeps(d, DropReader(d))
  BY KeepsReaderGone
<1>4. ASSUME NEW k \in BOOLEAN PROVE Keeps(d, Reset(d, k))
  BY ResetFields, DirectionFields DEF Keeps, Noted
<1>5. ASSUME NEW k \in BOOLEAN PROVE Keeps(d, DropReader(Reset(d, k)))
  <2>1. Keeps(Reset(d, k), DropReader(Reset(d, k)))
    BY <1>4, KeepsReaderGone DEF Keeps
  <2> QED
    BY <1>4, <2>1, KeepsTwice
<1>6. [d EXCEPT !.end = "reset"] = Reset(d, TRUE)
  BY DEF Directions, Reset
<1> QED
  BY <1>1, <1>2, <1>3, <1>4, <1>5, <1>6

-----------------------------------------------------------------------------
(* Streams that are written and read                                       *)

LEMMA WholeAppended ==
    ASSUME NEW ws \in Seq(Token), NEW v \in Token
    PROVE  /\ Append(ws, v) \in Seq(Token) /\ Len(Append(ws, v)) = Len(ws) + 1
           /\ Whole(Append(ws, v)) <=> v = "end"
BY DEF Whole

LEMMA EndLastKept ==
    ASSUME NEW d \in Directions, NEW e, NEW ws, EndLast(d, ws), Keeps(d, e)
    PROVE  EndLast(e, ws)
BY DEF EndLast, Keeps

LEMMA EndLastWritten ==
    ASSUME NEW d \in Directions, NEW ws \in Seq(Token), NEW v \in Token,
           EndLast(d, ws), ~Whole(ws)
    PROVE  EndLast(Written(d, v), Append(ws, v))
<1>1. d.q \in Seq(Token)
  BY DirectionFields
<1>2. \A i \in 1..Len(d.q) : d.q[i] # "end"
  BY DEF EndLast
<1>3. CASE d.gone
  BY <1>2, <1>3, WrittenFields DEF EndLast
<1>4. CASE ~d.gone
  <2>1. Written(d, v).q = Append(d.q, v)
    BY <1>4, WrittenFields
  <2>2. ASSUME NEW i \in 1..Len(Append(d.q, v)), Append(d.q, v)[i] = "end"
        PROVE  i = Len(Append(d.q, v)) /\ Whole(Append(ws, v))
    <3>1. i = Len(d.q) + 1
      BY <1>1, <1>2, <2>2
    <3> QED
      BY <1>1, <2>2, <3>1, WholeAppended
  <2> QED
    BY <2>1, <2>2 DEF EndLast
<1> QED
  BY <1>3, <1>4

LEMMA EndLastRead ==
    ASSUME NEW d \in Directions, NEW ws, EndLast(d, ws), d.q # <<>>
    PROVE  /\ EndLast(Read(d), ws)
           /\ Len(Read(d).q) + 1 = Len(d.q)
           /\ Head(d.q) = "end" => Len(d.q) = 1 /\ Read(d).q = <<>> /\ Whole(ws)
<1>1. d.q \in Seq(Token) /\ Read(d).q = Tail(d.q)
  BY DirectionFields, ReadFields
<1>2. ASSUME NEW i \in 1..Len(Tail(d.q)), Tail(d.q)[i] = "end"
      PROVE  i = Len(Tail(d.q)) /\ Whole(ws)
  <2>1. i + 1 \in 1..Len(d.q) /\ d.q[i + 1] = "end"
    BY <1>1, <1>2
  <2> QED
    BY <1>1, <2>1 DEF EndLast
<1>3. ASSUME Head(d.q) = "end" PROVE Len(d.q) = 1 /\ Tail(d.q) = <<>> /\ Whole(ws)
  <2>1. 1 \in 1..Len(d.q) /\ d.q[1] = "end"
    BY <1>1, <1>3
  <2>2. Len(d.q) = 1 /\ Whole(ws)
    BY <1>1, <2>1 DEF EndLast
  <2>3. Tail(d.q) \in Seq(Token) /\ Len(Tail(d.q)) = 0
    BY <1>1, <2>2
  <2> QED
    BY <2>2, <2>3, EmptySeq
<1> QED
  BY <1>1, <1>2, <1>3 DEF EndLast

LEMMA NotedWritten ==
    ASSUME NEW d \in Directions, Noted(d), NEW v \in Token
    PROVE  Noted(Written(d, v)) /\ Noted(DropWriter(Written(d, v)))
BY WrittenFields, DropWriterFields, DirectionFields DEF Noted

LEMMA NotedRead ==
    ASSUME NEW d \in Directions, Noted(d), d.q # <<>>
    PROVE  Noted(Read(d)) /\ Noted(DropReader(Read(d)))
<1>1. Noted(Read(d)) /\ Read(d) \in Directions
  BY ReadFields, DirectionFields DEF Noted
<1> QED
  BY <1>1, KeepsReaderGone DEF Keeps

-----------------------------------------------------------------------------
(* What a step does to the parameter                                       *)

UpQuiet ==
    /\ wrote'.up = wrote.up /\ Keeps(up, up')
    /\ call' = "start" => call = "start"
    /\ ptx' \in {ptx, "failed", "dropped"}
    /\ prx' = "done" => prx = "done"
    /\ params'.st = "end" => params.st = "end" \/ prx = "done"

UpWrite(v) ==
    /\ call = "start" \/ ptx = "run"
    /\ wrote'.up = Append(wrote.up, v)
    /\ up' \in {Written(up, v), DropWriter(Written(up, v))}
    /\ call' # "start"
    /\ IF v = "end" THEN ptx' = "done" ELSE ptx' \in {"run", "dropped"}
    /\ prx' = prx /\ params' = params

UpRead ==
    /\ up.q # <<>> /\ wrote'.up = wrote.up
    /\ up' \in {Read(up), DropReader(Read(up))}
    /\ call' = call /\ ptx' = ptx
    /\ prx' = "done" => prx = "done" \/ Head(up.q) = "end"
    /\ params'.st = "end" => params.st = "end" \/ Head(up.q) = "end"

UpStep == UpQuiet \/ (\E v \in Token : UpWrite(v)) \/ UpRead

LEMMA UpPreserved ==
    ASSUME TypeInv, UpInv, UpStep
    PROVE  UpInv'
<1>0. up \in Directions /\ wrote.up \in Seq(Token)
  BY DEF TypeInv
<1>1. CASE UpQuiet
  <2>1. EndLast(up', wrote'.up)
    BY <1>0, <1>1, EndLastKept DEF UpInv, UpQuiet
  <2> QED
    BY <1>0, <1>1, <2>1 DEF UpInv, UpQuiet, Keeps
<1>2. ASSUME NEW v \in Token, UpWrite(v) PROVE UpInv'
  <2>1. ~Whole(wrote.up)
    BY <1>2 DEF UpInv, UpWrite, Whole
  <2>2. EndLast(Written(up, v), wrote'.up)
    BY <1>0, <1>2, <2>1, EndLastWritten DEF UpInv, UpWrite
  <2>3. EndLast(up', wrote'.up)
    BY <1>0, <1>2, <2>2, WrittenFields, DropWriterFields DEF EndLast, UpWrite
  <2>4. Noted(up')
    BY <1>0, <1>2, NotedWritten DEF UpInv, UpWrite
  <2>5. Whole(wrote'.up) <=> v = "end"
    BY <1>0, <1>2, WholeAppended DEF UpWrite
  <2> QED
    BY <1>2, <2>1, <2>3, <2>4, <2>5 DEF UpInv, UpWrite
<1>3. CASE UpRead
  <2>1. up'.q = Read(up).q /\ EndLast(Read(up), wrote.up)
    BY <1>0, <1>3, ReadFields, DropReaderFields, EndLastRead DEF UpInv, UpRead
  <2>2. EndLast(up', wrote'.up)
    BY <1>3, <2>1 DEF EndLast, UpRead
  <2>3. Noted(up')
    BY <1>0, <1>3, NotedRead DEF UpInv, UpRead
  <2>4. Head(up.q) = "end" => up'.q = <<>> /\ Whole(wrote.up)
    BY <1>0, <1>3, <2>1, EndLastRead DEF UpInv, UpRead
  <2> QED
    BY <1>3, <2>2, <2>3, <2>4 DEF UpInv, UpRead
<1> QED
  BY <1>1, <1>2, <1>3 DEF UpStep

-----------------------------------------------------------------------------
(* What a step does to the result                                          *)

DownQuiet ==
    /\ wrote'.down = wrote.down /\ taken' = taken /\ Keeps(down, down')
    /\ srv' \in {"off", "queued", "sent", "handler", "tx"} => srv \in {"off", "queued", "sent", "handler", "tx"}
    /\ srv' \in {"await", "ok"} => srv \in {"await", "ok"}
    /\ rrx' = "done" => rrx = "done"
    /\ results'.st = "end" => results.st = "end" \/ rrx = "done"

DownWrite(v) ==
    /\ srv = "tx" /\ down.end = "open"
    /\ wrote'.down = Append(wrote.down, v) /\ taken' = taken
    /\ down' \in {Written(down, v), DropWriter(Written(down, v))}
    /\ IF v = "end" THEN srv' \in {"await", "ok"} ELSE srv' = "tx"
    /\ rrx' = rrx /\ results' = results

DownRead ==
    /\ down.q # <<>> /\ wrote'.down = wrote.down /\ taken' = taken + 1
    /\ down' \in {Read(down), DropReader(Read(down))}
    /\ srv' = srv
    /\ rrx' = "done" => rrx = "done" \/ Head(down.q) = "end"
    /\ results'.st = "end" => results.st = "end" \/ Head(down.q) = "end"

DownStep == DownQuiet \/ (\E v \in Token : DownWrite(v)) \/ DownRead

LEMMA OneMore ==
    \A t, n \in Nat : (t + 1) + n = t + (n + 1)
OBVIOUS

LEMMA DownPreserved ==
    ASSUME TypeInv, DownInv, DownStep
    PROVE  DownInv'
<1>0. down \in Directions /\ wrote.down \in Seq(Token) /\ taken \in Nat /\ down.q \in Seq(Token)
  BY DirectionFields DEF TypeInv
<1>1. CASE DownQuiet
  <2>1. EndLast(down', wrote'.down)
    BY <1>0, <1>1, EndLastKept DEF DownInv, DownQuiet
  <2>2. down'.q = down.q \/ down'.q = <<>>
    BY <1>1 DEF DownQuiet, Keeps
  <2>3. \A i \in 1..Len(down'.q) : down'.q[i] = "end" => taken' + Len(down'.q) = Len(wrote'.down)
    BY <1>1, <2>2 DEF DownInv, DownQuiet
  <2>4. down'.end # "reset" /\ ~down'.lost => taken' + Len(down'.q) = Len(wrote'.down)
    BY <1>1 DEF DownInv, DownQuiet, Keeps
  <2>5. AllTaken => AllTaken'
    BY <1>1, <2>2 DEF DownQuiet, AllTaken
  <2> QED
    BY <1>1, <2>1, <2>3, <2>4, <2>5 DEF DownInv, DownQuiet, Keeps
<1>2. ASSUME NEW v \in Token, DownWrite(v) PROVE DownInv'
  <2>1. ~Whole(wrote.down)
    BY <1>2 DEF DownInv, DownWrite
  <2>2. EndLast(Written(down, v), wrote'.down)
    BY <1>0, <1>2, <2>1, EndLastWritten DEF DownInv, DownWrite
  <2>3. /\ down'.q = Written(down, v).q /\ down'.lost = Written(down, v).lost
        /\ Written(down, v).lost <=> down.lost \/ down.gone
    BY <1>0, <1>2, WrittenFields, DropWriterFields DEF DownWrite
  <2>4. EndLast(down', wrote'.down)
    BY <2>2, <2>3 DEF EndLast
  <2>5. Noted(down')
    BY <1>0, <1>2, NotedWritten DEF DownInv, DownWrite
  <2>6. Whole(wrote'.down) <=> v = "end"
    BY <1>0, <1>2, WholeAppended DEF DownWrite
  <2>7. CASE down.gone
    <3>1. down'.q = down.q
      BY <1>0, <2>3, <2>7, WrittenFields
    <3>2. \A i \in 1..Len(down'.q) : down'.q[i] # "end"
      BY <2>1, <3>1 DEF DownInv, EndLast
    <3> QED
      BY <1>2, <2>1, <2>3, <2>4, <2>5, <2>6, <2>7, <3>2 DEF DownInv, DownWrite, AllTaken
  <2>8. CASE ~down.gone
    <3>1. down'.q = Append(down.q, v)
      BY <1>0, <2>3, <2>8, WrittenFields
    <3>2. taken + Len(down.q) = Len(wrote.down)
      BY <1>2, <2>8 DEF DownInv, DownWrite, Noted
    <3>3. taken' + Len(down'.q) = Len(wrote'.down)
      BY <1>0, <1>2, <3>1, <3>2 DEF DownWrite
    <3> QED
      BY <1>2, <2>1, <2>4, <2>5, <2>6, <3>3 DEF DownInv, DownWrite, AllTaken
  <2> QED
    BY <2>7, <2>8
<1>3. CASE DownRead
  <2>1. /\ down'.q = Read(down).q /\ Read(down).q = Tail(down.q) /\ EndLast(Read(down), wrote.down)
        /\ Len(down'.q) + 1 = Len(down.q)
    BY <1>0, <1>3, ReadFields, DropReaderFields, EndLastRead DEF DownInv, DownRead
  <2>2. EndLast(down', wrote'.down)
    BY <1>3, <2>1 DEF EndLast, DownRead
  <2>3. Noted(down')
    BY <1>0, <1>3, NotedRead DEF DownInv, DownRead
  <2>4. down'.q \in Seq(Token)
    BY <1>0, <1>3, <2>1 DEF DownRead
  <2>9. taken' + Len(down'.q) = taken + Len(down.q) /\ wrote'.down = wrote.down
    <3>1. Len(down'.q) \in Nat /\ Len(down.q) \in Nat /\ taken' = taken + 1
      BY <1>0, <1>3, <2>4 DEF DownRead
    <3>2. Len(down.q) = Len(down'.q) + 1
      BY <1>0, <2>1, <2>4
    <3>3. (taken + 1) + Len(down'.q) = taken + (Len(down'.q) + 1)
      BY <1>0, <3>1, OneMore, Zenon
    <3>4. taken' + Len(down'.q) = taken + Len(down.q)
      BY <3>1, <3>2, <3>3, Zenon
    <3> QED
      BY <1>3, <3>4 DEF DownRead
  <2>5. \A i \in 1..Len(down'.q) : down'.q[i] = "end" => taken' + Len(down'.q) = Len(wrote'.down)
    <3>1. ASSUME NEW i \in 1..Len(down'.q), down'.q[i] = "end"
          PROVE  i + 1 \in 1..Len(down.q) /\ down.q[i + 1] = "end"
      BY <1>0, <1>3, <2>1, <3>1 DEF DownRead
    <3> QED
      BY <2>9, <3>1 DEF DownInv
  <2>6. down'.end # "reset" /\ ~down'.lost => taken' + Len(down'.q) = Len(wrote'.down)
    <3>1. down'.end = down.end /\ (down.lost => down'.lost)
      BY <1>0, <1>3, ReadFields, DropReaderFields DEF DownRead
    <3> QED
      BY <2>9, <3>1 DEF DownInv
  <2>7. ASSUME Head(down.q) = "end" PROVE AllTaken'
    <3>1. Len(down.q) = 1 /\ down'.q = <<>> /\ Whole(wrote.down)
      BY <1>0, <1>3, <2>1, <2>7, EndLastRead DEF DownInv, DownRead
    <3>2. down.q[1] = "end"
      BY <1>0, <1>3, <2>7 DEF DownRead
    <3>3. taken + 1 = Len(wrote.down)
      BY <3>1, <3>2 DEF DownInv
    <3> QED
      BY <1>3, <3>1, <3>3 DEF AllTaken, DownRead
  <2>8. ~AllTaken
    BY <1>3 DEF AllTaken, DownRead
  <2> QED
    BY <1>3, <2>2, <2>3, <2>5, <2>6, <2>7, <2>8 DEF DownInv, DownRead
<1> QED
  BY <1>1, <1>2, <1>3 DEF DownStep

-----------------------------------------------------------------------------
(* Every step is of one of those forms                                     *)

Steps == UpStep /\ DownStep

LEMMA BothKept ==
    ASSUME TypeInv, UpInv, DownInv
    PROVE  /\ Keeps(up, up) /\ Keeps(up, DropWriter(up)) /\ Keeps(up, DropReader(up))
           /\ Keeps(up, [up EXCEPT !.end = "reset"])
           /\ \A k \in BOOLEAN : Keeps(up, Reset(up, k)) /\ Keeps(up, DropReader(Reset(up, k)))
           /\ Keeps(down, down) /\ Keeps(down, DropWriter(down)) /\ Keeps(down, DropReader(down))
           /\ \A k \in BOOLEAN : Keeps(down, Reset(down, k)) /\ Keeps(down, DropReader(Reset(down, k)))
BY Kept DEF TypeInv, UpInv, DownInv

LEMMA QuietSteps ==
    ASSUME UpQuiet, DownQuiet
    PROVE  Steps
BY DEF Steps, UpStep, DownStep

LEMMA CallSteps ==
    ASSUME TypeInv, UpInv, DownInv, StageInv, CallStep
    PROVE  Steps
<1> USE BothKept, QuietSteps DEF client, server
<1>1. ASSUME StartCall PROVE Steps
  BY <1>1
  DEF StartCall, Steps, UpStep, UpWrite, DownStep, DownQuiet, Token, TypeInv, UpInv
<1>2. ASSUME CallFails PROVE Steps
  BY <1>2
  DEF CallFails, UpQuiet, DownQuiet
<1>3. ASSUME ResultsRead, ptx' = ptx PROVE Steps
  BY <1>3
  DEF ResultsRead, Has, Steps, UpStep, UpQuiet, DownStep, DownRead
<1>4. ASSUME CallDropped PROVE Steps
  BY <1>4
  DEF CallDropped, DropCall, UpQuiet, DownQuiet
<1>5. ASSUME CallDone PROVE Steps
  BY <1>5
  DEF CallDone, UpQuiet, DownQuiet
<1>6. CASE TypedCall
  <2>1. CASE ReceiveResult
    BY <2>1
    DEF ReceiveResult, DropCall, Has, Steps, UpStep, UpQuiet, DownStep, DownQuiet, DownRead, TypeInv, Streams
  <2>2. CASE ReceiveResultEnd
    BY <2>2
    DEF ReceiveResultEnd, Has, Steps, UpStep, UpQuiet, DownStep, DownRead
  <2> QED
    BY <1>1, <1>2, <1>3, <1>4, <1>5, <1>6, <2>1, <2>2
    DEF TypedCall, Invoke, InvokeFail, Results, KeptTask, ResultsFail, IoFail, IoDone
<1>7. CASE HostCall
  BY <1>1, <1>2, <1>3, <1>4, <1>5, <1>7
  DEF HostCall, HostInvoke, HostInvokeFail, HostResults, HostResultsFail, HostIoFail, HostIoDone
<1>8. CASE GuestCall
  <2>1. CASE Transmit
    BY <2>1
    DEF Transmit, Steps, UpStep, UpWrite, DownStep, DownQuiet, Token, TypeInv, UpInv, StageInv
  <2>2. CASE TransmitFail
    BY <2>2
    DEF TransmitFail, ParamUntransmitted, ResultUntransmitted, UpQuiet, DownQuiet, TypeInv, Streams
  <2>3. CASE Finished
    BY <2>3
    DEF Finished, UpQuiet, DownQuiet
  <2> QED
    BY <1>8, <2>1, <2>2, <2>3 DEF GuestCall
<1>9. CASE GoCall
  <2>1. CASE GoResultsFail
    BY <2>1
    DEF GoResultsFail, ResetAndLeave, UpQuiet, DownQuiet
  <2>2. CASE GoIoDone
    BY <2>2
    DEF GoIoDone, UpQuiet, DownQuiet
  <2> QED
    BY <1>1, <1>2, <1>3, <1>9, <2>1, <2>2 DEF GoCall, GoInvoke, GoInvokeFail, GoResults
<1> QED
  BY <1>6, <1>7, <1>8, <1>9 DEF CallStep

LEMMA ClientSteps ==
    ASSUME TypeInv, UpInv, DownInv, StageInv, ParamTask \/ GoReceipt \/ ReadResult \/ AppStops
    PROVE  Steps
<1> USE BothKept, QuietSteps DEF client, server
<1>1. CASE ParamTask
  <2>1. ASSUME NEW v \in Token, ParamWritten(v), call # "start" PROVE Steps
    BY <2>1
    DEF ParamWritten, Steps, UpStep, UpWrite, DownStep, DownQuiet, TypeInv
  <2>2. ASSUME ParamFails, up' = DropWriter(up), down' = down PROVE Steps
    BY <2>2
    DEF ParamFails, UpQuiet, DownQuiet
  <2>3. CASE GoWriteParamFail
    BY <2>3
    DEF GoWriteParamFail, ParamFails, ResetBoth, UpQuiet, DownQuiet
  <2>4. ASSUME NEW v \in Token, WriteParam(v) \/ HostWriteParam(v) \/ GuestWriteParam(v) \/ GoWriteParam(v)
        PROVE  ParamWritten(v) /\ call # "start"
    BY <2>4
    DEF WriteParam, HostWriteParam, GuestWriteParam, GoWriteParam, ParamWritten, Transmitted, StageInv,
        Typed, Host, GoClient, Guest
  <2> QED
    BY <1>1, <2>1, <2>2, <2>3, <2>4
    DEF ParamTask, WriteParamFail, HostWriteParamFail, GuestWriteParamFail
<1>2. CASE GoReceipt
  <2>1. CASE GoReceiveResult
    BY <2>1
    DEF GoReceiveResult, Has, Steps, UpStep, UpQuiet, DownStep, DownRead, TypeInv, Streams
  <2>2. CASE GoReceiveResultEnd
    BY <2>2
    DEF GoReceiveResultEnd, Has, Steps, UpStep, UpQuiet, DownStep, DownRead
  <2>3. CASE GoReceiveResultFail
    BY <2>3
    DEF GoReceiveResultFail, ResetAndLeave, UpQuiet, DownQuiet
  <2> QED
    BY <1>2, <2>1, <2>2, <2>3 DEF GoReceipt
<1>3. CASE ReadResult
  <2>1. CASE TakeResult \/ EndResult
    BY <2>1
    DEF TakeResult, EndResult, UpQuiet, DownQuiet, TypeInv, Streams
  <2>2. CASE ReadSync \/ ReadData \/ ReadEnd
    BY <2>2
    DEF ReadSync, ReadData, ReadEnd, Has, Steps, UpStep, UpQuiet, DownStep, DownRead, TypeInv, Streams
  <2>3. CASE ReadFail
    BY <2>3
    DEF ReadFail, UpQuiet, DownQuiet, TypeInv, Streams
  <2> QED
    BY <1>3, <2>1, <2>2, <2>3 DEF ReadResult
<1>4. CASE AppStops
  <2>1. ASSUME NEW why, CallLeft(why) PROVE Steps
    BY <2>1
    DEF CallLeft, DropCall, UpQuiet, DownQuiet
  <2>2. CASE LeaveResult \/ HostDropResult \/ DropIncoming
    BY <2>2
    DEF LeaveResult, HostDropResult, DropIncoming, UpQuiet, DownQuiet, TypeInv, Streams
  <2>3. CASE DropOutgoing
    BY <2>3
    DEF DropOutgoing, UpQuiet, DownQuiet
  <2>4. CASE GoLeaveCall
    BY <2>4
    DEF GoLeaveCall, ResetAndLeave, UpQuiet, DownQuiet
  <2> QED
    BY <1>4, <2>1, <2>2, <2>3, <2>4 DEF AppStops, LeaveCall, HostLeaveCall, HostTimeout
<1> QED
  BY <1>1, <1>2, <1>3, <1>4

LEMMA ServerSteps ==
    ASSUME TypeInv, UpInv, DownInv, StageInv, Serving \/ ServerStep
    PROVE  Steps
<1> USE BothKept, QuietSteps DEF client, server
<1>1. ASSUME NEW task \in {"none", "run"}, ParamsRead(task), srv \in {"queued", "sent"} PROVE Steps
  BY <1>1
  DEF ParamsRead, Has, Steps, UpStep, UpRead, DownStep, DownQuiet
<1>2. ASSUME InvocationDropped PROVE Steps
  BY <1>2
  DEF InvocationDropped, DropInvocation, DropConnection, UpQuiet, DownQuiet
<1>3. ASSUME NEW v \in Token, NEW after \in {"await", "ok"}, ResultWritten(v, after) PROVE Steps
  BY <1>3
  DEF ResultWritten, CanWrite, AfterResults, Steps, UpStep, UpQuiet, DownStep, DownWrite, TypeInv
<1>4. ASSUME NEW why, GoFails(why) PROVE Steps
  BY <1>4
  DEF GoFails, ResetBoth, UpQuiet, DownQuiet
<1>5. ASSUME Registered \/ Started \/ ReceiptDone PROVE Steps
  BY <1>5
  DEF Registered, Started, ReceiptDone, UpQuiet, DownQuiet
<1>6. CASE Serving
  <2>1. CASE ServeDrop \/ GoStop
    BY <2>1
    DEF ServeDrop, GoStop, DropInvocation, DropConnection, UpQuiet, DownQuiet
  <2> QED
    BY <1>5, <1>6, <2>1 DEF Serving, Serve, StoreServe, SharedServe, GoServe
<1>7. CASE RustServerStep
  <2>1. CASE Accept \/ AcceptFail
    BY <2>1
    DEF Accept, AcceptFail, DropInvocation, DropConnection, UpQuiet, DownQuiet
  <2> QED
    BY <1>1, <1>2, <1>3, <1>5, <1>7, <2>1
    DEF RustServerStep, ReceiveParams, ReceiveParamsFail, WriteResultFail, Await, WriteResult
<1>8. CASE HostServerStep
  BY <1>1, <1>2, <1>3, <1>5, <1>8
  DEF HostServerStep, StoreStart, SharedStart, SharedStartFail, HostParams, HostParamsFail, HostWriteResultFail,
      HostWriteResult
<1>9. CASE GoServerStep
  <2>1. CASE GoAccept \/ GoCancelled
    BY <2>1
    DEF GoAccept, GoCancelled, ResetBoth, UpQuiet, DownQuiet
  <2> QED
    BY <1>1, <1>3, <1>4, <1>5, <1>9, <2>1
    DEF GoServerStep, GoAcceptFail, GoParams, GoParamsFail, GoWriteResultFail, GoAwait, GoWriteResult
<1> QED
  BY <1>6, <1>7, <1>8, <1>9 DEF ServerStep

LEMMA HandlerSteps ==
    ASSUME TypeInv, UpInv, DownInv, StageInv,
           ReceiveTask \/ HandlerReads \/ HandlerReturns \/ HandlerStops \/ TransportFail
    PROVE  Steps
<1> USE BothKept, QuietSteps DEF client, server
<1>1. CASE ReceiveTask
  <2>1. CASE ReceiveParam
    BY <2>1
    DEF ReceiveParam, Has, Steps, UpStep, UpQuiet, UpRead, DownStep, DownQuiet, TypeInv, Streams
  <2>2. CASE GoReceiveParam
    BY <2>2
    DEF GoReceiveParam, Has, Steps, UpStep, UpRead, DownStep, DownQuiet, TypeInv, Streams
  <2>3. CASE ReceiveParamEnd \/ GoReceiveParamEnd
    BY <2>3
    DEF ReceiveParamEnd, GoReceiveParamEnd, Has, Steps, UpStep, UpRead, DownStep, DownQuiet
  <2>4. CASE ReceiveParamFail \/ GoReceiveParamFail
    BY <2>4
    DEF ReceiveParamFail, GoReceiveParamFail, UpQuiet, DownQuiet
  <2> QED
    BY <1>1, <2>1, <2>2, <2>3, <2>4 DEF ReceiveTask
<1>2. CASE HandlerReads
  <2>1. CASE TakeParam \/ EndParam \/ HostParamFail
    BY <2>1
    DEF TakeParam, EndParam, HostParamFail, UpQuiet, DownQuiet, TypeInv, Streams
  <2>2. CASE HostTakeParam \/ HostEndParam
    BY <2>2
    DEF HostTakeParam, HostEndParam, Has, Steps, UpStep, UpRead, DownStep, DownQuiet, TypeInv, Streams
  <2> QED
    BY <1>2, <2>1, <2>2 DEF HandlerReads
<1>3. CASE HandlerReturns
  <2>1. ASSUME HandlerReturned PROVE Steps
    BY <2>1
    DEF HandlerReturned, UpQuiet, DownQuiet
  <2>2. ASSUME HandlerFailed PROVE Steps
    BY <2>2
    DEF HandlerFailed, DropInvocation, DropConnection, UpQuiet, DownQuiet
  <2>3. ASSUME NEW why, GoFails(why) PROVE Steps
    BY <2>3
    DEF GoFails, ResetBoth, UpQuiet, DownQuiet
  <2> QED
    BY <1>3, <2>1, <2>2, <2>3
    DEF HandlerReturns, Return, ReturnFail, HostReturn, HostReturnFail, GoReturn, GoReturnFail
<1>4. CASE HandlerStops
  <2>1. CASE LeaveParam \/ HostLeaveParam
    BY <2>1
    DEF LeaveParam, HostLeaveParam, UpQuiet, DownQuiet, TypeInv, Streams
  <2>2. CASE HostAwait
    BY <2>2
    DEF HostAwait, EndStore, UpQuiet, DownQuiet, TypeInv, Streams
  <2>3. CASE StoreTrap
    BY <2>3
    DEF StoreTrap, EndStore, UpQuiet, DownQuiet, TypeInv, Streams
  <2>4. CASE SharedTrap
    BY <2>4
    DEF SharedTrap, EndStore, UpQuiet, DownQuiet, TypeInv, Streams
  <2>5. CASE HostCancel
    BY <2>5
    DEF HostCancel, DropInvocation, DropConnection, UpQuiet, DownQuiet
  <2> QED
    BY <1>4, <2>1, <2>2, <2>3, <2>4, <2>5 DEF HandlerStops
<1>5. CASE TransportFail
  BY <1>5
  DEF TransportFail, ResetBoth, UpQuiet, DownQuiet
<1> QED
  BY <1>1, <1>2, <1>3, <1>4, <1>5

LEMMA NextSteps ==
    ASSUME TypeInv, UpInv, DownInv, StageInv, [Next]_vars
    PROVE  Steps
<1>1. CASE UNCHANGED vars
  BY <1>1, BothKept, QuietSteps
  DEF vars, client, server, UpQuiet, DownQuiet
<1> QED
  BY <1>1, CallSteps, ClientSteps, ServerSteps, HandlerSteps DEF Next

-----------------------------------------------------------------------------
(* Types                                                                   *)

LEMMA DirectionsTyped ==
    ASSUME TypeInv, UpInv, DownInv, Steps
    PROVE  up' \in Directions /\ down' \in Directions
<1>0. up \in Directions /\ down \in Directions
  BY DEF TypeInv
<1>1. up' \in Directions
  BY <1>0, WrittenFields, DropWriterFields, ReadFields, DropReaderFields
  DEF Steps, UpStep, UpQuiet, UpWrite, UpRead, Keeps
<1>2. down' \in Directions
  BY <1>0, WrittenFields, DropWriterFields, ReadFields, DropReaderFields
  DEF Steps, DownStep, DownQuiet, DownWrite, DownRead, Keeps
<1> QED
  BY <1>1, <1>2

\* The type invariant without the directions
RestTyped ==
    /\ kind \in Kinds
    /\ serving \in {"none", "open", "dropped"} /\ store \in {"open", "stopped"}
    /\ call \in {"start", "wait", "io", "ok", "err"}
    /\ srv \in {"off", "queued", "sent", "handler", "tx", "await", "ok", "err"}
    /\ ptx \in Task /\ prx \in Task /\ rrx \in {"none", "run", "done", "failed"}
    /\ results \in Streams /\ params \in Streams
    /\ wrote \in [up : Seq(Token), down : Seq(Token)]
    /\ taken \in Nat
    /\ cause \in SUBSET {"transport", "invoke", "app", "timeout", "unserved", "handler", "trap", "cancel"}

LEMMA WroteUpdated ==
    ASSUME NEW w \in [up : Seq(Token), down : Seq(Token)], NEW v \in Token
    PROVE  /\ [w EXCEPT !.up = <<"sync">>] \in [up : Seq(Token), down : Seq(Token)]
           /\ [w EXCEPT !.up = Append(w.up, v)] \in [up : Seq(Token), down : Seq(Token)]
           /\ [w EXCEPT !.down = Append(w.down, v)] \in [up : Seq(Token), down : Seq(Token)]
<1>1. <<"sync">> \in Seq(Token) /\ Append(w.up, v) \in Seq(Token) /\ Append(w.down, v) \in Seq(Token)
  BY DEF Token
<1> QED
  BY <1>1

LEMMA CallTyped ==
    ASSUME TypeInv, CallStep
    PROVE  RestTyped'
<1> USE DEF client, server
<1>1. ASSUME StartCall PROVE RestTyped'
  BY <1>1, WroteUpdated DEF RestTyped, TypeInv, Task, StartCall, Token
<1>2. ASSUME CallFails PROVE RestTyped'
  BY <1>2 DEF RestTyped, TypeInv, Task, CallFails
<1>3. ASSUME ResultsRead, ptx' = ptx PROVE RestTyped'
  BY <1>3 DEF RestTyped, TypeInv, Task, ResultsRead
<1>4. ASSUME CallDropped PROVE RestTyped'
  BY <1>4 DEF RestTyped, TypeInv, Task, CallDropped, DropCall
<1>5. ASSUME CallDone PROVE RestTyped'
  BY <1>5 DEF RestTyped, TypeInv, Task, CallDone
<1>6. CASE TypedCall
  <2>1. CASE ReceiveResult
    BY <2>1 DEF RestTyped, TypeInv, Task, Streams, ReceiveResult, DropCall
  <2>2. CASE ReceiveResultEnd
    BY <2>2 DEF RestTyped, TypeInv, Task, ReceiveResultEnd
  <2> QED
    BY <1>1, <1>2, <1>3, <1>4, <1>5, <1>6, <2>1, <2>2
    DEF TypedCall, Invoke, InvokeFail, Results, KeptTask, ResultsFail, IoFail, IoDone
<1>7. CASE HostCall
  BY <1>1, <1>2, <1>3, <1>4, <1>5, <1>7
  DEF HostCall, HostInvoke, HostInvokeFail, HostResults, HostResultsFail, HostIoFail, HostIoDone
<1>8. CASE GuestCall
  <2>1. CASE Transmit
    <3>1. wrote' \in [up : Seq(Token), down : Seq(Token)]
      BY <2>1, WroteUpdated DEF TypeInv, Transmit, Token
    <3> QED
      BY <2>1, <3>1 DEF RestTyped, TypeInv, Task, Transmit
  <2>2. CASE TransmitFail
    BY <2>2 DEF RestTyped, TypeInv, Task, Streams, TransmitFail, ParamUntransmitted, ResultUntransmitted
  <2>3. CASE Finished
    BY <2>3 DEF RestTyped, TypeInv, Task, Finished
  <2> QED
    BY <1>8, <2>1, <2>2, <2>3 DEF GuestCall
<1>9. CASE GoCall
  <2>1. CASE GoResultsFail
    BY <2>1 DEF RestTyped, TypeInv, Task, GoResultsFail
  <2>2. CASE GoIoDone
    BY <2>2 DEF RestTyped, TypeInv, Task, GoIoDone
  <2> QED
    BY <1>1, <1>2, <1>3, <1>9, <2>1, <2>2 DEF GoCall, GoInvoke, GoInvokeFail, GoResults
<1> QED
  BY <1>6, <1>7, <1>8, <1>9 DEF CallStep

LEMMA ClientTyped ==
    ASSUME TypeInv, ParamTask \/ GoReceipt \/ ReadResult \/ AppStops
    PROVE  RestTyped'
<1> USE DEF client, server
<1>1. CASE ParamTask
  <2>1. ASSUME NEW v \in Token, ParamWritten(v) PROVE RestTyped'
    <3>1. wrote' \in [up : Seq(Token), down : Seq(Token)]
      BY <2>1, WroteUpdated DEF TypeInv, ParamWritten
    <3> QED
      BY <2>1, <3>1 DEF RestTyped, TypeInv, Task, ParamWritten
  <2>2. ASSUME ParamFails PROVE RestTyped'
    BY <2>2 DEF RestTyped, TypeInv, Task, ParamFails
  <2> QED
    BY <1>1, <2>1, <2>2
    DEF ParamTask, WriteParamFail, HostWriteParamFail, GuestWriteParamFail, GoWriteParamFail,
        WriteParam, HostWriteParam, GuestWriteParam, GoWriteParam
<1>2. CASE GoReceipt
  <2>1. CASE GoReceiveResult
    BY <2>1 DEF RestTyped, TypeInv, Task, Streams, GoReceiveResult
  <2>2. CASE GoReceiveResultEnd
    BY <2>2 DEF RestTyped, TypeInv, Task, GoReceiveResultEnd
  <2>3. CASE GoReceiveResultFail
    BY <2>3 DEF RestTyped, TypeInv, Task, GoReceiveResultFail
  <2> QED
    BY <1>2, <2>1, <2>2, <2>3 DEF GoReceipt
<1>3. CASE ReadResult
  <2>1. CASE TakeResult
    BY <2>1 DEF RestTyped, TypeInv, Task, Streams, TakeResult
  <2>2. CASE EndResult
    BY <2>2 DEF RestTyped, TypeInv, Task, Streams, EndResult
  <2>3. CASE ReadSync
    BY <2>3 DEF RestTyped, TypeInv, Task, ReadSync
  <2>4. CASE ReadData
    BY <2>4 DEF RestTyped, TypeInv, Task, ReadData
  <2>5. CASE ReadEnd
    BY <2>5 DEF RestTyped, TypeInv, Task, Streams, ReadEnd
  <2>6. CASE ReadFail
    BY <2>6 DEF RestTyped, TypeInv, Task, Streams, ReadFail
  <2> QED
    BY <1>3, <2>1, <2>2, <2>3, <2>4, <2>5, <2>6 DEF ReadResult
<1>4. CASE AppStops
  <2>1. ASSUME NEW why \in {"app", "timeout"}, CallLeft(why) PROVE RestTyped'
    BY <2>1 DEF RestTyped, TypeInv, Task, CallLeft, DropCall
  <2>2. CASE LeaveResult \/ HostDropResult \/ DropIncoming
    <3>1. CASE LeaveResult
      BY <3>1 DEF RestTyped, TypeInv, Task, Streams, LeaveResult
    <3>2. CASE HostDropResult
      BY <3>2 DEF RestTyped, TypeInv, Task, Streams, HostDropResult
    <3>3. CASE DropIncoming
      BY <3>3 DEF RestTyped, TypeInv, Task, Streams, DropIncoming
    <3> QED
      BY <2>2, <3>1, <3>2, <3>3
  <2>3. CASE DropOutgoing \/ GoLeaveCall
    <3>1. CASE DropOutgoing
      BY <3>1 DEF RestTyped, TypeInv, Task, DropOutgoing
    <3>2. CASE GoLeaveCall
      BY <3>2 DEF RestTyped, TypeInv, Task, GoLeaveCall
    <3> QED
      BY <2>3, <3>1, <3>2
  <2> QED
    BY <1>4, <2>1, <2>2, <2>3 DEF AppStops, LeaveCall, HostLeaveCall, HostTimeout
<1> QED
  BY <1>1, <1>2, <1>3, <1>4

LEMMA ServerTyped ==
    ASSUME TypeInv, Serving \/ ServerStep \/ TransportFail
    PROVE  RestTyped'
<1> USE DEF client, server
<1>1. ASSUME NEW task \in {"none", "run"}, ParamsRead(task) PROVE RestTyped'
  BY <1>1 DEF RestTyped, TypeInv, Task, ParamsRead
<1>2. ASSUME InvocationDropped PROVE RestTyped'
  BY <1>2 DEF RestTyped, TypeInv, Task, InvocationDropped, DropInvocation
<1>3. ASSUME NEW v \in Token, NEW after \in {"await", "ok"}, ResultWritten(v, after) PROVE RestTyped'
  <2>1. wrote' \in [up : Seq(Token), down : Seq(Token)]
    BY <1>3, WroteUpdated DEF TypeInv, ResultWritten
  <2> QED
    BY <1>3, <2>1 DEF RestTyped, TypeInv, Task, ResultWritten, AfterResults
<1>4. ASSUME NEW why \in SUBSET {"unserved", "handler"}, GoFails(why) PROVE RestTyped'
  BY <1>4 DEF RestTyped, TypeInv, Task, GoFails
<1>5. ASSUME Registered \/ Started \/ ReceiptDone PROVE RestTyped'
  <2>1. CASE Registered
    BY <2>1 DEF RestTyped, TypeInv, Task, Registered
  <2>2. CASE Started
    BY <2>2 DEF RestTyped, TypeInv, Task, Started
  <2>3. CASE ReceiptDone
    BY <2>3 DEF RestTyped, TypeInv, Task, ReceiptDone
  <2> QED
    BY <1>5, <2>1, <2>2, <2>3
<1>6. CASE Serving
  <2>1. CASE ServeDrop \/ GoStop
    <3>1. CASE ServeDrop
      BY <3>1 DEF RestTyped, TypeInv, Task, ServeDrop, DropInvocation
    <3>2. CASE GoStop
      BY <3>2 DEF RestTyped, TypeInv, Task, GoStop
    <3> QED
      BY <2>1, <3>1, <3>2
  <2> QED
    BY <1>5, <1>6, <2>1 DEF Serving, Serve, StoreServe, SharedServe, GoServe
<1>7. CASE RustServerStep
  <2>1. CASE Accept \/ AcceptFail
    <3>1. CASE Accept
      BY <3>1 DEF RestTyped, TypeInv, Task, Accept
    <3>2. CASE AcceptFail
      BY <3>2 DEF RestTyped, TypeInv, Task, AcceptFail, DropInvocation
    <3> QED
      BY <2>1, <3>1, <3>2
  <2> QED
    BY <1>1, <1>2, <1>3, <1>5, <1>7, <2>1
    DEF RustServerStep, ReceiveParams, ReceiveParamsFail, WriteResultFail, Await, WriteResult
<1>8. CASE HostServerStep
  BY <1>1, <1>2, <1>3, <1>5, <1>8
  DEF HostServerStep, StoreStart, SharedStart, SharedStartFail, HostParams, HostParamsFail, HostWriteResultFail,
      HostWriteResult
<1>9. CASE GoServerStep
  <2>1. CASE GoAccept \/ GoCancelled
    <3>1. CASE GoAccept
      BY <3>1 DEF RestTyped, TypeInv, Task, GoAccept
    <3>2. CASE GoCancelled
      BY <3>2 DEF RestTyped, TypeInv, Task, GoCancelled
    <3> QED
      BY <2>1, <3>1, <3>2
  <2> QED
    BY <1>1, <1>3, <1>4, <1>5, <1>9, <2>1
    DEF GoServerStep, GoAcceptFail, GoParams, GoParamsFail, GoWriteResultFail, GoAwait, GoWriteResult
<1>10. CASE TransportFail
  BY <1>10 DEF RestTyped, TypeInv, Task, TransportFail
<1> QED
  BY <1>6, <1>7, <1>8, <1>9, <1>10 DEF ServerStep

LEMMA HandlerTyped ==
    ASSUME TypeInv, ReceiveTask \/ HandlerReads \/ HandlerReturns \/ HandlerStops
    PROVE  RestTyped'
<1> USE DEF client, server
<1>1. CASE ReceiveTask
  <2>1. CASE ReceiveParam
    BY <2>1 DEF RestTyped, TypeInv, Task, Streams, ReceiveParam
  <2>2. CASE ReceiveParamEnd
    BY <2>2 DEF RestTyped, TypeInv, Task, ReceiveParamEnd
  <2>3. CASE ReceiveParamFail
    BY <2>3 DEF RestTyped, TypeInv, Task, ReceiveParamFail
  <2>4. CASE GoReceiveParam
    BY <2>4 DEF RestTyped, TypeInv, Task, Streams, GoReceiveParam
  <2>5. CASE GoReceiveParamEnd
    BY <2>5 DEF RestTyped, TypeInv, Task, GoReceiveParamEnd
  <2>6. CASE GoReceiveParamFail
    BY <2>6 DEF RestTyped, TypeInv, Task, GoReceiveParamFail
  <2> QED
    BY <1>1, <2>1, <2>2, <2>3, <2>4, <2>5, <2>6 DEF ReceiveTask
<1>2. CASE HandlerReads
  <2>1. CASE TakeParam
    BY <2>1 DEF RestTyped, TypeInv, Task, Streams, TakeParam
  <2>2. CASE EndParam
    BY <2>2 DEF RestTyped, TypeInv, Task, Streams, EndParam
  <2>3. CASE HostTakeParam
    BY <2>3 DEF RestTyped, TypeInv, Task, HostTakeParam
  <2>4. CASE HostEndParam
    BY <2>4 DEF RestTyped, TypeInv, Task, Streams, HostEndParam
  <2>5. CASE HostParamFail
    BY <2>5 DEF RestTyped, TypeInv, Task, Streams, HostParamFail
  <2> QED
    BY <1>2, <2>1, <2>2, <2>3, <2>4, <2>5 DEF HandlerReads
<1>3. CASE HandlerReturns
  <2>1. ASSUME HandlerReturned PROVE RestTyped'
    BY <2>1 DEF RestTyped, TypeInv, Task, HandlerReturned
  <2>2. ASSUME HandlerFailed PROVE RestTyped'
    BY <2>2 DEF RestTyped, TypeInv, Task, HandlerFailed, DropInvocation
  <2>3. ASSUME GoFails({"handler"}) PROVE RestTyped'
    BY <2>3 DEF RestTyped, TypeInv, Task, GoFails
  <2> QED
    BY <1>3, <2>1, <2>2, <2>3
    DEF HandlerReturns, Return, ReturnFail, HostReturn, HostReturnFail, GoReturn, GoReturnFail
<1>4. CASE HandlerStops
  <2>1. CASE LeaveParam
    BY <2>1 DEF RestTyped, TypeInv, Task, Streams, LeaveParam
  <2>2. CASE HostLeaveParam
    BY <2>2 DEF RestTyped, TypeInv, Task, Streams, HostLeaveParam
  <2>3. CASE HostAwait
    BY <2>3 DEF RestTyped, TypeInv, Task, Streams, HostAwait, EndStore
  <2>4. CASE StoreTrap
    BY <2>4 DEF RestTyped, TypeInv, Task, Streams, StoreTrap, EndStore
  <2>5. CASE SharedTrap
    BY <2>5 DEF RestTyped, TypeInv, Task, Streams, SharedTrap, EndStore
  <2>6. CASE HostCancel
    BY <2>6 DEF RestTyped, TypeInv, Task, HostCancel, DropInvocation
  <2> QED
    BY <1>4, <2>1, <2>2, <2>3, <2>4, <2>5, <2>6 DEF HandlerStops
<1> QED
  BY <1>1, <1>2, <1>3, <1>4

LEMMA TypePreserved ==
    ASSUME TypeInv, UpInv, DownInv, StageInv, [Next]_vars
    PROVE  TypeInv'
<1>1. RestTyped'
  <2>1. CASE UNCHANGED vars
    BY <2>1 DEF vars, client, server, RestTyped, TypeInv
  <2> QED
    BY <2>1, CallTyped, ClientTyped, ServerTyped, HandlerTyped DEF Next
<1> QED
  BY <1>1, NextSteps, DirectionsTyped DEF TypeInv, RestTyped

-----------------------------------------------------------------------------
(* Stages                                                                  *)

\* A reader that is gone stays so, and nothing happens to a direction that is
\* read to its end and closed.
LEMMA DownSettled ==
    ASSUME TypeInv, DownInv, DownStep
    PROVE  /\ down.gone => down'.gone
           /\ down.q = <<>> /\ down.end # "open" =>
                down'.q = <<>> /\ down'.end # "open" /\ taken' = taken /\ wrote'.down = wrote.down
<1>0. down \in Directions
  BY DEF TypeInv
<1>1. CASE DownQuiet
  BY <1>1 DEF DownQuiet, Keeps
<1>2. ASSUME NEW v \in Token, DownWrite(v) PROVE down'.gone = down.gone /\ down.end = "open"
  BY <1>0, <1>2, WrittenFields, DropWriterFields DEF DownWrite
<1>3. CASE DownRead
  <2>1. down.q # <<>> /\ Read(down) \in Directions /\ Read(down).gone = down.gone
    BY <1>0, <1>3, ReadFields DEF DownRead
  <2> QED
    BY <1>3, <2>1, DropReaderFields DEF DownRead
<1> QED
  BY <1>1, <1>2, <1>3 DEF DownStep

LEMMA CallStages ==
    ASSUME TypeInv, DownInv, StageInv, DownStep, CallStep
    PROVE  StageInv'
<1> USE DEF client, server, Typed, Host, Guest, GoClient, Stub, HostServer, GoServer
<1>1. ASSUME StartCall, ~Guest PROVE StageInv'
  BY <1>1 DEF StageInv, StartCall
<1>2. ASSUME CallFails, ~Guest PROVE StageInv'
  BY <1>2 DEF StageInv, CallFails
<1>3. ASSUME ResultsRead, ptx' = ptx, ~Guest PROVE StageInv'
  BY <1>3 DEF StageInv, ResultsRead
<1>4. ASSUME CallDropped, ~Guest PROVE StageInv'
  BY <1>4 DEF StageInv, CallDropped, DropCall
<1>5. ASSUME CallDone, ~Guest, ptx = "done", Host \/ rrx = "done" PROVE StageInv'
  BY <1>5 DEF StageInv, CallDone
<1>6. CASE TypedCall
  <2>1. CASE ReceiveResult
    BY <2>1 DEF StageInv, ReceiveResult, DropCall
  <2>2. CASE ReceiveResultEnd
    BY <2>2 DEF StageInv, ReceiveResultEnd
  <2> QED
    BY <1>1, <1>2, <1>3, <1>4, <1>5, <1>6, <2>1, <2>2
    DEF TypedCall, Invoke, InvokeFail, Results, KeptTask, ResultsFail, IoFail, IoDone
<1>7. CASE HostCall
  BY <1>1, <1>2, <1>3, <1>4, <1>5, <1>7
  DEF HostCall, HostInvoke, HostInvokeFail, HostResults, HostResultsFail, HostIoFail, HostIoDone
<1>8. CASE GuestCall
  <2>1. CASE Transmit
    <3>1. results.st # "open" => down'.gone
      BY <2>1, DropReaderFields DEF Transmit, TypeInv
    <3> QED
      BY <2>1, <3>1 DEF StageInv, Transmit
  <2>2. CASE TransmitFail
    <3>1. down'.gone
      BY <2>2, DropReaderFields DEF TransmitFail, TypeInv
    <3> QED
      BY <2>2, <3>1 DEF StageInv, TransmitFail, ParamUntransmitted
  <2>3. CASE Finished
    <3>1. ASSUME call' = "ok" PROVE ptx \in {"done", "dropped"} /\ down.gone /\ ~down.lost /\ down.end = "fin"
      BY <2>3, <3>1 DEF StageInv, Finished, EgressFailed, IngressFailed, TypeInv, Task
    <3>2. ASSUME call' = "ok" PROVE down.q = <<>> /\ taken = Len(wrote.down)
      <4>1. down.q = <<>> /\ taken + Len(down.q) = Len(wrote.down)
        BY <3>1, <3>2 DEF DownInv, Noted
      <4> QED
        BY <4>1 DEF TypeInv
    <3> QED
      BY <2>3, <3>1, <3>2 DEF StageInv, Finished
  <2> QED
    BY <1>8, <2>1, <2>2, <2>3 DEF GuestCall
<1>9. CASE GoCall
  <2>1. CASE GoResultsFail
    BY <2>1 DEF StageInv, GoResultsFail
  <2>2. CASE GoIoDone
    BY <2>2 DEF StageInv, GoIoDone
  <2> QED
    BY <1>1, <1>2, <1>3, <1>9, <2>1, <2>2 DEF GoCall, GoInvoke, GoInvokeFail, GoResults
<1> QED
  BY <1>6, <1>7, <1>8, <1>9 DEF CallStep

LEMMA ClientStages ==
    ASSUME TypeInv, DownInv, StageInv, DownStep, ParamTask \/ GoReceipt \/ ReadResult \/ AppStops
    PROVE  StageInv'
<1> USE DEF client, server, Typed, Host, Guest, GoClient, Stub, HostServer, GoServer
<1>0. /\ down.gone => down'.gone
      /\ down.q = <<>> /\ down.end # "open" =>
           down'.q = <<>> /\ down'.end # "open" /\ taken' = taken /\ wrote'.down = wrote.down
  BY DownSettled
<1>1. CASE ParamTask
  <2>1. ASSUME NEW v \in Token, ParamWritten(v), Guest => Transmitted PROVE StageInv'
    BY <2>1 DEF StageInv, ParamWritten, Transmitted, TypeInv
  <2>2. ASSUME ParamFails, Guest => Transmitted PROVE StageInv'
    BY <1>0, <2>2 DEF StageInv, ParamFails, Transmitted
  <2> QED
    BY <1>1, <2>1, <2>2
    DEF ParamTask, WriteParamFail, HostWriteParamFail, GuestWriteParamFail, GoWriteParamFail,
        WriteParam, HostWriteParam, GuestWriteParam, GoWriteParam
<1>2. CASE GoReceipt
  <2>1. CASE GoReceiveResult
    BY <2>1 DEF StageInv, GoReceiveResult
  <2>2. CASE GoReceiveResultEnd
    BY <2>2 DEF StageInv, GoReceiveResultEnd
  <2>3. CASE GoReceiveResultFail
    BY <2>3 DEF StageInv, GoReceiveResultFail
  <2> QED
    BY <1>2, <2>1, <2>2, <2>3 DEF GoReceipt
<1>3. CASE ReadResult
  <2>1. CASE TakeResult
    BY <2>1 DEF StageInv, TakeResult, Given
  <2>2. CASE EndResult
    BY <2>2 DEF StageInv, EndResult, Given
  <2>3. CASE ReadSync
    BY <1>0, <2>3 DEF StageInv, ReadSync, GuestReads, Has
  <2>4. CASE ReadData
    BY <1>0, <2>4 DEF StageInv, ReadData, GuestReads, Has
  <2>5. CASE ReadEnd
    <3>1. down'.gone
      BY <2>5, ReadFields, DropReaderFields DEF ReadEnd, Has, TypeInv
    <3> QED
      BY <1>0, <2>5, <3>1 DEF StageInv, ReadEnd, GuestReads, Has
  <2>6. CASE ReadFail
    <3>1. down'.gone
      BY <2>6, DropReaderFields DEF ReadFail, TypeInv
    <3> QED
      BY <1>0, <2>6, <3>1 DEF StageInv, ReadFail, GuestReads
  <2> QED
    BY <1>3, <2>1, <2>2, <2>3, <2>4, <2>5, <2>6 DEF ReadResult
<1>4. CASE AppStops
  <2>1. ASSUME NEW why, CallLeft(why), ~Guest PROVE StageInv'
    BY <2>1 DEF StageInv, CallLeft, DropCall
  <2>2. CASE LeaveResult
    BY <2>2 DEF StageInv, LeaveResult, Given
  <2>3. CASE HostDropResult
    BY <2>3 DEF StageInv, HostDropResult
  <2>4. CASE DropOutgoing
    BY <1>0, <2>4 DEF StageInv, DropOutgoing
  <2>5. CASE DropIncoming
    <3>1. call # "start" => down'.gone
      BY <2>5, DropReaderFields DEF DropIncoming, TypeInv
    <3> QED
      BY <1>0, <2>5, <3>1 DEF StageInv, DropIncoming
  <2>6. CASE GoLeaveCall
    BY <2>6 DEF StageInv, GoLeaveCall
  <2> QED
    BY <1>4, <2>1, <2>2, <2>3, <2>4, <2>5, <2>6 DEF AppStops, LeaveCall, HostLeaveCall, HostTimeout
<1> QED
  BY <1>1, <1>2, <1>3, <1>4

LEMMA ServerStages ==
    ASSUME TypeInv, DownInv, StageInv, DownStep, Serving \/ ServerStep \/ TransportFail
    PROVE  StageInv'
<1> USE DEF client, server, Typed, Host, Guest, GoClient, Stub, HostServer, GoServer
<1>0. /\ down.gone => down'.gone
      /\ down.q = <<>> /\ down.end # "open" =>
           down'.q = <<>> /\ down'.end # "open" /\ taken' = taken /\ wrote'.down = wrote.down
  BY DownSettled
<1>1. ASSUME NEW task, ParamsRead(task), HostServer => task = "none" PROVE StageInv'
  BY <1>0, <1>1 DEF StageInv, ParamsRead
<1>2. ASSUME InvocationDropped PROVE StageInv'
  BY <1>0, <1>2 DEF StageInv, InvocationDropped, DropInvocation
<1>3. ASSUME NEW v \in Token, NEW after, ResultWritten(v, after), Stub \/ GoServer => after = "await"
      PROVE  StageInv'
  BY <1>0, <1>3 DEF StageInv, ResultWritten, AfterResults
<1>4. ASSUME NEW why, GoFails(why) PROVE StageInv'
  BY <1>0, <1>4 DEF StageInv, GoFails
<1>5. ASSUME Registered PROVE StageInv'
  BY <1>5 DEF StageInv, Registered
<1>6. ASSUME Started PROVE StageInv'
  BY <1>6 DEF StageInv, Started
<1>7. ASSUME ReceiptDone, ~HostServer PROVE StageInv'
  BY <1>7 DEF StageInv, ReceiptDone
<1>8. CASE Serving
  <2>1. CASE ServeDrop
    BY <1>0, <2>1 DEF StageInv, ServeDrop, DropInvocation
  <2>2. CASE GoStop
    BY <2>2 DEF StageInv, GoStop
  <2> QED
    BY <1>5, <1>8, <2>1, <2>2 DEF Serving, Serve, StoreServe, SharedServe, GoServe
<1>9. CASE RustServerStep
  <2>1. CASE Accept
    BY <2>1 DEF StageInv, Accept
  <2>2. CASE AcceptFail
    BY <1>0, <2>2 DEF StageInv, AcceptFail, DropInvocation
  <2> QED
    BY <1>1, <1>2, <1>3, <1>7, <1>9, <2>1, <2>2
    DEF RustServerStep, ReceiveParams, ReceiveParamsFail, WriteResultFail, Await, WriteResult
<1>10. CASE HostServerStep
  BY <1>1, <1>2, <1>3, <1>6, <1>10
  DEF HostServerStep, StoreStart, SharedStart, SharedStartFail, HostParams, HostParamsFail, HostWriteResultFail,
      HostWriteResult
<1>11. CASE GoServerStep
  <2>1. CASE GoAccept
    BY <2>1 DEF StageInv, GoAccept
  <2>2. CASE GoCancelled
    BY <1>0, <2>2 DEF StageInv, GoCancelled
  <2> QED
    BY <1>1, <1>3, <1>4, <1>7, <1>11, <2>1, <2>2
    DEF GoServerStep, GoAcceptFail, GoParams, GoParamsFail, GoWriteResultFail, GoAwait, GoWriteResult
<1>12. CASE TransportFail
  BY <1>0, <1>12 DEF StageInv, TransportFail
<1> QED
  BY <1>8, <1>9, <1>10, <1>11, <1>12 DEF ServerStep

LEMMA HandlerStages ==
    ASSUME TypeInv, DownInv, StageInv, DownStep, ReceiveTask \/ HandlerReads \/ HandlerReturns \/ HandlerStops
    PROVE  StageInv'
<1> USE DEF client, server, Typed, Host, Guest, GoClient, Stub, HostServer, GoServer
<1>0. /\ down.gone => down'.gone
      /\ down.q = <<>> /\ down.end # "open" =>
           down'.q = <<>> /\ down'.end # "open" /\ taken' = taken /\ wrote'.down = wrote.down
  BY DownSettled
<1>1. CASE ReceiveTask
  <2>1. CASE ReceiveParam
    BY <2>1 DEF StageInv, ReceiveParam
  <2>2. CASE ReceiveParamEnd
    BY <2>2 DEF StageInv, ReceiveParamEnd
  <2>3. CASE ReceiveParamFail
    BY <2>3 DEF StageInv, ReceiveParamFail
  <2>4. CASE GoReceiveParam
    BY <2>4 DEF StageInv, GoReceiveParam
  <2>5. CASE GoReceiveParamEnd
    BY <2>5 DEF StageInv, GoReceiveParamEnd
  <2>6. CASE GoReceiveParamFail
    BY <1>0, <2>6 DEF StageInv, GoReceiveParamFail
  <2> QED
    BY <1>1, <2>1, <2>2, <2>3, <2>4, <2>5, <2>6 DEF ReceiveTask
<1>2. CASE HandlerReads
  <2>1. CASE TakeParam
    BY <2>1 DEF StageInv, TakeParam
  <2>2. CASE EndParam
    BY <2>2 DEF StageInv, EndParam
  <2>3. CASE HostTakeParam
    BY <2>3 DEF StageInv, HostTakeParam
  <2>4. CASE HostEndParam
    BY <2>4 DEF StageInv, HostEndParam
  <2>5. CASE HostParamFail
    BY <2>5 DEF StageInv, HostParamFail
  <2> QED
    BY <1>2, <2>1, <2>2, <2>3, <2>4, <2>5 DEF HandlerReads
<1>3. CASE HandlerReturns
  <2>1. ASSUME HandlerReturned PROVE StageInv'
    BY <2>1 DEF StageInv, HandlerReturned
  <2>2. ASSUME HandlerFailed PROVE StageInv'
    BY <1>0, <2>2 DEF StageInv, HandlerFailed, DropInvocation
  <2>3. ASSUME GoFails({"handler"}) PROVE StageInv'
    BY <1>0, <2>3 DEF StageInv, GoFails
  <2> QED
    BY <1>3, <2>1, <2>2, <2>3
    DEF HandlerReturns, Return, ReturnFail, HostReturn, HostReturnFail, GoReturn, GoReturnFail
<1>4. CASE HandlerStops
  <2>1. CASE LeaveParam
    BY <2>1 DEF StageInv, LeaveParam
  <2>2. CASE HostLeaveParam
    BY <2>2 DEF StageInv, HostLeaveParam
  <2>3. CASE HostAwait
    BY <2>3 DEF StageInv, HostAwait
  <2>4. CASE StoreTrap
    BY <1>0, <2>4 DEF StageInv, StoreTrap
  <2>5. CASE SharedTrap
    BY <1>0, <2>5 DEF StageInv, SharedTrap, Shared
  <2>6. CASE HostCancel
    BY <1>0, <2>6 DEF StageInv, HostCancel, DropInvocation
  <2> QED
    BY <1>4, <2>1, <2>2, <2>3, <2>4, <2>5, <2>6 DEF HandlerStops
<1> QED
  BY <1>1, <1>2, <1>3, <1>4

LEMMA StagePreserved ==
    ASSUME TypeInv, DownInv, StageInv, DownStep, [Next]_vars
    PROVE  StageInv'
<1>1. CASE UNCHANGED vars
  BY <1>1 DEF vars, client, server, StageInv, Typed, Host, Guest, GoClient, Stub, HostServer, GoServer
<1> QED
  BY <1>1, CallStages, ClientStages, ServerStages, HandlerStages DEF Next

-----------------------------------------------------------------------------
(* Causes                                                                  *)

\* Without a cause, a direction is over only after its end was read.
LEMMA OverRead ==
    ASSUME CalmInv, cause = {}
    PROVE  (Over(up) => up.gone) /\ (Over(down) => down.gone)
BY DEF CalmInv, Calm, Over, EndsWith

\* Without a cause, nobody reads, waits for or writes what is gone.
LEMMA ReadersPresent ==
    ASSUME TypeInv, UpInv, DownInv, StageInv, CalmInv, cause = {}
    PROVE  /\ call = "start" => ~up.gone
           /\ ptx = "run" => ~up.gone
           /\ srv \in {"off", "queued", "sent"} => ~up.gone
           /\ prx = "run" => ~up.gone
           /\ srv = "tx" => ~down.gone
           /\ call = "wait" /\ ~Guest => ~down.gone
           /\ (Typed \/ GoClient) /\ rrx = "run" => ~down.gone
           /\ (Guest \/ Host) /\ results.st = "open" => ~down.gone
<1>1. Calm
  BY DEF CalmInv
<1>2. (call = "start" => ~up.gone) /\ (ptx = "run" => ~up.gone)
  BY <1>1 DEF Calm, UpInv, Whole
<1>3. (srv \in {"off", "queued", "sent"} => ~up.gone) /\ (prx = "run" => ~up.gone)
  BY <1>1 DEF Calm
<1>4. srv = "tx" => ~down.gone
  BY <1>1 DEF Calm, DownInv
<1>5. call = "wait" /\ ~Guest => ~down.gone
  BY <1>1, KindAssumption DEF Calm, StageInv, TypeInv, Typed, GoClient, Guest, Host
<1>6. /\ (Typed \/ GoClient) /\ rrx = "run" => ~down.gone
      /\ (Guest \/ Host) /\ results.st = "open" => ~down.gone
  BY <1>1 DEF Calm, Typed, GoClient, Guest, Host
<1> QED
  BY <1>2, <1>3, <1>4, <1>5, <1>6

\* The direction that a calm step makes of one that is written or read
CalmDirection(d, ws) ==
    /\ d.end # "reset"
    /\ d.gone => Whole(ws)
    /\ d.end # "open" => d.gone \/ EndsWith(d)

LEMMA CalmWritten ==
    ASSUME NEW d \in Directions, NEW ws \in Seq(Token), NEW v \in Token, ~d.gone, ~d.lost, d.end = "open"
    PROVE  /\ CalmDirection(Written(d, v), Append(ws, v)) /\ ~Written(d, v).gone /\ ~Written(d, v).lost
           /\ v = "end" => LET e == DropWriter(Written(d, v))
                           IN  CalmDirection(e, Append(ws, v)) /\ ~e.gone /\ ~e.lost
<1>1. /\ Written(d, v) \in Directions /\ Written(d, v).q = Append(d.q, v) /\ Written(d, v).end = "open"
      /\ ~Written(d, v).gone /\ ~Written(d, v).lost
  BY WrittenFields
<1>2. ASSUME v = "end"
      PROVE  /\ DropWriter(Written(d, v)).q = Append(d.q, v) /\ DropWriter(Written(d, v)).end = "fin"
             /\ ~DropWriter(Written(d, v)).gone /\ ~DropWriter(Written(d, v)).lost
  BY <1>1, DropWriterFields
<1>3. v = "end" => Append(d.q, v) # <<>> /\ Append(d.q, v)[Len(Append(d.q, v))] = "end"
  BY DirectionFields
<1> QED
  BY <1>1, <1>2, <1>3 DEF CalmDirection, EndsWith

LEMMA CalmRead ==
    ASSUME NEW d \in Directions, NEW ws, CalmDirection(d, ws), EndLast(d, ws), d.q # <<>>, ~d.gone, ~d.lost
    PROVE  /\ Head(d.q) # "end" => CalmDirection(Read(d), ws) /\ ~Read(d).gone /\ ~Read(d).lost
           /\ Head(d.q) = "end" => LET e == DropReader(Read(d))
                                   IN  CalmDirection(e, ws) /\ e.gone /\ ~e.lost /\ Whole(ws)
<1>1. /\ Read(d) \in Directions /\ Read(d).q = Tail(d.q) /\ Read(d).end = d.end
      /\ ~Read(d).gone /\ ~Read(d).lost
  BY ReadFields
<1>2. d.q \in Seq(Token)
  BY DirectionFields
<1>3. ASSUME Head(d.q) # "end", EndsWith(d) PROVE EndsWith(Read(d))
  <2>1. d.q[1] # "end" /\ d.q[Len(d.q)] = "end"
    BY <1>2, <1>3 DEF EndsWith
  <2>2. Len(d.q) > 1
    BY <1>2, <2>1
  <2>3. Tail(d.q) \in Seq(Token) /\ Len(Tail(d.q)) = Len(d.q) - 1
    BY <1>2, <2>2
  <2>4. Tail(d.q) # <<>>
    <3>1. \A n \in Nat : n > 1 => n - 1 # 0
      OBVIOUS
    <3>2. Len(d.q) \in Nat
      BY <1>2
    <3>3. Len(Tail(d.q)) # 0
      BY <2>2, <2>3, <3>1, <3>2, Zenon
    <3> QED
      BY <3>3, EmptySeq
  <2>5. Tail(d.q)[Len(d.q) - 1] = d.q[Len(d.q)]
    BY <1>2, <2>2
  <2> QED
    BY <1>1, <2>1, <2>3, <2>4, <2>5 DEF EndsWith
<1>4. ASSUME Head(d.q) = "end"
      PROVE  LET e == DropReader(Read(d)) IN CalmDirection(e, ws) /\ e.gone /\ ~e.lost /\ Whole(ws)
  <2>1. Read(d).q = <<>> /\ Whole(ws)
    BY <1>4, EndLastRead
  <2>2. DropReader(Read(d)).end = d.end /\ DropReader(Read(d)).gone /\ ~DropReader(Read(d)).lost
    BY <1>1, <2>1, DropReaderFields
  <2> QED
    BY <2>1, <2>2 DEF CalmDirection
<1> QED
  BY <1>1, <1>3, <1>4 DEF CalmDirection

LEMMA CallCalm ==
    ASSUME InvocationInv, CallStep
    PROVE  CalmInv'
<1> USE DEF client, server, Typed, Host, Guest, GoClient
<1>0. CASE cause # {}
  <2>1. cause \subseteq cause'
    BY DEF CallStep, TypedCall, HostCall, GuestCall, GoCall, Invoke, InvokeFail, Results, ResultsFail, ReceiveResult,
           ReceiveResultEnd, IoFail, IoDone, HostInvoke, HostInvokeFail, HostResults, HostResultsFail, HostIoFail,
           HostIoDone, Transmit, TransmitFail, Finished, GoInvoke, GoInvokeFail, GoResults, GoResultsFail, GoIoDone,
           StartCall, CallFails, ResultsRead, CallDropped, CallDone
  <2> QED
    BY <1>0, <2>1 DEF CalmInv
<1> SUFFICES ASSUME cause = {} PROVE CalmInv'
  BY <1>0
<1>1. Calm
  BY DEF InvocationInv, CalmInv
<1>2. ASSUME StartCall PROVE CalmInv'
  <2>1. up \in Directions /\ ~up.gone /\ ~up.lost /\ up.end = "open"
    BY <1>1, <1>2, ReadersPresent DEF InvocationInv, TypeInv, UpInv, StartCall, Calm, EndsWith, Noted, Directions
  <2>2. CalmDirection(up', <<>>) /\ ~up'.gone
    <3>1. "sync" \in Token /\ <<>> \in Seq(Token)
      BY DEF Token
    <3> QED
      BY <1>2, <2>1, <3>1, CalmWritten DEF StartCall, CalmDirection
  <2> QED
    BY <1>1, <1>2, <2>2 DEF StartCall, CalmInv, Calm, CalmDirection, InvocationInv, TypeInv
<1>3. ASSUME CallFails PROVE CalmInv'
  BY <1>3 DEF CallFails, CalmInv
<1>4. ASSUME ResultsRead, ptx' = ptx, ~Guest PROVE CalmInv'
  <2>1. /\ down \in Directions /\ ~down.gone /\ ~down.lost /\ down.q # <<>> /\ Head(down.q) = "sync"
        /\ CalmDirection(down, wrote.down) /\ EndLast(down, wrote.down)
    BY <1>1, <1>4, ReadersPresent DEF InvocationInv, TypeInv, DownInv, ResultsRead, Has, Calm, CalmDirection
  <2>2. CalmDirection(down', wrote.down) /\ ~down'.gone /\ ~down'.lost
    BY <1>4, <2>1, CalmRead DEF ResultsRead
  <2> QED
    BY <1>1, <1>4, <2>2 DEF ResultsRead, CalmInv, Calm, CalmDirection
<1>5. ASSUME CallDone PROVE CalmInv'
  BY <1>1, <1>5 DEF CallDone, CalmInv, Calm
<1>6. CASE TypedCall
  <2>1. ptx # "failed" /\ ~(call = "wait" /\ Typed /\ Over(down)) /\ ~(Typed /\ rrx = "run" /\ Over(down))
    BY <1>1, ReadersPresent, OverRead DEF InvocationInv, Calm
  <2>2. ASSUME ReceiveResult \/ ReceiveResultEnd PROVE CalmInv'
    <3>1. /\ down \in Directions /\ ~down.gone /\ ~down.lost /\ down.q # <<>>
          /\ CalmDirection(down, wrote.down) /\ EndLast(down, wrote.down)
      BY <1>1, <2>2, ReadersPresent
      DEF InvocationInv, TypeInv, DownInv, ReceiveResult, ReceiveResultEnd, Has, Calm, CalmDirection
    <3>2. CASE ReceiveResult
      <4>1. /\ results.st # "left" /\ down' = Read(down) /\ Head(down.q) = "data"
            /\ results' = [results EXCEPT !.n = results.n + 1]
        BY <1>1, <3>2 DEF ReceiveResult, Calm, Has
      <4>2. CalmDirection(down', wrote.down) /\ ~down'.gone /\ ~down'.lost
        BY <3>1, <4>1, CalmRead
      <4>3. results'.st = results.st
        BY <4>1 DEF InvocationInv, TypeInv, Streams
      <4> QED
        BY <1>1, <3>2, <4>1, <4>2, <4>3 DEF ReceiveResult, CalmInv, Calm, CalmDirection
    <3>3. CASE ReceiveResultEnd
      <4>1. CalmDirection(down', wrote.down) /\ down'.gone /\ ~down'.lost
        BY <3>1, <3>3, CalmRead DEF ReceiveResultEnd, Has
      <4> QED
        BY <1>1, <3>3, <4>1 DEF ReceiveResultEnd, CalmInv, Calm, CalmDirection
    <3> QED
      BY <2>2, <3>2, <3>3
  <2> QED
    BY <1>2, <1>3, <1>4, <1>5, <1>6, <2>1, <2>2
    DEF TypedCall, Invoke, InvokeFail, Results, KeptTask, ResultsFail, IoFail, IoDone
<1>7. CASE HostCall
  <2>1. ptx # "failed" /\ ~(call = "wait" /\ Host /\ Over(down))
    BY <1>1, ReadersPresent, OverRead DEF InvocationInv, Calm
  <2> QED
    BY <1>2, <1>3, <1>4, <1>5, <1>7, <2>1
    DEF HostCall, HostInvoke, HostInvokeFail, HostResults, HostResultsFail, HostIoFail, HostIoDone
<1>8. CASE GuestCall
  <2>1. CASE Transmit
    <3>1. up \in Directions /\ ~up.gone /\ ~up.lost /\ up.end = "open" /\ ptx = "run"
      BY <1>1, <2>1, ReadersPresent
      DEF InvocationInv, TypeInv, UpInv, StageInv, Transmit, Calm, EndsWith, Noted, Directions
    <3>2. CalmDirection(up', <<>>) /\ ~up'.gone
      <4>1. "sync" \in Token /\ <<>> \in Seq(Token)
        BY DEF Token
      <4> QED
        BY <2>1, <3>1, <4>1, CalmWritten DEF Transmit, CalmDirection
    <3>3. CASE results.st = "open"
      BY <1>1, <2>1, <3>1, <3>2, <3>3 DEF Transmit, CalmInv, Calm, CalmDirection, InvocationInv, TypeInv
    <3>4. CASE results.st # "open"
      <4>1. results.st = "end" /\ Whole(wrote.down) /\ down.q = <<>>
        BY <1>1, <3>4 DEF Calm, InvocationInv, DownInv, AllTaken
      <4>2. down' = DropReader(down) /\ down'.gone /\ ~down'.lost /\ down'.end = down.end
        BY <1>1, <2>1, <3>4, <4>1, DropReaderFields DEF Transmit, Calm, InvocationInv, TypeInv
      <4> QED
        BY <1>1, <2>1, <3>1, <3>2, <4>1, <4>2 DEF Transmit, CalmInv, Calm, CalmDirection, InvocationInv, TypeInv
    <3> QED
      BY <3>3, <3>4
  <2>2. CASE TransmitFail
    BY <2>2 DEF TransmitFail, CalmInv
  <2>3. CASE Finished
    BY <1>1, <2>3 DEF Finished, EgressFailed, IngressFailed, CalmInv, Calm
  <2> QED
    BY <1>8, <2>1, <2>2, <2>3 DEF GuestCall
<1>9. CASE GoCall
  <2>1. ptx # "failed" /\ rrx # "failed" /\ ~(call = "wait" /\ GoClient /\ Over(down))
    BY <1>1, ReadersPresent, OverRead DEF InvocationInv, Calm
  <2>2. CASE GoIoDone
    BY <1>1, <2>1, <2>2 DEF GoIoDone, CalmInv, Calm
  <2> QED
    BY <1>2, <1>3, <1>4, <1>9, <2>1, <2>2 DEF GoCall, GoInvoke, GoInvokeFail, GoResults, GoResultsFail
<1> QED
  BY <1>6, <1>7, <1>8, <1>9 DEF CallStep

LEMMA ClientCalm ==
    ASSUME InvocationInv, ParamTask \/ GoReceipt \/ ReadResult \/ AppStops
    PROVE  CalmInv'
<1> USE DEF client, server, Typed, Host, Guest, GoClient
<1>1. CASE AppStops
  BY <1>1
  DEF AppStops, LeaveResult, LeaveCall, HostLeaveCall, HostTimeout, HostDropResult, DropOutgoing, DropIncoming,
      GoLeaveCall, CallLeft, CalmInv
<1>2. CASE cause # {} /\ ~AppStops
  <2>1. cause' = cause
    BY <1>2
    DEF ParamTask, WriteParamFail, HostWriteParamFail, GuestWriteParamFail, GoWriteParamFail, WriteParam,
        HostWriteParam, GuestWriteParam, GoWriteParam, ParamWritten, ParamFails, GoReceipt, GoReceiveResult,
        GoReceiveResultEnd, GoReceiveResultFail, ReadResult, TakeResult, EndResult, ReadSync, ReadData, ReadEnd,
        ReadFail
  <2> QED
    BY <1>2, <2>1 DEF CalmInv
<1> SUFFICES ASSUME cause = {}, ~AppStops PROVE CalmInv'
  BY <1>1, <1>2
<1>3. Calm
  BY DEF InvocationInv, CalmInv
<1>4. CASE ParamTask
  <2>1. ASSUME NEW v \in Token, ParamWritten(v) PROVE CalmInv'
    <3>1. up \in Directions /\ ~up.gone /\ ~up.lost /\ up.end = "open" /\ wrote.up \in Seq(Token)
      BY <2>1, ReadersPresent DEF InvocationInv, TypeInv, UpInv, ParamWritten, CanWrite, Noted
    <3>2. wrote'.up = Append(wrote.up, v) /\ wrote'.down = wrote.down
      BY <2>1 DEF ParamWritten, InvocationInv, TypeInv
    <3>3. CalmDirection(up', wrote'.up) /\ ~up'.gone
      BY <2>1, <3>1, <3>2, CalmWritten DEF ParamWritten
    <3> QED
      BY <1>3, <2>1, <3>2, <3>3 DEF ParamWritten, CalmInv, Calm, CalmDirection
  <2>2. ~ParamFails
    BY <1>3, ReadersPresent DEF InvocationInv, ParamFails, CannotWrite, Calm
  <2> QED
    BY <1>4, <2>1, <2>2
    DEF ParamTask, WriteParamFail, HostWriteParamFail, GuestWriteParamFail, GoWriteParamFail,
        WriteParam, HostWriteParam, GuestWriteParam, GoWriteParam
<1>5. ASSUME ~down.gone, down.q # <<>>
      PROVE  /\ down \in Directions /\ ~down.lost
             /\ CalmDirection(down, wrote.down) /\ EndLast(down, wrote.down)
  BY <1>3, <1>5 DEF InvocationInv, TypeInv, DownInv, Calm, CalmDirection
<1>6. CASE GoReceipt
  <2>1. CASE GoReceiveResult
    <3>1. ~down.gone /\ down.q # <<>> /\ Head(down.q) = "data"
      BY <2>1, ReadersPresent DEF InvocationInv, GoReceiveResult, Has
    <3>2. CalmDirection(down', wrote.down) /\ ~down'.gone /\ ~down'.lost
      BY <1>5, <2>1, <3>1, CalmRead DEF GoReceiveResult
    <3>3. results'.st = results.st
      BY <2>1 DEF GoReceiveResult, InvocationInv, TypeInv, Streams
    <3> QED
      BY <1>3, <2>1, <3>2, <3>3 DEF GoReceiveResult, CalmInv, Calm, CalmDirection
  <2>2. CASE GoReceiveResultEnd
    <3>1. ~down.gone /\ down.q # <<>> /\ Head(down.q) = "end"
      BY <2>2, ReadersPresent DEF InvocationInv, GoReceiveResultEnd, Has
    <3>2. CalmDirection(down', wrote.down) /\ down'.gone /\ ~down'.lost
      BY <1>5, <2>2, <3>1, CalmRead DEF GoReceiveResultEnd
    <3> QED
      BY <1>3, <2>2, <3>2 DEF GoReceiveResultEnd, CalmInv, Calm, CalmDirection
  <2>3. ~GoReceiveResultFail
    BY ReadersPresent, OverRead DEF InvocationInv, GoReceiveResultFail
  <2> QED
    BY <1>6, <2>1, <2>2, <2>3 DEF GoReceipt
<1>7. CASE ReadResult
  <2>1. CASE TakeResult
    <3>1. results'.st = results.st
      BY <2>1 DEF TakeResult, InvocationInv, TypeInv, Streams
    <3> QED
      BY <1>3, <2>1, <3>1 DEF TakeResult, CalmInv, Calm
  <2>2. CASE EndResult
    <3>1. results'.st = "end"
      BY <2>2 DEF EndResult, InvocationInv, TypeInv, Streams
    <3> QED
      BY <1>3, <2>2, <3>1 DEF EndResult, CalmInv, Calm
  <2>3. ASSUME ReadSync \/ ReadData PROVE CalmInv'
    <3>1. ~down.gone /\ down.q # <<>> /\ Head(down.q) \in {"sync", "data"} /\ down' = Read(down)
      BY <2>3, ReadersPresent DEF InvocationInv, ReadSync, ReadData, GuestReads, Has
    <3>2. CalmDirection(down', wrote.down) /\ ~down'.gone /\ ~down'.lost
      BY <1>5, <3>1, CalmRead
    <3> QED
      BY <1>3, <2>3, <3>2 DEF ReadSync, ReadData, CalmInv, Calm, CalmDirection
  <2>4. CASE ReadEnd
    <3>1. ~down.gone /\ down.q # <<>> /\ Head(down.q) = "end" /\ (Host \/ Guest)
      BY <2>4, ReadersPresent DEF InvocationInv, ReadEnd, GuestReads, Has
    <3>2. CalmDirection(down', wrote.down) /\ down'.gone /\ ~down'.lost
      BY <1>5, <2>4, <3>1, ReadersPresent, CalmRead DEF ReadEnd, GuestReads, Has, InvocationInv
    <3>3. results'.st = "end"
      BY <2>4 DEF ReadEnd, InvocationInv, TypeInv, Streams
    <3> QED
      BY <1>3, <2>4, <3>2, <3>3 DEF ReadEnd, GuestReads, CalmInv, Calm, CalmDirection
  <2>5. ~ReadFail
    BY ReadersPresent, OverRead DEF InvocationInv, ReadFail, GuestReads
  <2> QED
    BY <1>7, <2>1, <2>2, <2>3, <2>4, <2>5 DEF ReadResult
<1> QED
  BY <1>4, <1>6, <1>7

LEMMA ServerCalm ==
    ASSUME InvocationInv, Serving \/ ServerStep \/ TransportFail
    PROVE  CalmInv'
<1> USE DEF client, server, Typed, GoClient, Stub, HostServer, GoServer
<1>1. ASSUME ServeDrop \/ GoStop \/ TransportFail PROVE CalmInv'
  BY <1>1 DEF ServeDrop, GoStop, TransportFail, CalmInv
<1>2. ASSUME cause # {} PROVE CalmInv'
  <2>1. cause \subseteq cause'
    <3>1. CASE Serving
      BY <3>1 DEF Serving, Serve, StoreServe, SharedServe, GoServe, ServeDrop, GoStop, Registered
    <3>2. CASE RustServerStep
      BY <3>2
      DEF RustServerStep, Accept, AcceptFail, ReceiveParams, ReceiveParamsFail, WriteResultFail, Await, WriteResult,
          ParamsRead, InvocationDropped, ReceiptDone, ResultWritten
    <3>3. CASE HostServerStep
      BY <3>3
      DEF HostServerStep, StoreStart, SharedStart, SharedStartFail, HostParams, HostParamsFail, HostWriteResultFail,
          HostWriteResult, Started, ParamsRead, InvocationDropped, ResultWritten
    <3>4. CASE GoServerStep
      BY <3>4
      DEF GoServerStep, GoAccept, GoCancelled, GoAcceptFail, GoParams, GoParamsFail, GoWriteResultFail, GoAwait,
          GoWriteResult, GoFails, ParamsRead, ReceiptDone, ResultWritten
    <3> QED
      BY <3>1, <3>2, <3>3, <3>4 DEF ServerStep, TransportFail
  <2> QED
    BY <1>2, <2>1 DEF CalmInv
<1> SUFFICES ASSUME cause = {} PROVE CalmInv'
  BY <1>2
<1>3. Calm
  BY DEF InvocationInv, CalmInv
<1>4. ASSUME NEW task \in {"none", "run"}, ParamsRead(task), srv \in {"queued", "sent"} PROVE CalmInv'
  <2>1. /\ up \in Directions /\ ~up.gone /\ ~up.lost /\ up.q # <<>> /\ Head(up.q) = "sync"
        /\ CalmDirection(up, wrote.up) /\ EndLast(up, wrote.up)
    BY <1>3, <1>4, ReadersPresent DEF InvocationInv, TypeInv, UpInv, ParamsRead, Has, Calm, CalmDirection, Noted
  <2>2. CalmDirection(up', wrote.up) /\ ~up'.gone
    BY <1>4, <2>1, CalmRead DEF ParamsRead
  <2> QED
    BY <1>3, <1>4, <2>2 DEF ParamsRead, CalmInv, Calm, CalmDirection
<1>5. ASSUME NEW v \in Token, NEW after \in {"await", "ok"}, ResultWritten(v, after) PROVE CalmInv'
  <2>1. down \in Directions /\ ~down.gone /\ ~down.lost /\ down.end = "open" /\ wrote.down \in Seq(Token)
    BY <1>5, ReadersPresent DEF InvocationInv, TypeInv, DownInv, ResultWritten, CanWrite, Noted
  <2>2. wrote'.down = Append(wrote.down, v) /\ wrote'.up = wrote.up
    BY <1>5 DEF ResultWritten, InvocationInv, TypeInv
  <2>3. CalmDirection(down', wrote'.down) /\ ~down'.gone /\ ~down'.lost
    BY <1>5, <2>1, <2>2, CalmWritten DEF ResultWritten
  <2>4. CASE v = "end"
    BY <1>3, <1>5, <2>2, <2>3, <2>4 DEF ResultWritten, AfterResults, CalmInv, Calm, CalmDirection
  <2>5. CASE v # "end"
    BY <1>3, <1>5, <2>2, <2>3, <2>5 DEF ResultWritten, CalmInv, Calm, CalmDirection
  <2> QED
    BY <2>4, <2>5
<1>6. ASSUME Registered PROVE CalmInv'
  BY <1>3, <1>6 DEF Registered, CalmInv, Calm
<1>7. ASSUME Started PROVE CalmInv'
  BY <1>3, <1>7 DEF Started, CalmInv, Calm
<1>8. ASSUME ReceiptDone PROVE CalmInv'
  BY <1>3, <1>8 DEF ReceiptDone, CalmInv, Calm
<1>9. /\ ~(srv \in {"off", "queued", "sent"} /\ Over(up))
      /\ ~(srv = "tx" /\ CannotWrite(down))
      /\ ~Cancelled /\ store # "stopped"
  BY <1>3, ReadersPresent, OverRead DEF InvocationInv, CannotWrite, Cancelled, Calm
<1>10. CASE Serving
  BY <1>1, <1>6, <1>10 DEF Serving, Serve, StoreServe, SharedServe, GoServe
<1>11. CASE RustServerStep
  <2>1. CASE Accept
    BY <1>3, <2>1 DEF Accept, CalmInv, Calm
  <2>2. CASE AcceptFail
    BY <1>9, <2>2 DEF AcceptFail, CalmInv
  <2> QED
    BY <1>4, <1>5, <1>8, <1>9, <1>11, <2>1, <2>2
    DEF RustServerStep, ReceiveParams, ReceiveParamsFail, WriteResultFail, Await, WriteResult
<1>12. CASE HostServerStep
  BY <1>4, <1>5, <1>7, <1>9, <1>12
  DEF HostServerStep, StoreStart, SharedStart, SharedStartFail, HostParams, HostParamsFail, HostWriteResultFail,
      HostWriteResult
<1>13. CASE GoServerStep
  <2>1. CASE GoAccept
    BY <1>3, <2>1 DEF GoAccept, CalmInv, Calm
  <2>2. CASE GoAcceptFail
    BY <1>9, <2>2 DEF GoAcceptFail, GoFails, CalmInv
  <2>3. ~GoCancelled
    BY <1>9 DEF GoCancelled, Cancelled
  <2> QED
    BY <1>4, <1>5, <1>8, <1>9, <1>13, <2>1, <2>2, <2>3
    DEF GoServerStep, GoParams, GoParamsFail, GoWriteResultFail, GoAwait, GoWriteResult
<1> QED
  BY <1>1, <1>10, <1>11, <1>12, <1>13 DEF ServerStep

LEMMA HandlerCalm ==
    ASSUME InvocationInv, ReceiveTask \/ HandlerReads \/ HandlerReturns \/ HandlerStops
    PROVE  CalmInv'
<1> USE DEF client, server, Typed, GoClient, Stub, HostServer, GoServer
<1>1. ASSUME cause # {} PROVE CalmInv'
  <2>1. cause \subseteq cause'
    <3>1. CASE ReceiveTask
      BY <3>1
      DEF ReceiveTask, ReceiveParam, ReceiveParamEnd, ReceiveParamFail, GoReceiveParam, GoReceiveParamEnd,
          GoReceiveParamFail
    <3>2. CASE HandlerReads
      BY <3>2 DEF HandlerReads, TakeParam, EndParam, HostTakeParam, HostEndParam, HostParamFail
    <3>3. CASE HandlerReturns
      BY <3>3
      DEF HandlerReturns, Return, ReturnFail, HostReturn, HostReturnFail, GoReturn, GoReturnFail,
          HandlerReturned, HandlerFailed, GoFails
    <3>4. CASE HandlerStops
      BY <3>4 DEF HandlerStops, LeaveParam, HostLeaveParam, HostAwait, StoreTrap, SharedTrap, HostCancel
    <3> QED
      BY <3>1, <3>2, <3>3, <3>4
  <2> QED
    BY <1>1, <2>1 DEF CalmInv
<1> SUFFICES ASSUME cause = {} PROVE CalmInv'
  BY <1>1
<1>2. Calm
  BY DEF InvocationInv, CalmInv
<1>3. ASSUME ~up.gone, up.q # <<>>
      PROVE  /\ up \in Directions /\ ~up.lost
             /\ CalmDirection(up, wrote.up) /\ EndLast(up, wrote.up)
  BY <1>2, <1>3 DEF InvocationInv, TypeInv, UpInv, Calm, CalmDirection, Noted
<1>4. CASE ReceiveTask
  <2>1. ASSUME ReceiveParam \/ GoReceiveParam PROVE CalmInv'
    <3>1. params.st # "left"
      BY <1>2 DEF Calm
    <3>2. ~up.gone /\ up.q # <<>> /\ Head(up.q) = "data" /\ up' = Read(up)
      BY <2>1, <3>1, ReadersPresent DEF InvocationInv, ReceiveParam, GoReceiveParam, Has
    <3>3. CalmDirection(up', wrote.up) /\ ~up'.gone
      BY <1>3, <3>2, CalmRead
    <3>4. params'.st = params.st
      BY <2>1 DEF ReceiveParam, GoReceiveParam, InvocationInv, TypeInv, Streams
    <3>5. CASE ReceiveParam
      BY <1>2, <3>1, <3>3, <3>4, <3>5 DEF ReceiveParam, CalmInv, Calm, CalmDirection
    <3>6. CASE GoReceiveParam
      BY <1>2, <3>3, <3>4, <3>6 DEF GoReceiveParam, CalmInv, Calm, CalmDirection
    <3> QED
      BY <2>1, <3>5, <3>6
  <2>2. ASSUME ReceiveParamEnd \/ GoReceiveParamEnd PROVE CalmInv'
    <3>1. ~up.gone /\ up.q # <<>> /\ Head(up.q) = "end" /\ up' = DropReader(Read(up))
      BY <2>2, ReadersPresent DEF InvocationInv, ReceiveParamEnd, GoReceiveParamEnd, Has
    <3>2. CalmDirection(up', wrote.up)
      BY <1>3, <3>1, CalmRead
    <3> QED
      BY <1>2, <2>2, <3>2 DEF ReceiveParamEnd, GoReceiveParamEnd, CalmInv, Calm, CalmDirection
  <2>3. ~ReceiveParamFail /\ ~GoReceiveParamFail
    BY <1>2, ReadersPresent, OverRead DEF InvocationInv, ReceiveParamFail, GoReceiveParamFail, Cancelled, Calm
  <2> QED
    BY <1>4, <2>1, <2>2, <2>3 DEF ReceiveTask
<1>5. CASE HandlerReads
  <2>1. CASE TakeParam
    <3>1. params'.st = params.st
      BY <2>1 DEF TakeParam, InvocationInv, TypeInv, Streams
    <3> QED
      BY <1>2, <2>1, <3>1 DEF TakeParam, CalmInv, Calm
  <2>2. CASE EndParam
    <3>1. params'.st = "end"
      BY <2>2 DEF EndParam, InvocationInv, TypeInv, Streams
    <3> QED
      BY <1>2, <2>2, <3>1 DEF EndParam, CalmInv, Calm
  <2>3. CASE HostTakeParam
    <3>1. ~up.gone /\ up.q # <<>> /\ Head(up.q) = "data"
      BY <2>3 DEF HostTakeParam, GuestHas, Has
    <3>2. CalmDirection(up', wrote.up) /\ ~up'.gone
      BY <1>3, <2>3, <3>1, CalmRead DEF HostTakeParam
    <3> QED
      BY <1>2, <2>3, <3>2 DEF HostTakeParam, CalmInv, Calm, CalmDirection
  <2>4. CASE HostEndParam
    <3>1. ~up.gone /\ up.q # <<>> /\ Head(up.q) = "end"
      BY <2>4 DEF HostEndParam, GuestHas, Has
    <3>2. CalmDirection(up', wrote.up)
      BY <1>3, <2>4, <3>1, CalmRead DEF HostEndParam
    <3>3. params'.st = "end"
      BY <2>4 DEF HostEndParam, InvocationInv, TypeInv, Streams
    <3>4. srv \in {"handler", "tx", "await", "ok"} /\ prx = "none"
      BY <1>2, <2>4 DEF HostEndParam, GuestHas, Calm, InvocationInv, StageInv
    <3> QED
      BY <1>2, <2>4, <3>2, <3>3, <3>4 DEF HostEndParam, CalmInv, Calm, CalmDirection
  <2>5. ~HostParamFail
    BY OverRead DEF InvocationInv, HostParamFail, GuestHas
  <2> QED
    BY <1>5, <2>1, <2>2, <2>3, <2>4, <2>5 DEF HandlerReads
<1>6. CASE HandlerReturns
  <2>1. ASSUME HandlerReturned PROVE CalmInv'
    BY <1>2, <2>1 DEF HandlerReturned, CalmInv, Calm
  <2>2. ASSUME HandlerFailed \/ GoFails({"handler"}) PROVE CalmInv'
    BY <2>2 DEF HandlerFailed, GoFails, CalmInv
  <2> QED
    BY <1>6, <2>1, <2>2
    DEF HandlerReturns, Return, ReturnFail, HostReturn, HostReturnFail, GoReturn, GoReturnFail
<1>7. CASE HandlerStops
  <2>1. CASE HostAwait /\ params.st # "open"
    <3>1. params.st = "end" /\ Whole(wrote.up) /\ prx = "none"
      BY <1>2, <2>1 DEF HostAwait, Calm, InvocationInv, UpInv, StageInv
    <3>2. up'.gone /\ up'.end = up.end
      BY <2>1, DropReaderFields DEF HostAwait, EndStore, InvocationInv, TypeInv
    <3>3. params'.st = "end"
      BY <2>1, <3>1 DEF HostAwait, EndStore, InvocationInv, TypeInv, Streams
    <3> QED
      BY <1>2, <2>1, <3>1, <3>2, <3>3 DEF HostAwait, CalmInv, Calm
  <2> QED
    BY <1>7, <2>1
    DEF HandlerStops, LeaveParam, HostLeaveParam, HostAwait, StoreTrap, SharedTrap, HostCancel, CalmInv
<1> QED
  BY <1>4, <1>5, <1>6, <1>7

-----------------------------------------------------------------------------
(* The invariant holds, and with it the properties                         *)

LEMMA InvInitial == Init => InvocationInv
<1> SUFFICES ASSUME Init PROVE InvocationInv
  OBVIOUS
<1>1. /\ up = Direction /\ down = Direction /\ results = Stream /\ params = Stream
      /\ wrote.up = <<>> /\ wrote.down = <<>>
  BY DEF Init
<1>2. Direction \in Directions /\ Direction.q = <<>> /\ Direction.end = "open" /\ ~Direction.gone /\ ~Direction.lost
  BY DEF Direction, Directions
<1>3. Stream \in Streams /\ Stream.st = "open"
  BY DEF Stream, Streams
<1>4. TypeInv
  <2>1. wrote \in [up : Seq(Token), down : Seq(Token)]
    BY DEF Init
  <2> QED
    BY <1>1, <1>2, <1>3, <2>1 DEF Init, TypeInv, Task
<1>5. UpInv
  BY <1>1, <1>2, <1>3 DEF Init, UpInv, Noted, EndLast, Whole
<1>6. DownInv
  BY <1>1, <1>2, <1>3 DEF Init, DownInv, Noted, EndLast, Whole
<1>7. StageInv
  BY <1>1, <1>3 DEF Init, StageInv
<1>8. CalmInv
  BY <1>1, <1>2, <1>3 DEF Init, CalmInv, Calm
<1> QED
  BY <1>4, <1>5, <1>6, <1>7, <1>8 DEF InvocationInv

LEMMA InvPreserved == InvocationInv /\ [Next]_vars => InvocationInv'
<1> SUFFICES ASSUME InvocationInv, [Next]_vars PROVE InvocationInv'
  OBVIOUS
<1>1. TypeInv /\ UpInv /\ DownInv /\ StageInv
  BY DEF InvocationInv
<1>2. UpStep /\ DownStep
  BY <1>1, NextSteps DEF Steps
<1>3. CalmInv'
  <2>1. CASE UNCHANGED vars
    BY <2>1 DEF vars, client, server, InvocationInv, CalmInv, Calm, Typed, GoClient
  <2> QED
    BY <2>1, CallCalm, ClientCalm, ServerCalm, HandlerCalm DEF Next
<1> QED
  BY <1>1, <1>2, <1>3, TypePreserved, UpPreserved, DownPreserved, StagePreserved DEF InvocationInv

LEMMA Invariance == Spec => []InvocationInv
BY InvInitial, InvPreserved, PTL DEF Spec

\* Success is never reported of an exchange that did not happen: a call and a
\* server that end well, and whoever sees the end of a stream, had all of it,
\* for every kind of client and server (OkMeansExchanged).
THEOREM SuccessIsTrue == Spec => []OkMeansExchanged
<1>1. InvocationInv => OkMeansExchanged
  <2> SUFFICES ASSUME InvocationInv PROVE OkMeansExchanged
    OBVIOUS
  <2> USE DEF InvocationInv, UpInv, DownInv, StageInv, AllTaken
  <2>1. ASSUME call = "ok"
        PROVE  /\ ptx # "dropped" => Whole(wrote.up)
               /\ Typed \/ GoClient => Whole(wrote.down)
               /\ ~Host => taken = Len(wrote.down)
    BY <2>1, KindAssumption DEF TypeInv, Typed, Host, Guest, GoClient
  <2>2. srv = "ok" => Whole(wrote.down) /\ (Stub \/ GoServer => Whole(wrote.up) /\ up.q = <<>>)
    OBVIOUS
  <2> QED
    BY <2>1, <2>2 DEF OkMeansExchanged
<1> QED
  BY <1>1, Invariance, PTL

\* A call, or its server, fails only for a reason: the transport fails, the
\* function is not served, somebody gives up, traps or is cancelled.  An early
\* answer, or an end seen before the other side's, is none (NoSpuriousFailure).
THEOREM FailuresAreCaused == Spec => []NoSpuriousFailure
<1>1. InvocationInv => NoSpuriousFailure
  BY DEF InvocationInv, CalmInv, Calm, NoSpuriousFailure
<1> QED
  BY <1>1, Invariance, PTL
=============================================================================

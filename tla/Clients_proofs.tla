--------------------------- MODULE Clients_proofs ---------------------------
(***************************************************************************)
(* That zwm keeps in step with its clients, for any number of windows,     *)
(* bars and desktops, any bound on the queue and any order in which the    *)
(* server meets the requests of a handler and of the clients.              *)
(*                                                                         *)
(* The argument: an unmap or destroy notice is only ever on its way for a  *)
(* window its client does not want shown, because zwm does not listen      *)
(* while it hides one and kills none that is wanted and on the screen; so  *)
(* what zwm manages and what is wanted differ only by what is on its way,  *)
(* was never told or was refused.  And a wanted window of the current desktop that is  *)
(* not on the screen is among the requests the handler has yet to make,    *)
(* unless a window that is gone stopped the rendering.                     *)
(***************************************************************************)
EXTENDS Clients, FiniteSetTheorems, SequenceTheorems, WellFoundedInduction, TLAPS

-----------------------------------------------------------------------------
(* The inductive invariant.                                                *)

Types == {"MapRequest", "UnmapNotify", "DestroyNotify", "KeyPress", "ScreenChange"}
Ops   == {"tile", "mute", "hide", "show", "unmute", "unfocus", "kill", "map"}

Events   == [type : Types, arg : Windows \cup DesktopIds \cup {NULL}]
Requests == [op : Ops, win : Windows]

\* An event says that w was unmapped or destroyed, or asks to map it.
notice(e, w) == e.type \in {"UnmapNotify", "DestroyNotify"} /\ e.arg = w
asks(e, w)   == e.type = "MapRequest" /\ e.arg = w

\* One of the requests is to do op with w.
Has(s, op, w) == \E i \in DOMAIN s : s[i].op = op /\ s[i].win = w

\* Events name what their handler expects.
proper(e) ==
  /\ e.type = "KeyPress" => e.arg \in DesktopIds
  /\ e.type \in {"MapRequest", "UnmapNotify", "DestroyNotify"} => e.arg \in Windows

Queued == queue \in Seq(Events) /\ \A i \in DOMAIN queue : proper(queue[i])

\* Windows to be shown are of the current desktop, those to be hidden are not; one
\* to be unmapped for good is in no tree, and not both wanted and on the screen.
Fits(r) ==
  /\ r.op \in {"tile", "show"} => r.win \in Apps /\ desk_of[r.win] = curr
  /\ r.op = "hide" => desk_of[r.win] # curr
  /\ r.op = "kill" => desk_of[r.win] = NULL /\ r.win \notin wants \cap viewable
  /\ r.op = "map" => r.win \in Bars

\* A switch that may be given up hides no other window than the one it may fail on.
Alone(s) ==
  \A i, j \in DOMAIN s :
    s[i].op = "unfocus" =>
      /\ s[j].op = "hide" => s[j].win = s[i].win
      /\ s[j].op # "kill"

Requested ==
  /\ todo \in Seq(Requests)
  /\ \A i \in DOMAIN todo : Fits(todo[i])
  /\ Alone(todo)

\* Does zwm listen when it makes the request, and after it?
heard(op)  == op \notin {"hide", "show", "unmute"}
leaves(op) == op \notin {"mute", "hide", "show"}

\* The requests s, begun while zwm listens (b) or does not, each find it as they
\* need it and leave it listening.
Phased(s, b) ==
  IF s = <<>> THEN b
  ELSE /\ b <=> heard(s[1].op)
       /\ \A i \in 1 .. Len(s) - 1 : leaves(s[i].op) <=> heard(s[i + 1].op)
       /\ leaves(s[Len(s)].op)

\* No notice is on its way for a window that is wanted, and if it is not managed,
\* its request is, or was refused.
Wanted ==
  \A w \in wants :
    /\ \A i \in DOMAIN queue : ~notice(queue[i], w)
    /\ desk_of[w] = NULL /\ w \notin refused /\ running
         => \E i \in DOMAIN queue : asks(queue[i], w)

\* A window that was refused is not managed.
Dropped == \A w \in refused : desk_of[w] = NULL

\* For a window that is not wanted but managed, or will be, a notice is, or zwm
\* did not hear it.
Unwanted ==
  \A w \in Apps \ (wants \cup unreported) :
    /\ desk_of[w] # NULL => \E i \in DOMAIN queue : notice(queue[i], w)
    /\ \A i \in DOMAIN queue :
         asks(queue[i], w) => \E j \in DOMAIN queue : j > i /\ notice(queue[j], w)

\* A window on the screen that is not of the current desktop is about to be hidden.
Hidden ==
  \A w \in Apps \cap viewable :
    desk_of[w] = curr \/ Has(todo, "hide", w) \/ Has(todo, "kill", w)

\* A wanted window of the current desktop that is not on the screen is about to be
\* shown, or a window that is gone stopped it.
Shown ==
  running /\ ~gave_up =>
    \A w \in wants \ viewable :
      desk_of[w] = curr =>
        \/ Has(todo, "tile", w) \/ Has(todo, "show", w)
        \/ \E v \in Apps \ exists : desk_of[v] = curr

IInv ==
  /\ TypeOK /\ Queued /\ Requested /\ Phased(todo, listening)
  /\ Wanted /\ Dropped /\ Unwanted /\ Hidden /\ Shown

-----------------------------------------------------------------------------
(* Sequences of requests.                                                  *)

\* No desktop is NULL, nor a window.
LEMMA Apart ==
  NULL \notin Windows /\ NULL \notin DesktopIds /\ Apps \cap Bars = {} /\ 0 \in DesktopIds
BY ClientsAssumption DEF DesktopIds

\* A sequence is one of the set its elements are in.
LEMMA InSeq ==
  ASSUME NEW S, NEW T, NEW s \in Seq(S), \A i \in DOMAIN s : s[i] \in T
  PROVE  s \in Seq(T)
OBVIOUS

\* A request is what it was made of.
LEMMA RequestIs ==
  ASSUME NEW op \in Ops, NEW w \in Windows
  PROVE  /\ request(op, w) \in Requests
         /\ request(op, w).op = op /\ request(op, w).win = w
BY DEF request, Requests

\* An order of a set of applications meets all of them (SetToSeqs).
LEMMA OrderIs ==
  ASSUME NEW S \in SUBSET Apps, NEW order \in SetToSeqs(S)
  PROVE  /\ order \in Seq(S)
         /\ \A w \in S : \E i \in DOMAIN order : order[i] = w
<1>1. IsFiniteSet(S) /\ Cardinality(S) \in Nat
  BY ClientsAssumption, FS_Subset, FS_CardinalityType
<1>2. order \in [1 .. Cardinality(S) -> S]
      /\ \A i, j \in 1 .. Cardinality(S) : i # j => order[i] # order[j]
  BY DEF SetToSeqs
<1>3. order \in Seq(S)
  BY <1>1, <1>2
<1>4. Cardinality(1 .. Cardinality(S)) = Cardinality(S)
  BY <1>1, FS_Interval
<1>5. order \in Injection(1 .. Cardinality(S), S)
  BY <1>2 DEF Injection, IsInjective
<1>6. order \in Surjection(1 .. Cardinality(S), S)
  BY <1>1, <1>4, <1>5, FS_Injection
<1> QED BY <1>2, <1>3, <1>6 DEF Surjection

\* What the parts of a concatenation contain, the whole does.
LEMMA ConcatIs ==
  ASSUME NEW s \in Seq(Requests), NEW t \in Seq(Requests)
  PROVE  /\ s \o t \in Seq(Requests)
         /\ \A i \in DOMAIN (s \o t) :
              (\E j \in DOMAIN s : (s \o t)[i] = s[j]) \/ (\E j \in DOMAIN t : (s \o t)[i] = t[j])
<1>1. s \o t \in Seq(Requests) /\ Len(s \o t) = Len(s) + Len(t)
      /\ \A i \in 1 .. Len(s) + Len(t) :
           (s \o t)[i] = IF i <= Len(s) THEN s[i] ELSE t[i - Len(s)]
  OBVIOUS
<1>2. ASSUME NEW i \in DOMAIN (s \o t)
      PROVE  (\E j \in DOMAIN s : (s \o t)[i] = s[j]) \/ (\E j \in DOMAIN t : (s \o t)[i] = t[j])
  <2>1. CASE i <= Len(s)
    BY <1>1, <2>1
  <2>2. CASE i > Len(s)
    <3>1. i - Len(s) \in DOMAIN t /\ (s \o t)[i] = t[i - Len(s)]
      BY <1>1, <2>2
    <3> QED BY <3>1
  <2> QED BY <1>1, <2>1, <2>2
<1> QED BY <1>1, <1>2

\* What one part is asked to do, the whole is.
LEMMA ConcatHas ==
  ASSUME NEW s \in Seq(Requests), NEW t \in Seq(Requests), NEW op, NEW w,
         Has(s, op, w) \/ Has(t, op, w)
  PROVE  Has(s \o t, op, w)
<1>1. CASE Has(s, op, w)
  <2>1. PICK i \in DOMAIN s : s[i].op = op /\ s[i].win = w
    BY <1>1 DEF Has
  <2>2. i \in DOMAIN (s \o t) /\ (s \o t)[i] = s[i]
    OBVIOUS
  <2> QED BY <2>1, <2>2 DEF Has
<1>2. CASE Has(t, op, w)
  <2>1. PICK i \in DOMAIN t : t[i].op = op /\ t[i].win = w
    BY <1>2 DEF Has
  <2>2. i + Len(s) \in DOMAIN (s \o t) /\ (s \o t)[i + Len(s)] = t[i]
    OBVIOUS
  <2> QED BY <2>1, <2>2 DEF Has
<1> QED BY <1>1, <1>2

\* A single request.
LEMMA OneRequest ==
  ASSUME NEW r \in Requests
  PROVE  /\ <<r>> \in Seq(Requests) /\ DOMAIN <<r>> = {1} /\ <<r>>[1] = r
         /\ Has(<<r>>, r.op, r.win)
         /\ \A s \in Seq(Requests) : Append(s, r) = s \o <<r>>
<1>1. <<r>> \in Seq(Requests) /\ DOMAIN <<r>> = {1} /\ <<r>>[1] = r
  OBVIOUS
<1>2. Has(<<r>>, r.op, r.win)
  BY <1>1 DEF Has
<1>3. \A s \in Seq(Requests) : Append(s, r) = s \o <<r>>
  OBVIOUS
<1> QED BY <1>1, <1>2, <1>3

\* A handler that goes on with requests t after s still leaves zwm listening.
LEMMA PhasedConcat ==
  ASSUME NEW s \in Seq(Requests), NEW t \in Seq(Requests), Phased(s, TRUE), Phased(t, TRUE)
  PROVE  Phased(s \o t, TRUE)
<1>1. CASE s = <<>>
  <2>1. s \o t = t
    BY <1>1
  <2> QED BY <2>1
<1>2. CASE t = <<>>
  <2>1. s \o t = s
    BY <1>2
  <2> QED BY <2>1
<1>3. CASE s # <<>> /\ t # <<>>
  <2> DEFINE r == s \o t
  <2>1. r # <<>> /\ Len(s) > 0 /\ Len(t) > 0 /\ Len(r) = Len(s) + Len(t)
        /\ r[1] = s[1] /\ r[Len(r)] = t[Len(t)]
    BY <1>3
  <2>2. heard(s[1].op) /\ heard(t[1].op) /\ leaves(s[Len(s)].op) /\ leaves(t[Len(t)].op)
    BY <1>3 DEF Phased
  <2>3. ASSUME NEW i \in 1 .. Len(r) - 1
        PROVE  leaves(r[i].op) <=> heard(r[i + 1].op)
    <3>1. CASE i < Len(s)
      <4>1. r[i] = s[i] /\ r[i + 1] = s[i + 1] /\ i \in 1 .. Len(s) - 1
        BY <2>1, <3>1
      <4> QED BY <1>3, <4>1 DEF Phased
    <3>2. CASE i = Len(s)
      <4>1. r[i] = s[Len(s)] /\ r[i + 1] = t[1]
        BY <2>1, <3>2
      <4> QED BY <4>1, <2>2 DEF leaves, heard
    <3>3. CASE i > Len(s)
      <4>1. r[i] = t[i - Len(s)] /\ r[i + 1] = t[i - Len(s) + 1] /\ i - Len(s) \in 1 .. Len(t) - 1
        BY <2>1, <3>3
      <4> QED BY <1>3, <4>1 DEF Phased
    <3> QED BY <2>1, <3>1, <3>2, <3>3
  <2> QED BY <2>1, <2>2, <2>3 DEF Phased
<1> QED BY <1>1, <1>2, <1>3

\* Requests that need zwm to listen, and leave it so, may come in any number.
LEMMA PhasedPlain ==
  ASSUME NEW s \in Seq(Requests),
         \A i \in DOMAIN s : s[i].op \in {"tile", "map", "kill", "unfocus"}
  PROVE  Phased(s, TRUE)
<1>1. CASE s = <<>>
  BY <1>1 DEF Phased
<1>2. CASE s # <<>>
  <2>1. \A i \in DOMAIN s : heard(s[i].op) /\ leaves(s[i].op)
    BY DEF heard, leaves
  <2>2. 1 \in DOMAIN s /\ Len(s) \in DOMAIN s
        /\ \A i \in 1 .. Len(s) - 1 : i \in DOMAIN s /\ i + 1 \in DOMAIN s
    BY <1>2
  <2>3. \A i \in 1 .. Len(s) - 1 : leaves(s[i].op) <=> heard(s[i + 1].op)
    BY <2>1, <2>2
  <2> QED BY <1>2, <2>1, <2>2, <2>3 DEF Phased
<1> QED BY <1>1, <1>2

\* The first n requests made, all of which leave zwm as they find it or n = 1, what
\* is left goes on from there.
LEMMA PhasedRest ==
  ASSUME NEW s \in Seq(Requests), NEW b, Phased(s, b), NEW n \in 1 .. Len(s)
  PROVE  Phased(SubSeq(s, n + 1, Len(s)), leaves(s[n].op))
<1> DEFINE r == SubSeq(s, n + 1, Len(s))
<1>1. Len(r) = Len(s) - n /\ \A i \in 1 .. Len(s) - n : r[i] = s[i + n]
  OBVIOUS
<1>2. s # <<>>
  OBVIOUS
<1>3. CASE n = Len(s)
  <2>1. r = <<>>
    BY <1>3
  <2> QED BY <1>2, <1>3, <2>1 DEF Phased
<1>4. CASE n < Len(s)
  <2>1. r # <<>> /\ r[1] = s[n + 1] /\ r[Len(r)] = s[Len(s)]
    <3>1. r \in Seq(Requests) /\ Len(r) >= 1
      BY <1>1, <1>4
    <3>2. r[1] = s[1 + n]
      BY <1>1, <1>4
    <3>3. r[Len(s) - n] = s[Len(s) - n + n]
      BY <1>1, <1>4
    <3>4. 1 + n = n + 1 /\ Len(s) - n + n = Len(s) /\ Len(r) = Len(s) - n
      BY <1>1
    <3>5. r # <<>>
      <4> HIDE DEF r
      <4> QED BY <3>1
    <3> QED BY <3>2, <3>3, <3>4, <3>5
  <2>2. (leaves(s[n].op) <=> heard(s[n + 1].op)) /\ leaves(s[Len(s)].op)
    BY <1>2, <1>4 DEF Phased
  <2>3. ASSUME NEW i \in 1 .. Len(r) - 1
        PROVE  leaves(r[i].op) <=> heard(r[i + 1].op)
    <3>1. r[i] = s[i + n] /\ r[i + 1] = s[i + n + 1] /\ i + n \in 1 .. Len(s) - 1
      BY <1>1
    <3> QED BY <1>2, <3>1 DEF Phased
  <2> QED BY <2>1, <2>2, <2>3 DEF Phased
<1> QED BY <1>3, <1>4

\* tiles shows each window of the order, and nothing else.
LEMMA TilesAre ==
  ASSUME NEW S \in SUBSET Apps, NEW order \in Seq(S)
  PROVE  /\ tiles(order) \in Seq(Requests)
         /\ \A i \in DOMAIN tiles(order) : tiles(order)[i].op = "tile" /\ tiles(order)[i].win \in S
         /\ \A w : (\E i \in DOMAIN order : order[i] = w) => Has(tiles(order), "tile", w)
         /\ Phased(tiles(order), TRUE)
<1>1. DOMAIN order = 1 .. Len(order) /\ \A i \in DOMAIN order : order[i] \in Windows /\ order[i] \in S
  BY DEF Windows
<1>2. \A i \in DOMAIN order :
        request("tile", order[i]) \in Requests
        /\ request("tile", order[i]).op = "tile" /\ request("tile", order[i]).win = order[i]
  BY <1>1, RequestIs DEF Ops
<1>3. tiles(order) \in Seq(Requests) /\ DOMAIN tiles(order) = DOMAIN order
      /\ \A i \in DOMAIN order : tiles(order)[i] = request("tile", order[i])
  BY <1>1, <1>2 DEF tiles
<1>4. \A w : (\E i \in DOMAIN order : order[i] = w) => Has(tiles(order), "tile", w)
  BY <1>2, <1>3 DEF Has
<1>5. \A i \in DOMAIN tiles(order) : tiles(order)[i].op = "tile"
  BY <1>2, <1>3
<1>6. Phased(tiles(order), TRUE)
  BY <1>3, <1>5, PhasedPlain
<1> QED BY <1>1, <1>2, <1>3, <1>4, <1>6

\* set_visibility is not listened to, and all is as before in the end.
LEMMA VisibilityIs ==
  ASSUME NEW S \in SUBSET Apps, NEW order \in Seq(S), NEW op \in {"hide", "show"}
  PROVE  LET s == set_visibility(op, order)
         IN  /\ s \in Seq(Requests)
             /\ \A i \in DOMAIN s : s[i].op \in {"mute", op, "unmute"} /\ s[i].win \in S
             /\ \A w : (\E i \in DOMAIN order : order[i] = w) => Has(s, op, w)
             /\ Phased(s, TRUE)
<1> DEFINE s == set_visibility(op, order)
           n == Len(order)
<1>1. n \in Nat /\ DOMAIN order = 1 .. n
  OBVIOUS
<1>2. DOMAIN s = 1 .. 3 * n /\ s = [i \in 1 .. 3 * n |-> s[i]]
      /\ \A i \in 1 .. 3 * n :
           s[i] = request(<<"mute", op, "unmute">>[1 + ((i - 1) % 3)], order[1 + ((i - 1) \div 3)])
  BY DEF set_visibility
<1>3. \A i \in 1 .. 3 * n :
        /\ 1 + ((i - 1) \div 3) \in 1 .. n
        /\ order[1 + ((i - 1) \div 3)] \in S /\ order[1 + ((i - 1) \div 3)] \in Windows
  BY <1>1 DEF Windows
<1>4. \A i \in 1 .. 3 * n :
        LET k == 1 + ((i - 1) % 3)
        IN  /\ k \in 1 .. 3
            /\ <<"mute", op, "unmute">>[k] = IF k = 1 THEN "mute" ELSE IF k = 2 THEN op ELSE "unmute"
            /\ <<"mute", op, "unmute">>[k] \in Ops
  BY <1>1 DEF Ops
<1>5. \A i \in 1 .. 3 * n :
        /\ s[i] \in Requests
        /\ (i - 1) % 3 = 0 => s[i].op = "mute"
        /\ (i - 1) % 3 = 1 => s[i].op = op
        /\ (i - 1) % 3 = 2 => s[i].op = "unmute"
        /\ s[i].op \in {"mute", op, "unmute"}
        /\ s[i].win = order[1 + ((i - 1) \div 3)]
  <2> TAKE i \in 1 .. 3 * n
  <2> DEFINE k == 1 + ((i - 1) % 3)
             w == order[1 + ((i - 1) \div 3)]
             o == <<"mute", op, "unmute">>[k]
  <2>1. o \in Ops /\ w \in Windows
    BY <1>3, <1>4
  <2>2. s[i] = request(o, w)
    BY <1>2
  <2>3. s[i] \in Requests /\ s[i].op = o /\ s[i].win = w
    <3> HIDE DEF o, w, s
    <3> QED BY <2>1, <2>2, RequestIs
  <2>4. /\ (i - 1) % 3 = 0 => o = "mute"
        /\ (i - 1) % 3 = 1 => o = op
        /\ (i - 1) % 3 = 2 => o = "unmute"
        /\ o \in {"mute", op, "unmute"}
    BY <1>4
  <2> QED BY <2>3, <2>4
<1> HIDE DEF s
<1>6. s \in Seq(Requests) /\ Len(s) = 3 * n
  BY <1>1, <1>2, <1>5
<1>7. \A i \in DOMAIN s : s[i].op \in {"mute", op, "unmute"} /\ s[i].win \in S
  BY <1>2, <1>3, <1>5
<1>8. ASSUME NEW j \in DOMAIN order
      PROVE  Has(s, op, order[j])
  <2> DEFINE i == 3 * j - 1
  <2>1. i \in 1 .. 3 * n /\ (i - 1) % 3 = 1 /\ 1 + ((i - 1) \div 3) = j
    BY <1>1
  <2>2. s[i].op = op /\ s[i].win = order[j]
    BY <1>5, <2>1
  <2> QED BY <1>2, <2>1, <2>2 DEF Has
<1>9. Phased(s, TRUE)
  <2>1. CASE n = 0
    <3>1. s = <<>>
      BY <1>6, <2>1
    <3> QED BY <3>1 DEF Phased
  <2>2. CASE n > 0
    <3>1. s # <<>>
      BY <1>6, <2>2
    <3>2. 1 \in 1 .. 3 * n /\ 3 * n \in 1 .. 3 * n /\ (1 - 1) % 3 = 0 /\ (3 * n - 1) % 3 = 2
      BY <1>1, <2>2
    <3>3. s[1].op = "mute" /\ s[Len(s)].op = "unmute"
      BY <1>5, <1>6, <3>2
    <3>4. ASSUME NEW i \in 1 .. Len(s) - 1
          PROVE  leaves(s[i].op) <=> heard(s[i + 1].op)
      <4>1. i \in 1 .. 3 * n /\ i + 1 \in 1 .. 3 * n
        BY <1>1, <1>6
      <4>2. \/ (i - 1) % 3 = 0 /\ (i + 1 - 1) % 3 = 1
            \/ (i - 1) % 3 = 1 /\ (i + 1 - 1) % 3 = 2
            \/ (i - 1) % 3 = 2 /\ (i + 1 - 1) % 3 = 0
        BY <4>1
      <4> QED BY <1>5, <4>1, <4>2 DEF leaves, heard
    <3> QED BY <3>1, <3>3, <3>4 DEF Phased, heard, leaves
  <2>3. n = 0 \/ n > 0
    BY <1>1
  <2> QED BY <2>1, <2>2, <2>3
<1>10. \A w : (\E i \in DOMAIN order : order[i] = w) => Has(s, op, w)
  BY <1>8
<1> QED BY <1>6, <1>7, <1>9, <1>10 DEF s

-----------------------------------------------------------------------------
(* What the handlers do.                                                   *)

\* What is known when an event e is answered, and what is then true.
Ready(e) ==
  /\ TypeOK /\ Wanted /\ todo = <<>>
  /\ e \in Events /\ proper(e)
  /\ \A w \in wants : ~notice(e, w)
  /\ UNCHANGED <<exists, wants, viewable>>

Answered(e) ==
  /\ Requested' /\ Phased(todo', TRUE)
  /\ curr' \in DesktopIds /\ desk_of' \in [Windows -> DesktopIds \cup {NULL}]
  /\ running' \in BOOLEAN /\ (running' => running) /\ gave_up' \in BOOLEAN
  /\ \A w \in Apps :
       /\ desk_of'[w] # desk_of[w] =>
            \/ notice(e, w) /\ desk_of'[w] = NULL
            \/ asks(e, w) /\ w \in exists /\ desk_of'[w] = curr /\ curr' = curr
       /\ notice(e, w) => desk_of'[w] = NULL
       /\ asks(e, w) /\ w \in exists => desk_of'[w] # NULL \/ w \in refused'
       /\ desk_of[w] = curr =>
            desk_of'[w] = curr' \/ Has(todo', "hide", w) \/ Has(todo', "kill", w)
  /\ \/ \A w \in Apps : desk_of'[w] = curr' => Has(todo', "tile", w) \/ Has(todo', "show", w)
     \/ /\ curr' = curr /\ gave_up' = gave_up
        /\ \A w \in Apps : desk_of'[w] = curr => desk_of[w] = curr
        /\ \A w \in Apps \ exists : desk_of[w] = curr => desk_of'[w] = curr

\* A handler that asks for nothing and moves no window has answered, if the event
\* asks for nothing either.
LEMMA NothingAnswered ==
  ASSUME NEW e, Ready(e), running' \in BOOLEAN, running' => running,
         UNCHANGED <<curr, gave_up, desk_of, todo>>,
         \A w \in Apps : notice(e, w) => desk_of[w] = NULL,
         \A w \in Apps \cap exists : asks(e, w) => desk_of[w] # NULL \/ w \in refused'
  PROVE  Answered(e)
<1>1. todo' = <<>> /\ todo' \in Seq(Requests)
  BY DEF Ready
<1>2. Requested' /\ Phased(todo', TRUE)
  BY <1>1 DEF Requested, Alone, Phased
<1>3. curr \in DesktopIds /\ desk_of \in [Windows -> DesktopIds \cup {NULL}] /\ gave_up \in BOOLEAN
  BY DEF Ready, TypeOK
<1> QED BY <1>2, <1>3 DEF Answered

\* One that tiles the current desktop, in whatever order.
LEMMA TilesAnswer ==
  ASSUME NEW e, Ready(e), UNCHANGED <<curr, gave_up, desk_of>>,
         running' \in BOOLEAN, running' => running,
         NEW order \in SetToSeqs(on(curr)),
         \/ todo' = tiles(order)
         \/ \E b \in Bars : todo' = Append(tiles(order), request("map", b)),
         \A w \in Apps : ~notice(e, w),
         \A w \in Apps : ~asks(e, w)
  PROVE  Answered(e)
<1>1. on(curr) \in SUBSET Apps
  BY DEF on
<1>2. order \in Seq(on(curr)) /\ \A w \in on(curr) : \E i \in DOMAIN order : order[i] = w
  BY <1>1, OrderIs
<1> DEFINE s == tiles(order)
<1>3. /\ s \in Seq(Requests) /\ Phased(s, TRUE)
      /\ \A i \in DOMAIN s : s[i].op = "tile" /\ s[i].win \in on(curr)
      /\ \A w \in on(curr) : Has(s, "tile", w)
  BY <1>1, <1>2, TilesAre
<1> HIDE DEF s
<1>4. todo' \in Seq(Requests) /\ Phased(todo', TRUE)
      /\ (\A w \in on(curr) : Has(todo', "tile", w))
      /\ \A i \in DOMAIN todo' :
           \/ todo'[i].op = "tile" /\ todo'[i].win \in on(curr)
           \/ todo'[i].op = "map" /\ todo'[i].win \in Bars
  <2>1. CASE todo' = s
    <3>1. todo' \in Seq(Requests)
      BY <1>3, <2>1
    <3>2. Phased(todo', TRUE)
      BY <1>3, <2>1
    <3>3. \A w \in on(curr) : Has(todo', "tile", w)
      BY <1>3, <2>1 DEF Has
    <3> QED BY <1>3, <2>1, <3>1, <3>2, <3>3
  <2>2. CASE \E b \in Bars : todo' = Append(s, request("map", b))
    <3>1. PICK b \in Bars : todo' = Append(s, request("map", b))
      BY <2>2
    <3> DEFINE r == request("map", b)
    <3>2. r \in Requests /\ r.op = "map" /\ r.win = b
      BY RequestIs DEF Windows, Ops
    <3>a. todo' = Append(s, r)
      BY <3>1
    <3> HIDE DEF r
    <3>3. <<r>> \in Seq(Requests) /\ DOMAIN <<r>> = {1} /\ <<r>>[1] = r /\ todo' = s \o <<r>>
      BY <1>3, <3>a, <3>2, OneRequest
    <3>4. Phased(<<r>>, TRUE)
      BY <3>2, <3>3, PhasedPlain
    <3>5. todo' \in Seq(Requests)
          /\ \A i \in DOMAIN todo' :
               (\E j \in DOMAIN s : todo'[i] = s[j]) \/ (\E j \in DOMAIN <<r>> : todo'[i] = <<r>>[j])
      BY <1>3, <3>3, ConcatIs
    <3>6. \A w \in on(curr) : Has(todo', "tile", w)
      <4>1. \A w \in on(curr) : Has(s \o <<r>>, "tile", w)
        BY <1>3, <3>3, ConcatHas
      <4> QED BY <3>3, <4>1 DEF Has
    <3>7. Phased(todo', TRUE)
      BY <1>3, <3>3, <3>4, PhasedConcat
    <3>8. \A i \in DOMAIN todo' :
           \/ todo'[i].op = "tile" /\ todo'[i].win \in on(curr)
           \/ todo'[i].op = "map" /\ todo'[i].win \in Bars
      BY <1>3, <3>2, <3>3, <3>5
    <3> QED BY <3>5, <3>6, <3>7, <3>8
  <2> QED BY <2>1, <2>2 DEF s
<1>5. \A w \in on(curr) : w \in Apps /\ desk_of[w] = curr
  BY DEF on
<1>6. Requested'
  BY <1>4, <1>5 DEF Requested, Fits, Alone
<1>7. curr \in DesktopIds /\ desk_of \in [Windows -> DesktopIds \cup {NULL}] /\ gave_up \in BOOLEAN
  BY DEF Ready, TypeOK
<1>8. \A w \in Apps : desk_of'[w] = curr' => Has(todo', "tile", w)
  BY <1>4 DEF on
<1>9. \A w \in Apps : desk_of'[w] = desk_of[w] /\ (desk_of[w] = curr => desk_of'[w] = curr')
  OBVIOUS
<1> QED BY <1>4, <1>6, <1>7, <1>8, <1>9 DEF Answered


\* A map request: the window joins the current desktop, which is tiled anew, or its
\* request is dropped; a bar has its place made and is mapped; for a window that is
\* gone zwm exits.
LEMMA MapAnswer ==
  ASSUME NEW w, NEW e, Ready(e), running, e.type = "MapRequest", e.arg = w,
         handle_map_request(w)
  PROVE  Answered(e)
<1>1. w \in Windows /\ running \in BOOLEAN /\ UNCHANGED <<curr, gave_up>>
  BY DEF Ready, proper, TypeOK, handle_map_request
<1>2. \A v \in Apps : ~notice(e, v) /\ (asks(e, v) <=> v = w)
  BY DEF notice, asks
<1>3. CASE w \notin exists
  BY <1>1, <1>2, <1>3, NothingAnswered DEF handle_map_request, Ready
<1>4. CASE w \in exists /\ w \in Bars
  <2>1. \A v \in Apps : ~asks(e, v)
    BY <1>2, <1>4, Apart
  <2>2. PICK order \in SetToSeqs(on(curr)) :
          /\ todo' = Append(tiles(order), request("map", w))
          /\ UNCHANGED <<running, desk_of>>
    BY <1>4 DEF handle_map_request
  <2> QED BY <1>1, <1>2, <1>4, <2>1, <2>2, TilesAnswer
<1>5. CASE w \in exists /\ w \notin Bars /\ desk_of[w] # NULL
  BY <1>1, <1>2, <1>5, NothingAnswered DEF handle_map_request
<1>7. CASE /\ w \in exists /\ w \notin Bars /\ desk_of[w] = NULL
           /\ refused' = refused \cup {w} /\ UNCHANGED <<desk_of, todo, running>>
  <2>1. w \in refused'
    BY <1>7
  <2> QED BY <1>1, <1>2, <1>7, <2>1, NothingAnswered
<1>6. CASE /\ w \in exists /\ w \notin Bars /\ desk_of[w] = NULL
           /\ ~(refused' = refused \cup {w} /\ UNCHANGED <<desk_of, todo, running>>)
  <2>1. w \in Apps
    BY <1>1, <1>6 DEF Windows
  <2>2. PICK order \in SetToSeqs(on(curr) \cup {w}) :
          /\ desk_of' = [desk_of EXCEPT ![w] = curr]
          /\ todo' = tiles(order)
          /\ UNCHANGED running
    BY <1>6 DEF handle_map_request
  <2> DEFINE S == on(curr) \cup {w}
  <2>3. S \in SUBSET Apps
    BY <2>1 DEF on
  <2>4. order \in Seq(S) /\ \A v \in S : \E i \in DOMAIN order : order[i] = v
    BY <2>2, <2>3, OrderIs
  <2>5. /\ todo' \in Seq(Requests) /\ Phased(todo', TRUE)
        /\ \A i \in DOMAIN todo' : todo'[i].op = "tile" /\ todo'[i].win \in S
        /\ \A v \in S : Has(todo', "tile", v)
    BY <2>2, <2>3, <2>4, TilesAre
  <2>6. curr \in DesktopIds /\ desk_of \in [Windows -> DesktopIds \cup {NULL}] /\ gave_up \in BOOLEAN
    BY DEF Ready, TypeOK
  <2>7. /\ desk_of' \in [Windows -> DesktopIds \cup {NULL}]
        /\ \A v \in Apps : desk_of'[v] = IF v = w THEN curr ELSE desk_of[v]
        /\ \A v \in S : v \in Apps /\ desk_of'[v] = curr'
        /\ \A v \in Apps : desk_of'[v] = curr' => v \in S
    BY <1>1, <2>1, <2>2, <2>6 DEF on, Windows
  <2>8. Requested'
    <3> HIDE DEF S
    <3> QED BY <2>5, <2>7 DEF Requested, Fits, Alone
  <2> HIDE DEF S
  <2>9. \A v \in Apps : desk_of'[v] = curr' => Has(todo', "tile", v)
    BY <2>5, <2>7
  <2>10. curr # NULL
    BY <2>6, Apart
  <2> QED BY <1>1, <1>2, <1>6, <2>1, <2>2, <2>5, <2>6, <2>7, <2>8, <2>9, <2>10 DEF Answered
<1> QED BY <1>1, <1>3, <1>4, <1>5, <1>6, <1>7

\* An unmap or destroy notice: the window is forgotten, or the space of a bar is
\* given back.
LEMMA UnmapAnswer ==
  ASSUME NEW w, NEW e, Ready(e), running,
         e.type \in {"UnmapNotify", "DestroyNotify"}, e.arg = w,
         handle_unmap_notify(w)
  PROVE  Answered(e)
<1>1. w \in Windows /\ running \in BOOLEAN /\ UNCHANGED <<running, curr, gave_up>>
  BY DEF Ready, proper, TypeOK, handle_unmap_notify
<1>2. \A v \in Apps : ~asks(e, v) /\ (notice(e, v) <=> v = w)
  BY DEF notice, asks
<1>3. CASE desk_of[w] = NULL /\ w \notin strut_windows
  <2>1. UNCHANGED <<desk_of, todo>>
    BY <1>3 DEF handle_unmap_notify
  <2> QED BY <1>1, <1>2, <1>3, <2>1, NothingAnswered
<1>4. CASE desk_of[w] = NULL /\ w \in strut_windows
  <2>1. w \notin Apps
    BY <1>4, Apart DEF Ready, TypeOK
  <2>2. PICK order \in SetToSeqs(on(curr)) : todo' = tiles(order) /\ UNCHANGED desk_of
    BY <1>4 DEF handle_unmap_notify
  <2>3. \A v \in Apps : ~notice(e, v)
    BY <1>2, <2>1
  <2> QED BY <1>1, <1>2, <2>2, <2>3, TilesAnswer
<1>5. CASE desk_of[w] # NULL
  <2> DEFINE S == IF desk_of[w] = curr THEN on(curr) \ {w} ELSE {}
  <2>1. PICK order \in SetToSeqs(S) :
          /\ desk_of' = [desk_of EXCEPT ![w] = NULL]
          /\ todo' = <<request("kill", w)>> \o tiles(order)
    BY <1>5 DEF handle_unmap_notify
  <2>2. S \in SUBSET Apps
    BY DEF on
  <2>3. order \in Seq(S) /\ \A v \in S : \E i \in DOMAIN order : order[i] = v
    BY <2>1, <2>2, OrderIs
  <2> DEFINE s == tiles(order)
             r == request("kill", w)
  <2>4. /\ s \in Seq(Requests) /\ Phased(s, TRUE)
        /\ \A i \in DOMAIN s : s[i].op = "tile" /\ s[i].win \in S
        /\ \A v \in S : Has(s, "tile", v)
    BY <2>2, <2>3, TilesAre
  <2>5. r \in Requests /\ r.op = "kill" /\ r.win = w
    BY <1>1, RequestIs DEF Ops
  <2>6. todo' = <<r>> \o s
    BY <2>1
  <2> HIDE DEF r, s
  <2>7. /\ <<r>> \in Seq(Requests) /\ DOMAIN <<r>> = {1} /\ <<r>>[1] = r
        /\ Has(<<r>>, "kill", w)
    BY <2>5, OneRequest
  <2>8. Phased(<<r>>, TRUE)
    BY <2>5, <2>7, PhasedPlain
  <2>9. todo' \in Seq(Requests) /\ Phased(todo', TRUE)
    BY <2>4, <2>6, <2>7, <2>8, ConcatIs, PhasedConcat
  <2>10. \A i \in DOMAIN todo' :
           \/ todo'[i].op = "tile" /\ todo'[i].win \in S
           \/ todo'[i].op = "kill" /\ todo'[i].win = w
    <3>1. \A i \in DOMAIN todo' :
            (\E j \in DOMAIN <<r>> : todo'[i] = <<r>>[j]) \/ (\E j \in DOMAIN s : todo'[i] = s[j])
      BY <2>4, <2>6, <2>7, ConcatIs
    <3> QED BY <2>4, <2>5, <2>7, <3>1
  <2>11. Has(todo', "kill", w) /\ \A v \in S : Has(todo', "tile", v)
    BY <2>4, <2>6, <2>7, ConcatHas
  <2>12. curr \in DesktopIds /\ desk_of \in [Windows -> DesktopIds \cup {NULL}] /\ gave_up \in BOOLEAN
    BY DEF Ready, TypeOK
  <2>13. /\ desk_of' \in [Windows -> DesktopIds \cup {NULL}] /\ desk_of'[w] = NULL
         /\ \A v \in Apps : v # w => desk_of'[v] = desk_of[v]
         /\ \A v \in S : v \in Apps /\ desk_of'[v] = curr'
    BY <1>1, <2>1, <2>12 DEF on, Windows
  <2>14. curr # NULL
    BY <2>12, Apart
  <2>15. w \notin wants'
    BY <1>2 DEF Ready, TypeOK, notice
  <2>16. Requested'
    <3> HIDE DEF S
    <3> QED BY <2>9, <2>10, <2>13, <2>15 DEF Requested, Fits, Alone
  <2>17. \/ \A v \in Apps : desk_of'[v] = curr' => Has(todo', "tile", v)
         \/ desk_of[w] # curr
    BY <1>1, <2>11, <2>13, <2>14 DEF on
  <2> HIDE DEF S
  <2>18. \/ \A v \in Apps : desk_of'[v] = curr' => Has(todo', "tile", v) \/ Has(todo', "show", v)
         \/ /\ curr' = curr /\ gave_up' = gave_up
            /\ \A v \in Apps : desk_of'[v] = curr => desk_of[v] = curr
            /\ \A v \in Apps \ exists : desk_of[v] = curr => desk_of'[v] = curr
    BY <1>1, <2>13, <2>14, <2>17
  <2>19. \A v \in Apps :
           /\ desk_of'[v] # desk_of[v] => notice(e, v) /\ desk_of'[v] = NULL
           /\ notice(e, v) => desk_of'[v] = NULL
           /\ ~asks(e, v)
           /\ desk_of[v] = curr => desk_of'[v] = curr' \/ Has(todo', "kill", v)
    BY <1>1, <1>2, <2>11, <2>13
  <2> QED BY <1>1, <2>9, <2>12, <2>13, <2>16, <2>18, <2>19 DEF Answered
<1> QED BY <1>3, <1>4, <1>5


\* hide_windows asks for the windows to be hidden, and nothing else of note.
LEMMA HideIs ==
  ASSUME NEW S \in SUBSET Apps, NEW order \in Seq(S)
  PROVE  LET s == hide_windows(order)
         IN  /\ s \in Seq(Requests)
             /\ \A i \in DOMAIN s :
                  s[i].op \in {"mute", "hide", "unmute", "unfocus"} /\ s[i].win \in S
             /\ \A w : (\E i \in DOMAIN order : order[i] = w) => Has(s, "hide", w)
             /\ \A i, j \in DOMAIN s : s[i].op = "unfocus" => s[j].win = s[i].win
             /\ Phased(s, TRUE)
<1> DEFINE s == hide_windows(order)
           h == set_visibility("hide", order)
           u == IF Len(order) = 1 THEN <<request("unfocus", order[1])>> ELSE <<>>
<1>1. s = h \o u
  BY DEF hide_windows
<1>2. /\ h \in Seq(Requests) /\ Phased(h, TRUE)
      /\ \A i \in DOMAIN h : h[i].op \in {"mute", "hide", "unmute"} /\ h[i].win \in S
      /\ \A w : (\E i \in DOMAIN order : order[i] = w) => Has(h, "hide", w)
  BY VisibilityIs
<1>3. /\ u \in Seq(Requests)
      /\ \A i \in DOMAIN u : u[i].op = "unfocus" /\ u[i].win \in S
  <2>1. CASE Len(order) = 1
    <3> DEFINE r == request("unfocus", order[1])
    <3>1. order[1] \in S /\ order[1] \in Windows
      BY <2>1 DEF Windows
    <3>2. r \in Requests /\ r.op = "unfocus" /\ r.win = order[1]
      BY <3>1, RequestIs DEF Ops
    <3>3. u = <<r>>
      BY <2>1
    <3> HIDE DEF r, u
    <3>4. <<r>> \in Seq(Requests) /\ DOMAIN <<r>> = {1} /\ <<r>>[1] = r
      BY <3>2, OneRequest
    <3> QED BY <3>1, <3>2, <3>3, <3>4
  <2>2. CASE Len(order) # 1
    <3>1. u = <<>>
      BY <2>2
    <3> HIDE DEF u
    <3> QED BY <3>1
  <2> QED BY <2>1, <2>2
<1>9. /\ Len(order) = 1 => /\ \A i \in DOMAIN h : h[i].win = order[1]
                           /\ \A i \in DOMAIN u : u[i].win = order[1]
      /\ Len(order) # 1 => u = <<>>
  <2>1. CASE Len(order) = 1
    <3> DEFINE T == {order[1]}
    <3>1. T \in SUBSET Apps /\ order \in Seq(T)
      <4>1. order[1] \in S /\ order \in [1 .. 1 -> S] /\ \A i \in 1 .. 1 : order[i] = order[1]
        BY <2>1
      <4>2. T \in SUBSET Apps /\ \A i \in DOMAIN order : order[i] \in T
        BY <2>1, <4>1
      <4> HIDE DEF T
      <4> QED BY <4>2, InSeq
    <3>2. \A i \in DOMAIN h : h[i].win \in T
      BY <3>1, VisibilityIs
    <3>3. order[1] \in Windows
      BY <3>1 DEF Windows
    <3>4. \A i \in DOMAIN u : u[i].win = order[1]
      BY <2>1, <3>3, RequestIs DEF Ops
    <3> QED BY <2>1, <3>2, <3>4
  <2> QED BY <2>1
<1> HIDE DEF s, h, u
<1>4. Phased(u, TRUE)
  BY <1>3, PhasedPlain
<1>5. s \in Seq(Requests) /\ Phased(s, TRUE)
  BY <1>1, <1>2, <1>3, <1>4, ConcatIs, PhasedConcat
<1>6. \A i \in DOMAIN s : (\E j \in DOMAIN h : s[i] = h[j]) \/ (\E j \in DOMAIN u : s[i] = u[j])
  BY <1>1, <1>2, <1>3, ConcatIs
<1>7. \A i \in DOMAIN s :
        s[i].op \in {"mute", "hide", "unmute", "unfocus"} /\ s[i].win \in S
  BY <1>2, <1>3, <1>6
<1>8. \A w : (\E i \in DOMAIN order : order[i] = w) => Has(s, "hide", w)
  BY <1>1, <1>2, <1>3, ConcatHas
<1>10. \A i, j \in DOMAIN s : s[i].op = "unfocus" => s[j].win = s[i].win
  <2>1. CASE Len(order) = 1
    BY <1>6, <1>9, <2>1
  <2>2. CASE Len(order) # 1
    <3>1. \A i \in DOMAIN s : s[i].op # "unfocus"
      BY <1>2, <1>6, <1>9, <2>2
    <3> QED BY <3>1
  <2> QED BY <2>1, <2>2
<1> QED BY <1>5, <1>7, <1>8, <1>10 DEF s

\* A switch: the windows of the old desktop are hidden, those of the new one shown
\* and tiled.
LEMMA SwitchAnswer ==
  ASSUME NEW d \in DesktopIds, NEW e, Ready(e), running, e.type = "KeyPress",
         switch_desktop_wrapper(d)
  PROVE  Answered(e)
<1>1. /\ running \in BOOLEAN /\ curr \in DesktopIds
      /\ desk_of \in [Windows -> DesktopIds \cup {NULL}]
      /\ curr' = d /\ gave_up' = FALSE /\ UNCHANGED <<running, desk_of>>
  BY DEF Ready, TypeOK, switch_desktop_wrapper
<1>2. \A v \in Apps : ~notice(e, v) /\ ~asks(e, v)
  BY DEF notice, asks
<1>3. ASSUME NEW c, NEW order \in SetToSeqs(on(c))
      PROVE  /\ on(c) \in SUBSET Apps
             /\ order \in Seq(on(c))
             /\ \A w \in on(c) : \E i \in DOMAIN order : order[i] = w
  <2>1. on(c) \in SUBSET Apps
    BY DEF on
  <2> QED BY <2>1, OrderIs
<1>4. ASSUME Requested', Phased(todo', TRUE),
             \A v \in Apps : desk_of'[v] = curr' => Has(todo', "tile", v),
             \A v \in on(curr) : curr' = curr \/ Has(todo', "hide", v)
      PROVE  Answered(e)
  <2>1. \A v \in Apps : desk_of[v] = curr => desk_of'[v] = curr' \/ Has(todo', "hide", v)
    BY <1>1, <1>4 DEF on
  <2> QED BY <1>1, <1>2, <1>4, <2>1 DEF Answered
<1>5. CASE d = curr
  <2>1. PICK order \in SetToSeqs(on(d)) : todo' = tiles(order)
    BY <1>5 DEF switch_desktop_wrapper
  <2>2. /\ todo' \in Seq(Requests) /\ Phased(todo', TRUE)
        /\ \A i \in DOMAIN todo' : todo'[i].op = "tile" /\ todo'[i].win \in on(d)
        /\ \A v \in on(d) : Has(todo', "tile", v)
    <3> DEFINE t == tiles(order)
    <3>1. /\ t \in Seq(Requests) /\ Phased(t, TRUE)
          /\ \A i \in DOMAIN t : t[i].op = "tile" /\ t[i].win \in on(d)
          /\ \A v \in on(d) : Has(t, "tile", v)
      BY <1>3, <2>1, TilesAre
    <3> HIDE DEF t
    <3> QED BY <2>1, <3>1 DEF t
  <2>3. Requested'
    BY <1>1, <2>2 DEF Requested, Fits, Alone, on
  <2>4. \A v \in Apps : desk_of'[v] = curr' => Has(todo', "tile", v)
    BY <1>1, <2>2 DEF on
  <2> QED BY <1>1, <1>4, <1>5, <2>2, <2>3, <2>4
<1>6. CASE d # curr
  <2>1. PICK from \in SetToSeqs(on(curr)), to \in SetToSeqs(on(d)) :
          todo' = hide_windows(from) \o show_windows(to) \o tiles(to)
    BY <1>6 DEF switch_desktop_wrapper
  <2> DEFINE h == hide_windows(from)
             s == set_visibility("show", to)
             t == tiles(to)
  <2>2. todo' = (h \o s) \o t
    BY <2>1 DEF show_windows
  <2>3. /\ h \in Seq(Requests) /\ Phased(h, TRUE)
        /\ \A i \in DOMAIN h :
             h[i].op \in {"mute", "hide", "unmute", "unfocus"} /\ h[i].win \in on(curr)
        /\ \A v \in on(curr) : Has(h, "hide", v)
        /\ \A i, j \in DOMAIN h : h[i].op = "unfocus" => h[j].win = h[i].win
    <3>1. /\ on(curr) \in SUBSET Apps /\ from \in Seq(on(curr))
          /\ \A w \in on(curr) : \E i \in DOMAIN from : from[i] = w
      BY <1>3, <2>1
    <3> HIDE DEF h
    <3>2. /\ h \in Seq(Requests)
          /\ \A i \in DOMAIN h :
               h[i].op \in {"mute", "hide", "unmute", "unfocus"} /\ h[i].win \in on(curr)
          /\ \A w : (\E i \in DOMAIN from : from[i] = w) => Has(h, "hide", w)
          /\ \A i, j \in DOMAIN h : h[i].op = "unfocus" => h[j].win = h[i].win
          /\ Phased(h, TRUE)
      BY <3>1, HideIs DEF h
    <3> QED BY <3>1, <3>2
  <2>4. /\ s \in Seq(Requests) /\ Phased(s, TRUE)
        /\ \A i \in DOMAIN s :
             s[i].op \in {"mute", "show", "unmute"} /\ s[i].win \in on(d)
    BY <1>3, <2>1, VisibilityIs
  <2>5. /\ t \in Seq(Requests) /\ Phased(t, TRUE)
        /\ \A i \in DOMAIN t : t[i].op = "tile" /\ t[i].win \in on(d)
        /\ \A v \in on(d) : Has(t, "tile", v)
    BY <1>3, <2>1, TilesAre
  <2> HIDE DEF h, s, t
  <2>6. h \o s \in Seq(Requests) /\ Phased(h \o s, TRUE)
    BY <2>3, <2>4, ConcatIs, PhasedConcat
  <2>7. todo' \in Seq(Requests) /\ Phased(todo', TRUE)
    BY <2>2, <2>5, <2>6, ConcatIs, PhasedConcat
  <2>8. /\ \A v \in on(curr) : Has(todo', "hide", v)
        /\ \A v \in on(d) : Has(todo', "tile", v)
    <3>1. \A v \in on(curr) : Has(h \o s, "hide", v)
      BY <2>3, <2>4, ConcatHas
    <3> QED BY <2>2, <2>5, <2>6, <3>1, ConcatHas
  <2>9. \A i \in DOMAIN todo' :
          \/ \E j \in DOMAIN h : todo'[i] = h[j]
          \/ todo'[i].op \in {"mute", "show", "unmute", "tile"} /\ todo'[i].win \in on(d)
    <3>1. \A i \in DOMAIN todo' :
            (\E j \in DOMAIN (h \o s) : todo'[i] = (h \o s)[j]) \/ (\E j \in DOMAIN t : todo'[i] = t[j])
      BY <2>2, <2>5, <2>6, ConcatIs
    <3>2. \A i \in DOMAIN (h \o s) :
            (\E j \in DOMAIN h : (h \o s)[i] = h[j]) \/ (\E j \in DOMAIN s : (h \o s)[i] = s[j])
      BY <2>3, <2>4, ConcatIs
    <3> QED BY <2>3, <2>4, <2>5, <3>1, <3>2
  <2>10. Requested'
    <3>1. \A i \in DOMAIN todo' :
            \/ todo'[i].op \in {"mute", "hide", "unmute", "unfocus"} /\ todo'[i].win \in on(curr)
            \/ todo'[i].op \in {"mute", "show", "unmute", "tile"} /\ todo'[i].win \in on(d)
      BY <2>3, <2>9
    <3>2. \A i \in DOMAIN todo' : todo'[i].op \in {"hide", "unfocus"} => \E j \in DOMAIN h : todo'[i] = h[j]
      BY <2>9
    <3>3. Alone(todo')
      BY <2>3, <3>1, <3>2 DEF Alone
    <3>4. \A i \in DOMAIN todo' : Fits(todo[i])'
      BY <1>1, <1>6, <3>1 DEF Fits, on
    <3> QED BY <2>7, <3>3, <3>4 DEF Requested
  <2>11. \A v \in Apps : desk_of'[v] = curr' => Has(todo', "tile", v)
    BY <1>1, <2>8 DEF on
  <2> QED BY <1>4, <2>7, <2>8, <2>10, <2>11
<1> QED BY <1>5, <1>6

\* The screen changed, or did not.
LEMMA ScreenAnswer ==
  ASSUME NEW e, Ready(e), running, e.type = "ScreenChange", handle_monitor_changes
  PROVE  Answered(e)
<1>1. running \in BOOLEAN /\ UNCHANGED <<running, desk_of, curr, gave_up>>
  BY DEF Ready, TypeOK, handle_monitor_changes
<1>2. \A v \in Apps : ~notice(e, v) /\ ~asks(e, v)
  BY DEF notice, asks
<1>3. CASE display = screen
  <2>1. UNCHANGED todo
    BY <1>3 DEF handle_monitor_changes
  <2> QED BY <1>1, <1>2, <2>1, NothingAnswered
<1>4. CASE display # screen
  <2>1. PICK order \in SetToSeqs(on(curr)) : todo' = tiles(order)
    BY <1>4 DEF handle_monitor_changes
  <2> QED BY <1>1, <1>2, <2>1, TilesAnswer
<1> QED BY <1>3, <1>4


\* The space of the bars is typed as before.
LEMMA RoomType ==
  ASSUME NEW scr, NEW gone, TypeOK, recalculate_all_struts(scr, gone)
  PROVE  /\ strut_windows' \subseteq Bars
         /\ reserved' \in [Bars -> BarStruts]
         /\ DOMAIN padding' = scr.monitors
BY ClientsAssumption DEF recalculate_all_struts, TypeOK

\* Every handler keeps the types of what it knows of the bars and the screen.
LEMMA HandlerRoom ==
  ASSUME IInv, handle_event
  PROVE  /\ strut_windows' \subseteq Bars
         /\ reserved' \in [Bars -> BarStruts]
         /\ screen' \in Screens
         /\ DOMAIN padding' = screen'.monitors
<1> DEFINE e == Head(queue)
           kept == UNCHANGED <<padding, strut_windows, reserved, screen>>
           room == \E gone : recalculate_all_struts(screen', gone)
<1>1. TypeOK /\ display \in Screens /\ screen \in Screens
  BY DEF IInv, TypeOK
<1>2. ASSUME screen' \in Screens, kept \/ room
      PROVE  /\ strut_windows' \subseteq Bars
             /\ reserved' \in [Bars -> BarStruts]
             /\ DOMAIN padding' = screen'.monitors
  <2>1. CASE kept
    BY <1>1, <2>1 DEF TypeOK
  <2>2. CASE room
    BY <1>1, <2>2, RoomType
  <2> QED BY <1>2, <2>1, <2>2
<1>3. CASE e.type = "MapRequest"
  <2>1. handle_map_request(e.arg)
    BY <1>3 DEF handle_event
  <2>2. UNCHANGED screen /\ (kept \/ room)
    BY <2>1 DEF handle_map_request
  <2> QED BY <1>1, <1>2, <2>2
<1>4. CASE e.type \in {"UnmapNotify", "DestroyNotify"}
  <2>1. handle_unmap_notify(e.arg)
    BY <1>4 DEF handle_event
  <2>2. UNCHANGED screen /\ (kept \/ room)
    BY <2>1 DEF handle_unmap_notify
  <2> QED BY <1>1, <1>2, <2>2
<1>5. CASE e.type = "KeyPress"
  <2>1. switch_desktop_wrapper(e.arg)
    BY <1>5 DEF handle_event
  <2>2. UNCHANGED screen /\ (kept \/ room)
    BY <2>1 DEF switch_desktop_wrapper
  <2> QED BY <1>1, <1>2, <2>2
<1>6. CASE e.type = "ScreenChange"
  <2>1. handle_monitor_changes
    BY <1>6 DEF handle_event
  <2>2. screen' = display /\ (kept \/ room)
    BY <2>1 DEF handle_monitor_changes
  <2> QED BY <1>1, <1>2, <2>2
<1>7. e.type \in Types
  <2>1. queue # <<>> /\ queue \in Seq(Events)
    BY DEF handle_event, IInv, Queued
  <2>2. Head(queue) \in Events
    BY <2>1
  <2> QED BY <2>2 DEF Events
<1> QED BY <1>3, <1>4, <1>5, <1>6, <1>7 DEF Types

\* A handler refuses windows it does not manage, and none of those it does.
LEMMA HandlerRefuses ==
  ASSUME IInv, handle_event
  PROVE  /\ refused' \subseteq Apps
         /\ Dropped'
         /\ \A w \in refused \ refused' : desk_of'[w] # NULL
<1> DEFINE e == Head(queue)
           kept == /\ refused' = refused
                   /\ \A w \in Windows : desk_of'[w] = desk_of[w] \/ desk_of'[w] = NULL
<1>1. /\ refused \subseteq Apps /\ (\A w \in refused : desk_of[w] = NULL)
      /\ desk_of \in [Windows -> DesktopIds \cup {NULL}] /\ curr \in DesktopIds
  BY DEF IInv, TypeOK, Dropped
<1>2. ASSUME kept
      PROVE  /\ refused' \subseteq Apps
             /\ Dropped'
             /\ \A w \in refused \ refused' : desk_of'[w] # NULL
  BY <1>1, <1>2 DEF Dropped, Windows
<1>3. queue # <<>> /\ queue \in Seq(Events)
  BY DEF handle_event, IInv, Queued
<1>4. e \in Events /\ e = queue[1] /\ proper(e)
  BY <1>3 DEF IInv, Queued
<1>5. /\ e.type = "MapRequest" => handle_map_request(e.arg)
      /\ e.type \in {"UnmapNotify", "DestroyNotify"} => handle_unmap_notify(e.arg)
      /\ e.type = "KeyPress" => switch_desktop_wrapper(e.arg)
      /\ e.type = "ScreenChange" => handle_monitor_changes
  BY DEF handle_event
<1>6. e.type \in Types
  BY <1>4 DEF Events
<1> DEFINE w == e.arg
<1>7. e.type \in {"MapRequest", "UnmapNotify", "DestroyNotify"} => w \in Windows
  BY <1>4 DEF proper
<1> HIDE DEF e
<1>8. CASE e.type = "MapRequest"
  <2>1. \/ kept
        \/ w \in exists /\ w \notin Bars /\ desk_of[w] = NULL
    BY <1>5, <1>8 DEF handle_map_request
  <2>2. CASE w \in exists /\ w \notin Bars /\ desk_of[w] = NULL
    <3>1. w \in Apps
      BY <1>7, <1>8, <2>2 DEF Windows
    <3>2. \/ desk_of' = [desk_of EXCEPT ![w] = curr] /\ refused' = refused \ {w}
          \/ desk_of' = desk_of /\ refused' = refused \cup {w}
      BY <1>5, <1>8, <2>2 DEF handle_map_request
    <3>3. CASE desk_of' = [desk_of EXCEPT ![w] = curr] /\ refused' = refused \ {w}
      <4>1. desk_of'[w] = curr /\ \A v \in Windows \ {w} : desk_of'[v] = desk_of[v]
        BY <1>1, <1>7, <1>8, <3>3
      <4>2. curr # NULL
        BY <1>1, Apart
      <4> QED BY <1>1, <3>3, <4>1, <4>2 DEF Dropped, Windows
    <3>4. CASE desk_of' = desk_of /\ refused' = refused \cup {w}
      BY <1>1, <2>2, <3>1, <3>4 DEF Dropped
    <3> QED BY <3>2, <3>3, <3>4
  <2> QED BY <1>2, <2>1, <2>2
<1>9. CASE e.type \in {"UnmapNotify", "DestroyNotify"}
  <2>1. refused' = refused /\ (desk_of' = desk_of \/ desk_of' = [desk_of EXCEPT ![w] = NULL])
    BY <1>5, <1>9 DEF handle_unmap_notify
  <2>2. kept
    BY <1>1, <2>1
  <2> QED BY <1>2, <2>2
<1>10. CASE e.type = "KeyPress"
  BY <1>2, <1>5, <1>10 DEF switch_desktop_wrapper
<1>11. CASE e.type = "ScreenChange"
  BY <1>2, <1>5, <1>11 DEF handle_monitor_changes
<1> QED BY <1>6, <1>8, <1>9, <1>10, <1>11 DEF Types

\* handle_event answers the first event, and takes it from the queue.
LEMMA EventAnswered ==
  ASSUME IInv, handle_event
  PROVE  Answered(queue[1])
<1> DEFINE e == queue[1]
<1>1. queue # <<>> /\ queue \in Seq(Events) /\ Head(queue) = e /\ 1 \in DOMAIN queue
  BY DEF handle_event, IInv, Queued
<1>2. e \in Events /\ proper(e) /\ \A w \in wants : ~notice(e, w)
  BY <1>1 DEF IInv, Queued, Wanted
<1>3. running /\ Ready(e)
  BY <1>2 DEF Ready, IInv, handle_event
<1> HIDE DEF e
<1>4. e.type \in Types
  BY <1>2 DEF Events
<1>9. /\ e.type = "MapRequest" => handle_map_request(e.arg)
      /\ e.type \in {"UnmapNotify", "DestroyNotify"} => handle_unmap_notify(e.arg)
      /\ e.type = "KeyPress" => switch_desktop_wrapper(e.arg)
      /\ e.type = "ScreenChange" => handle_monitor_changes
  BY <1>1 DEF handle_event
<1>5. CASE e.type = "MapRequest"
  <2>1. Answered(e)
    BY <1>9, <1>3, <1>5, MapAnswer
  <2> QED BY <2>1 DEF e
<1>6. CASE e.type \in {"UnmapNotify", "DestroyNotify"}
  <2>1. Answered(e)
    BY <1>9, <1>3, <1>6, UnmapAnswer
  <2> QED BY <2>1 DEF e
<1>7. CASE e.type = "KeyPress"
  <2>1. e.arg \in DesktopIds
    BY <1>2, <1>7 DEF proper
  <2>2. Answered(e)
    BY <1>9, <1>3, <1>7, <2>1, SwitchAnswer
  <2> QED BY <2>2 DEF e
<1>8. CASE e.type = "ScreenChange"
  <2>1. Answered(e)
    BY <1>9, <1>3, <1>8, ScreenAnswer
  <2> QED BY <2>1 DEF e
<1> QED BY <1>4, <1>5, <1>6, <1>7, <1>8 DEF Types

\* What is left of the queue when its first event is taken.
LEMMA TailIs ==
  ASSUME NEW S, NEW s \in Seq(S), s # <<>>
  PROVE  /\ Tail(s) \in Seq(S) /\ 1 \in DOMAIN s
         /\ \A i \in DOMAIN Tail(s) : i + 1 \in DOMAIN s /\ Tail(s)[i] = s[i + 1]
         /\ \A i \in DOMAIN s : i # 1 => i - 1 \in DOMAIN Tail(s) /\ Tail(s)[i - 1] = s[i]
OBVIOUS

-----------------------------------------------------------------------------
(* The invariant is kept: the handlers.                                    *)

\* handle_event keeps the invariant.
LEMMA EventKeeps ==
  ASSUME IInv, handle_event
  PROVE  IInv'
<1> DEFINE e == queue[1]
<1>1. Answered(e)
  BY EventAnswered
<1>2. /\ running /\ todo = <<>> /\ queue # <<>> /\ queue' = Tail(queue)
      /\ UNCHANGED <<exists, wants, viewable, display, strut, listening, unreported>>
  BY DEF handle_event
<1>3. queue \in Seq(Events) /\ \A i \in DOMAIN queue : proper(queue[i])
  BY DEF IInv, Queued
<1>4. /\ queue' \in Seq(Events) /\ 1 \in DOMAIN queue
      /\ \A i \in DOMAIN queue' : i + 1 \in DOMAIN queue /\ queue'[i] = queue[i + 1]
      /\ \A i \in DOMAIN queue : i # 1 => i - 1 \in DOMAIN queue' /\ queue'[i - 1] = queue[i]
  BY <1>2, <1>3, TailIs
<1>5. /\ Requested' /\ Phased(todo', TRUE)
      /\ curr' \in DesktopIds /\ desk_of' \in [Windows -> DesktopIds \cup {NULL}]
      /\ running' \in BOOLEAN /\ (running' => running) /\ gave_up' \in BOOLEAN
  BY <1>1 DEF Answered
<1>6. \A w \in Apps :
       /\ desk_of'[w] # desk_of[w] =>
            \/ notice(e, w) /\ desk_of'[w] = NULL
            \/ asks(e, w) /\ w \in exists /\ desk_of'[w] = curr /\ curr' = curr
       /\ notice(e, w) => desk_of'[w] = NULL
       /\ asks(e, w) /\ w \in exists => desk_of'[w] # NULL \/ w \in refused'
       /\ desk_of[w] = curr =>
            desk_of'[w] = curr' \/ Has(todo', "hide", w) \/ Has(todo', "kill", w)
  BY <1>1 DEF Answered
<1>7. \/ \A w \in Apps : desk_of'[w] = curr' => Has(todo', "tile", w) \/ Has(todo', "show", w)
      \/ /\ curr' = curr /\ gave_up' = gave_up
         /\ \A w \in Apps : desk_of'[w] = curr => desk_of[w] = curr
         /\ \A w \in Apps \ exists : desk_of[w] = curr => desk_of'[w] = curr
  BY <1>1 DEF Answered
<1>18. refused' \subseteq Apps /\ Dropped' /\ \A w \in refused \ refused' : desk_of'[w] # NULL
  BY HandlerRefuses
<1> HIDE DEF e
<1>8. \A w, op : ~Has(todo, op, w)
  BY <1>2 DEF Has
<1>9. listening = TRUE
  BY <1>2 DEF IInv, Phased, TypeOK
<1>10. wants \subseteq Apps /\ wants \subseteq exists
  BY DEF IInv, TypeOK
<1>11. Queued'
  BY <1>3, <1>4 DEF Queued
<1>12. TypeOK'
  <2>1. \A i \in DOMAIN queue' : queue'[i].arg \in Windows \cup DesktopIds \cup {NULL}
    <3>1. \A i \in DOMAIN queue' : queue'[i] \in Events
      BY <1>4
    <3> QED BY <3>1 DEF Events
  <2>2. \A i \in DOMAIN todo' : todo'[i].win \in Windows
    <3>1. todo' \in Seq(Requests)
      BY <1>5 DEF Requested
    <3>2. \A i \in DOMAIN todo' : todo'[i] \in Requests
      BY <3>1
    <3> QED BY <3>2 DEF Requests
  <2>3. TypeOK
    BY DEF IInv
  <2>4. /\ strut_windows' \subseteq Bars
        /\ reserved' \in [Bars -> BarStruts]
        /\ screen' \in Screens
        /\ DOMAIN padding' = screen'.monitors
    BY <2>3, HandlerRoom
  <2> QED BY <1>2, <1>5, <1>18, <2>1, <2>2, <2>3, <2>4 DEF TypeOK
<1>13. Wanted'
  <2> SUFFICES ASSUME NEW w \in wants
               PROVE  /\ \A i \in DOMAIN queue' : ~notice(queue'[i], w)
                      /\ desk_of'[w] = NULL /\ w \notin refused' /\ running'
                           => \E i \in DOMAIN queue' : asks(queue'[i], w)
    BY <1>2 DEF Wanted
  <2>1. \A i \in DOMAIN queue : ~notice(queue[i], w)
    BY DEF IInv, Wanted
  <2>2. \A i \in DOMAIN queue' : ~notice(queue'[i], w)
    BY <1>4, <2>1
  <2>3. ASSUME desk_of'[w] = NULL, w \notin refused', running'
        PROVE  \E i \in DOMAIN queue' : asks(queue'[i], w)
    <3>1. ~notice(e, w) /\ ~asks(e, w)
      BY <1>4, <1>6, <1>10, <2>1, <2>3 DEF e
    <3>2. desk_of[w] = NULL /\ w \notin refused
      BY <1>6, <1>10, <1>18, <2>3, <3>1
    <3>3. PICK i \in DOMAIN queue : asks(queue[i], w)
      BY <1>2, <3>2 DEF IInv, Wanted
    <3>4. i # 1
      BY <3>1, <3>3 DEF e
    <3> QED BY <1>4, <3>3, <3>4
  <2> QED BY <2>2, <2>3
<1>14. Unwanted'
  <2> SUFFICES ASSUME NEW w \in Apps \ (wants \cup unreported)
               PROVE  /\ desk_of'[w] # NULL => \E i \in DOMAIN queue' : notice(queue'[i], w)
                      /\ \A i \in DOMAIN queue' :
                           asks(queue'[i], w) => \E j \in DOMAIN queue' : j > i /\ notice(queue'[j], w)
    BY <1>2 DEF Unwanted
  <2>1. ASSUME desk_of'[w] # NULL
        PROVE  \E i \in DOMAIN queue' : notice(queue'[i], w)
    <3>1. ~notice(e, w)
      BY <1>6, <2>1
    <3>2. \E i \in DOMAIN queue : notice(queue[i], w)
      <4>1. CASE desk_of[w] # NULL
        BY <4>1 DEF IInv, Unwanted
      <4>2. CASE desk_of[w] = NULL
        <5>1. asks(queue[1], w)
          BY <1>6, <2>1, <4>2 DEF e
        <5> QED BY <1>4, <5>1 DEF IInv, Unwanted
      <4> QED BY <4>1, <4>2
    <3>3. PICK i \in DOMAIN queue : notice(queue[i], w)
      BY <3>2
    <3>4. i # 1
      BY <3>1, <3>3 DEF e
    <3> QED BY <1>4, <3>3, <3>4
  <2>2. ASSUME NEW i \in DOMAIN queue', asks(queue'[i], w)
        PROVE  \E j \in DOMAIN queue' : j > i /\ notice(queue'[j], w)
    <3>1. i \in Nat /\ i + 1 \in DOMAIN queue /\ asks(queue[i + 1], w)
      BY <1>4, <2>2
    <3>2. PICK j \in DOMAIN queue : j > i + 1 /\ notice(queue[j], w)
      BY <3>1 DEF IInv, Unwanted
    <3>3. j \in Nat /\ j # 1
      BY <1>3, <3>1, <3>2
    <3>4. j - 1 \in DOMAIN queue' /\ queue'[j - 1] = queue[j] /\ j - 1 > i
      BY <1>4, <3>1, <3>2, <3>3
    <3> QED BY <3>2, <3>4
  <2> QED BY <2>1, <2>2
<1>15. Hidden'
  <2>1. \A w \in Apps \cap viewable : desk_of[w] = curr
    BY <1>8 DEF IInv, Hidden
  <2> QED BY <1>2, <1>6, <2>1 DEF Hidden
<1>16. Shown'
  <2> SUFFICES ASSUME running', ~gave_up', NEW w \in wants \ viewable, desk_of'[w] = curr'
               PROVE  \/ Has(todo', "tile", w) \/ Has(todo', "show", w)
                      \/ \E v \in Apps \ exists : desk_of'[v] = curr'
    BY <1>2 DEF Shown
  <2>1. CASE \A v \in Apps : desk_of'[v] = curr' => Has(todo', "tile", v) \/ Has(todo', "show", v)
    BY <1>10, <2>1
  <2>2. CASE /\ curr' = curr /\ gave_up' = gave_up
             /\ \A v \in Apps : desk_of'[v] = curr => desk_of[v] = curr
             /\ \A v \in Apps \ exists : desk_of[v] = curr => desk_of'[v] = curr
    <3>1. desk_of[w] = curr
      BY <1>10, <2>2
    <3>2. \E v \in Apps \ exists : desk_of[v] = curr
      BY <1>2, <1>8, <2>2, <3>1 DEF IInv, Shown
    <3> QED BY <2>2, <3>2
  <2> QED BY <1>7, <2>1, <2>2
<1>17. Phased(todo', listening')
  BY <1>2, <1>5, <1>9
<1> QED BY <1>5, <1>11, <1>12, <1>13, <1>14, <1>15, <1>16, <1>17, <1>18 DEF IInv


-----------------------------------------------------------------------------
(* The invariant is kept: clients, and the requests of zwm.                *)

\* The queue grows by the events of E, and by each of them.
Grows(E) ==
  /\ queue' \in Seq(Events)
  /\ \A i \in DOMAIN queue : i \in DOMAIN queue' /\ queue'[i] = queue[i]
  /\ \A i \in DOMAIN queue' \ DOMAIN queue : queue'[i] \in E
  /\ \A e \in E : \E i \in DOMAIN queue' \ DOMAIN queue : queue'[i] = e
  /\ \A i \in DOMAIN queue' \ DOMAIN queue : \A j \in DOMAIN queue : i > j

\* Events are appended.
LEMMA GrowsIs ==
  ASSUME queue \in Seq(Events), NEW s \in Seq(Events), queue' = queue \o s
  PROVE  Grows({s[i] : i \in DOMAIN s})
<1>1. queue' \in Seq(Events) /\ DOMAIN queue' = 1 .. Len(queue) + Len(s)
      /\ DOMAIN queue = 1 .. Len(queue) /\ DOMAIN s = 1 .. Len(s)
      /\ Len(queue) \in Nat /\ Len(s) \in Nat
  OBVIOUS
<1>2. \A i \in DOMAIN queue : i \in DOMAIN queue' /\ queue'[i] = queue[i]
  OBVIOUS
<1>3. \A i \in DOMAIN queue' \ DOMAIN queue : i - Len(queue) \in DOMAIN s /\ queue'[i] = s[i - Len(queue)]
  BY <1>1
<1>4. \A i \in DOMAIN s :
        /\ i + Len(queue) \in DOMAIN queue' \ DOMAIN queue
        /\ queue'[i + Len(queue)] = s[i]
  BY <1>1
<1>5. \A i \in DOMAIN queue' \ DOMAIN queue : \A j \in DOMAIN queue : i > j
  BY <1>1
<1> DEFINE E == {s[i] : i \in DOMAIN s}
<1>6. \A i \in DOMAIN s : s[i] \in E
  OBVIOUS
<1>7. \A e \in E : \E i \in DOMAIN s : e = s[i]
  OBVIOUS
<1> HIDE DEF E
<1>8. \A i \in DOMAIN queue' \ DOMAIN queue : queue'[i] \in E
  BY <1>3, <1>6
<1>9. ASSUME NEW e \in E
      PROVE  \E i \in DOMAIN queue' \ DOMAIN queue : queue'[i] = e
  <2>1. PICK j \in DOMAIN s : e = s[j]
    BY <1>7
  <2>2. j + Len(queue) \in DOMAIN queue' \ DOMAIN queue /\ queue'[j + Len(queue)] = e
    BY <1>4, <2>1
  <2> QED BY <2>2
<1>10. Grows(E)
  BY <1>1, <1>2, <1>5, <1>8, <1>9 DEF Grows
<1> QED BY <1>10 DEF E

\* Nothing is appended.
LEMMA GrowsNot ==
  ASSUME queue \in Seq(Events), queue' = queue
  PROVE  Grows({})
BY DEF Grows

\* What clients and requests may do to the queue and to what is wanted.
Told(E) ==
  /\ Grows(E) /\ E \subseteq Events /\ \A e \in E : proper(e)
  /\ UNCHANGED <<desk_of, running>>
  /\ unreported \subseteq unreported' /\ refused' \subseteq refused
  /\ \A w \in refused \ refused' : \E e \in E : asks(e, w)
  /\ \A w \in wants' :
       /\ \A e \in E : ~notice(e, w)
       /\ \/ w \in wants
          \/ /\ w \notin viewable /\ desk_of[w] = NULL
             /\ \A i \in DOMAIN queue : ~notice(queue[i], w)
             /\ \E e \in E : asks(e, w)
  /\ \A w \in Apps \ (wants' \cup unreported') :
       /\ \A e \in E : ~asks(e, w)
       /\ w \in wants => \E e \in E : notice(e, w)

\* Then what is on its way still accounts for what is wanted.
LEMMA ToldKeeps ==
  ASSUME IInv, NEW E, Told(E)
  PROVE  Queued' /\ Wanted' /\ Dropped' /\ Unwanted'
<1>1. /\ queue' \in Seq(Events)
      /\ \A i \in DOMAIN queue : i \in DOMAIN queue' /\ queue'[i] = queue[i]
      /\ \A i \in DOMAIN queue' \ DOMAIN queue : queue'[i] \in E
      /\ \A e \in E : \E i \in DOMAIN queue' \ DOMAIN queue : queue'[i] = e
      /\ \A i \in DOMAIN queue' \ DOMAIN queue : \A j \in DOMAIN queue : i > j
  BY DEF Told, Grows
<1>2. /\ desk_of' = desk_of /\ running' = running /\ unreported \subseteq unreported'
      /\ \A e \in E : proper(e)
      /\ refused' \subseteq refused
      /\ \A w \in refused \ refused' : \E e \in E : asks(e, w)
  BY DEF Told
<1>3. \A w \in wants' :
       /\ \A e \in E : ~notice(e, w)
       /\ \/ w \in wants
          \/ /\ \A i \in DOMAIN queue : ~notice(queue[i], w)
             /\ \E e \in E : asks(e, w)
  BY DEF Told
<1>4. \A w \in Apps \ (wants' \cup unreported') :
       /\ \A e \in E : ~asks(e, w)
       /\ w \in wants => \E e \in E : notice(e, w)
  BY DEF Told
<1>5. Queued'
  <2>1. \A i \in DOMAIN queue : proper(queue[i])
    BY DEF IInv, Queued
  <2>2. \A i \in DOMAIN queue' : proper(queue'[i])
    BY <1>1, <1>2, <2>1
  <2> QED BY <1>1, <2>2 DEF Queued, proper
<1>6. Wanted'
  <2> SUFFICES ASSUME NEW w \in wants'
               PROVE  /\ \A i \in DOMAIN queue' : ~notice(queue'[i], w)
                      /\ desk_of[w] = NULL /\ w \notin refused' /\ running
                           => \E i \in DOMAIN queue' : asks(queue'[i], w)
    BY <1>2 DEF Wanted
  <2>1. \A i \in DOMAIN queue : ~notice(queue[i], w)
    BY <1>3 DEF IInv, Wanted
  <2>2. \A i \in DOMAIN queue' : ~notice(queue'[i], w)
    BY <1>1, <1>3, <2>1
  <2>3. CASE w \in wants /\ w \notin refused
    BY <1>1, <2>2, <2>3 DEF IInv, Wanted
  <2>4. CASE \E e \in E : asks(e, w)
    BY <1>1, <2>2, <2>4
  <2>5. CASE w \in refused'
    BY <2>2, <2>5
  <2> QED BY <1>2, <1>3, <2>3, <2>4, <2>5
<1>7. Unwanted'
  <2> SUFFICES ASSUME NEW w \in Apps \ (wants' \cup unreported')
               PROVE  /\ desk_of[w] # NULL => \E i \in DOMAIN queue' : notice(queue'[i], w)
                      /\ \A i \in DOMAIN queue' :
                           asks(queue'[i], w) => \E j \in DOMAIN queue' : j > i /\ notice(queue'[j], w)
    BY <1>2 DEF Unwanted
  <2>1. CASE w \in wants
    <3>1. PICK k \in DOMAIN queue' \ DOMAIN queue : notice(queue'[k], w)
      BY <1>1, <1>4, <2>1
    <3>2. \A i \in DOMAIN queue' : asks(queue'[i], w) => i \in DOMAIN queue
      BY <1>1, <1>4
    <3> QED BY <1>1, <3>1, <3>2
  <2>2. CASE w \notin wants
    <3>1. w \in Apps \ (wants \cup unreported)
      BY <1>2, <2>2
    <3>2. desk_of[w] # NULL => \E i \in DOMAIN queue' : notice(queue'[i], w)
      BY <1>1, <3>1 DEF IInv, Unwanted
    <3>3. ASSUME NEW i \in DOMAIN queue', asks(queue'[i], w)
          PROVE  \E j \in DOMAIN queue' : j > i /\ notice(queue'[j], w)
      <4>1. i \in DOMAIN queue /\ asks(queue[i], w)
        BY <1>1, <1>4, <3>3
      <4>2. PICK j \in DOMAIN queue : j > i /\ notice(queue[j], w)
        BY <3>1, <4>1 DEF IInv, Unwanted
      <4> QED BY <1>1, <4>2
    <3> QED BY <3>2, <3>3
  <2> QED BY <2>1, <2>2
<1>8. Dropped'
  BY <1>2 DEF IInv, Dropped
<1> QED BY <1>5, <1>6, <1>7, <1>8

\* What a step of the clients is to zwm: it learns of it by events alone.
Apart_from(E) ==
  /\ Told(E)
  /\ UNCHANGED <<todo, curr, gave_up, listening, strut_windows, screen, padding, reserved>>
  /\ wants' \subseteq Apps \cap exists' /\ exists' \subseteq exists
  /\ viewable' \subseteq viewable \cap exists'
  /\ \A w \in viewable \ viewable' : w \notin wants'
  /\ strut' \in [Bars -> BarStruts] /\ display' \in Screens
  /\ unreported' \subseteq Windows

LEMMA ClientKeeps ==
  ASSUME IInv, NEW E, Apart_from(E)
  PROVE  IInv'
<1>1. Queued' /\ Wanted' /\ Dropped' /\ Unwanted'
  BY ToldKeeps DEF Apart_from
<1>2. /\ todo' = todo /\ curr' = curr /\ gave_up' = gave_up /\ listening' = listening
      /\ desk_of' = desk_of /\ running' = running
      /\ UNCHANGED <<strut_windows, screen, padding, reserved>>
      /\ wants' \subseteq Apps \cap exists' /\ exists' \subseteq exists
      /\ viewable' \subseteq viewable \cap exists'
      /\ \A w \in viewable \ viewable' : w \notin wants'
      /\ strut' \in [Bars -> BarStruts] /\ display' \in Screens
      /\ unreported' \subseteq Windows /\ refused' \subseteq refused
  BY DEF Apart_from, Told
<1>3. \A w \in wants' : w \in wants \/ (w \notin viewable /\ desk_of[w] = NULL)
  BY DEF Apart_from, Told
<1>4. curr # NULL
  BY Apart DEF IInv, TypeOK
<1>5. TypeOK'
  <2>1. \A i \in DOMAIN queue' : queue'[i].arg \in Windows \cup DesktopIds \cup {NULL}
    <3>1. \A i \in DOMAIN queue' : queue'[i] \in Events
      BY <1>1 DEF Queued
    <3> QED BY <3>1 DEF Events
  <2> QED BY <1>2, <2>1 DEF IInv, TypeOK
<1>6. Requested'
  <2>1. \A i \in DOMAIN todo : Fits(todo[i])'
    BY <1>2, <1>3 DEF IInv, Requested, Fits
  <2> QED BY <1>2, <2>1 DEF IInv, Requested
<1>7. Phased(todo, listening)'
  BY <1>2 DEF IInv
<1>8. Hidden'
  BY <1>2 DEF IInv, Hidden
<1>9. Shown'
  <2> SUFFICES ASSUME running, ~gave_up, NEW w \in wants' \ viewable', desk_of[w] = curr
               PROVE  \/ Has(todo, "tile", w) \/ Has(todo, "show", w)
                      \/ \E v \in Apps \ exists' : desk_of[v] = curr
    BY <1>2 DEF Shown
  <2>1. w \in wants \ viewable
    BY <1>2, <1>3, <1>4
  <2> QED BY <1>2, <2>1 DEF IInv, Shown
<1> QED BY <1>1, <1>5, <1>6, <1>7, <1>8, <1>9 DEF IInv


\* An event is what it was made of.
LEMMA EventIs ==
  ASSUME NEW type \in Types, NEW arg \in Windows \cup DesktopIds \cup {NULL}
  PROVE  LET e == event(type, arg)
         IN  /\ e \in Events /\ e.type = type /\ e.arg = arg
             /\ \A w : /\ notice(e, w) <=> type \in {"UnmapNotify", "DestroyNotify"} /\ arg = w
                       /\ asks(e, w) <=> type = "MapRequest" /\ arg = w
BY DEF event, Events, notice, asks

\* One event is appended.
LEMMA GrowsByOne ==
  ASSUME queue \in Seq(Events), NEW e \in Events,
         queue' = queue \o <<e>> \/ queue' = Append(queue, e)
  PROVE  Grows({e})
<1>1. <<e>> \in Seq(Events) /\ DOMAIN <<e>> = {1} /\ <<e>>[1] = e
  OBVIOUS
<1>2. queue' = queue \o <<e>>
  OBVIOUS
<1>3. Grows({<<e>>[i] : i \in DOMAIN <<e>>})
  BY <1>1, <1>2, GrowsIs
<1>4. {<<e>>[i] : i \in DOMAIN <<e>>} = {e}
  BY <1>1
<1> QED BY <1>3, <1>4

\* Two single events make a pair.
LEMMA PairOf ==
  ASSUME NEW e \in Events, NEW f \in Events
  PROVE  /\ <<e>> \in Seq(Events) /\ <<f>> \in Seq(Events)
         /\ <<e>> \o <<f>> = <<e, f>> /\ <<>> \o <<f>> = <<f>>
<1> DEFINE s == <<e>>
           t == <<f>>
           u == <<e, f>>
<1>1. s \in Seq(Events) /\ Len(s) = 1 /\ s[1] = e
  OBVIOUS
<1>2. t \in Seq(Events) /\ Len(t) = 1 /\ t[1] = f
  OBVIOUS
<1>3. u \in Seq(Events) /\ Len(u) = 2 /\ u[1] = e /\ u[2] = f
  OBVIOUS
<1> HIDE DEF s, t, u
<1>4. s \o t \in Seq(Events) /\ Len(s \o t) = 2 /\ (s \o t)[1] = e /\ (s \o t)[2] = f
  <2>1. /\ s \o t \in Seq(Events) /\ Len(s \o t) = 2
        /\ \A i \in 1 .. 2 : (s \o t)[i] = IF i <= 1 THEN s[i] ELSE t[i - 1]
    BY <1>1, <1>2, ConcatProperties
  <2>2. 1 \in 1 .. 2 /\ 2 \in 1 .. 2 /\ ~(2 <= 1) /\ 2 - 1 = 1
    OBVIOUS
  <2> QED BY <1>1, <1>2, <2>1, <2>2
<1>5. \A i \in 1 .. 2 : (s \o t)[i] = u[i]
  BY <1>3, <1>4
<1>6. s \o t = u
  BY <1>3, <1>4, <1>5, SeqEqual
<1>7. <<>> \o t = t
  BY <1>2, ConcatEmptySeq
<1> QED BY <1>1, <1>2, <1>6, <1>7 DEF s, t, u

\* Two are.
LEMMA GrowsByTwo ==
  ASSUME queue \in Seq(Events), NEW e \in Events, NEW f \in Events,
         queue' = queue \o <<e, f>> \/ queue' = Append(queue \o <<e>>, f)
  PROVE  Grows({e, f})
<1>1. <<e, f>> \in Seq(Events) /\ DOMAIN <<e, f>> = {1, 2} /\ <<e, f>>[1] = e /\ <<e, f>>[2] = f
  OBVIOUS
<1>2. queue' = queue \o <<e, f>>
  <2>1. <<e>> \in Seq(Events) /\ <<f>> \in Seq(Events) /\ <<e>> \o <<f>> = <<e, f>>
    BY PairOf
  <2>2. queue \o <<e>> \in Seq(Events)
    BY <2>1
  <2>3. Append(queue \o <<e>>, f) = (queue \o <<e>>) \o <<f>>
    BY <2>2, AppendIsConcat
  <2>4. (queue \o <<e>>) \o <<f>> = queue \o (<<e>> \o <<f>>)
    BY <2>1, ConcatAssociative
  <2> QED BY <2>1, <2>3, <2>4
<1>3. Grows({<<e, f>>[i] : i \in DOMAIN <<e, f>>})
  BY <1>1, <1>2, GrowsIs
<1>4. {<<e, f>>[i] : i \in DOMAIN <<e, f>>} = {e, f}
  BY <1>1
<1> QED BY <1>3, <1>4

\* Clients map windows as ICCCM asks.
LEMMA MapKeeps ==
  ASSUME IInv, NEW w \in Windows, client_map(w)
  PROVE  IInv'
<1> DEFINE e == event("MapRequest", w)
<1>1. /\ e \in Events /\ e.type = "MapRequest" /\ e.arg = w
      /\ \A v : ~notice(e, v) /\ (asks(e, v) <=> v = w)
  BY EventIs DEF Types
<1> HIDE DEF e
<1>2. Grows({e})
  BY <1>1, GrowsByOne DEF client_map, IInv, Queued, e
<1>3. /\ w \in exists \ viewable /\ wants' = wants \cup ({w} \cap Apps) /\ refused' = refused \ {w}
      /\ UNCHANGED <<exists, viewable, display, strut, listening, running, desk_of, curr,
                     strut_windows, screen, padding, todo, reserved, unreported, gave_up>>
      /\ w \in wants \cup Bars \/ (desk_of[w] = NULL /\ \A i \in DOMAIN queue : queue[i].arg # w)
  BY DEF client_map, zwm
<1>4. TypeOK
  BY DEF IInv
<1>5. Told({e})
  <2>1. ASSUME NEW v \in wants'
        PROVE  \/ v \in wants
               \/ /\ v \notin viewable /\ desk_of[v] = NULL
                  /\ \A i \in DOMAIN queue : ~notice(queue[i], v)
                  /\ asks(e, v)
    BY <1>1, <1>3, <2>1, Apart DEF notice
  <2>2. \A v \in Apps \ wants' : ~asks(e, v) /\ v \notin wants
    BY <1>1, <1>3
  <2>3. proper(e)
    BY <1>1 DEF proper
  <2> QED BY <1>1, <1>2, <1>3, <2>1, <2>2, <2>3 DEF Told
<1>6. Apart_from({e})
  BY <1>3, <1>4, <1>5 DEF Apart_from, TypeOK
<1> QED BY <1>6, ClientKeeps

\* Clients withdraw them.
LEMMA WithdrawKeeps ==
  ASSUME IInv, NEW w \in Windows, client_withdraw(w)
  PROVE  IInv'
<1> DEFINE e == event("UnmapNotify", w)
<1>1. /\ e \in Events /\ e.type = "UnmapNotify" /\ e.arg = w
      /\ \A v : ~asks(e, v) /\ (notice(e, v) <=> v = w)
  BY EventIs DEF Types
<1> HIDE DEF e
<1>2. queue \in Seq(Events)
  BY DEF IInv, Queued
<1>3. Grows({e})
  <2>1. queue' = Append(queue, e) \/ queue' = Append(queue \o <<e>>, e)
    BY DEF client_withdraw, notified, e
  <2>2. CASE queue' = Append(queue, e)
    BY <1>1, <1>2, <2>2, GrowsByOne
  <2>3. CASE queue' = Append(queue \o <<e>>, e)
    <3>1. Grows({e, e})
      BY <1>1, <1>2, <2>3, GrowsByTwo
    <3>2. {e, e} = {e}
      OBVIOUS
    <3> QED BY <3>1, <3>2
  <2> QED BY <2>1, <2>2, <2>3
<1>4. /\ w \in wants /\ wants' = wants \ {w} /\ viewable' = viewable \ {w}
      /\ UNCHANGED <<exists, display, strut, listening, running, desk_of, curr,
                     strut_windows, screen, padding, todo, reserved, unreported, refused, gave_up>>
  BY DEF client_withdraw, zwm
<1>5. TypeOK
  BY DEF IInv
<1>6. Told({e})
  <2>1. proper(e)
    BY <1>1 DEF proper
  <2>2. \A v \in wants' : ~notice(e, v) /\ v \in wants
    BY <1>1, <1>4
  <2>3. \A v \in Apps \ wants' : ~asks(e, v) /\ (v \in wants => notice(e, v))
    BY <1>1, <1>4
  <2> QED BY <1>1, <1>3, <1>4, <2>1, <2>2, <2>3 DEF Told
<1>7. Apart_from({e})
  BY <1>4, <1>5, <1>6 DEF Apart_from, TypeOK
<1> QED BY <1>7, ClientKeeps

\* A bar is unmapped.
LEMMA BarKeeps ==
  ASSUME IInv, NEW b \in Bars, bar_unmap(b)
  PROVE  IInv'
<1> DEFINE e == event("UnmapNotify", b)
<1>1. /\ e \in Events /\ e.type = "UnmapNotify" /\ e.arg = b
      /\ \A v : ~asks(e, v) /\ (notice(e, v) <=> v = b)
  BY EventIs DEF Types, Windows
<1> HIDE DEF e
<1>2. /\ b \in viewable /\ viewable' = viewable \ {b}
      /\ UNCHANGED <<exists, wants, display, strut, listening, running, desk_of, curr,
                     strut_windows, screen, padding, todo, reserved, unreported, refused, gave_up>>
  BY DEF bar_unmap, zwm
<1>3. TypeOK
  BY DEF IInv
<1>4. PICK E \in {{}, {e}} : Grows(E)
  <2>1. queue \in Seq(Events)
    BY DEF IInv, Queued
  <2>2. queue' = queue \/ queue' = queue \o <<e>>
    BY DEF bar_unmap, notified, e
  <2> QED BY <1>1, <2>1, <2>2, GrowsNot, GrowsByOne
<1>5. wants \subseteq Apps /\ b \notin Apps /\ b \in Windows
  BY <1>3, Apart DEF TypeOK, Windows
<1>6. \A f \in E : f = e
  BY <1>4
<1>7. Told(E)
  <2>1. proper(e)
    BY <1>1, <1>5 DEF proper
  <2>2. \A v \in Apps : ~notice(e, v) /\ ~asks(e, v)
    BY <1>1, <1>5
  <2> QED BY <1>1, <1>2, <1>4, <1>5, <1>6, <2>1, <2>2 DEF Told
<1>8. Apart_from(E)
  BY <1>2, <1>3, <1>5, <1>7 DEF Apart_from, TypeOK
<1> QED BY <1>8, ClientKeeps

\* A window is destroyed; zwm hears of it, if it listens.
LEMMA DestroyKeeps ==
  ASSUME IInv, NEW w \in Windows, client_destroy(w)
  PROVE  IInv'
<1> DEFINE e == event("UnmapNotify", w)
           f == event("DestroyNotify", w)
<1>1. /\ e \in Events /\ e.type = "UnmapNotify" /\ e.arg = w
      /\ f \in Events /\ f.type = "DestroyNotify" /\ f.arg = w
      /\ \A v : ~asks(e, v) /\ (notice(e, v) <=> v = w)
      /\ \A v : ~asks(f, v) /\ (notice(f, v) <=> v = w)
  BY EventIs DEF Types
<1> HIDE DEF e, f
<1>2. /\ w \in exists /\ exists' = exists \ {w} /\ wants' = wants \ {w}
      /\ viewable' = viewable \ {w}
      /\ unreported' = IF listening THEN unreported ELSE unreported \cup {w}
      /\ UNCHANGED <<display, strut, listening, running, desk_of, curr,
                     strut_windows, screen, padding, todo, reserved, refused, gave_up>>
  BY DEF client_destroy, zwm
<1>3. TypeOK
  BY DEF IInv
<1>4. PICK E \in SUBSET {e, f} : Grows(E) /\ (listening => f \in E)
  <2>1. queue \in Seq(Events)
    BY DEF IInv, Queued
  <2>2. \/ ~listening /\ queue' = queue
        \/ queue' = queue \o (<<>> \o <<f>>)
        \/ queue' = queue \o (<<e>> \o <<f>>)
    BY DEF client_destroy, notified, e, f
  <2>3. <<>> \o <<f>> = <<f>> /\ <<e>> \o <<f>> = <<e, f>>
    BY <1>1, PairOf
  <2>4. CASE ~listening /\ queue' = queue
    BY <2>1, <2>4, GrowsNot
  <2>5. CASE queue' = queue \o <<f>>
    BY <1>1, <2>1, <2>5, GrowsByOne
  <2>6. CASE queue' = queue \o <<e, f>>
    BY <1>1, <2>1, <2>6, GrowsByTwo
  <2> QED BY <2>2, <2>3, <2>4, <2>5, <2>6
<1>5. wants \subseteq Apps \cap exists /\ viewable \subseteq exists
  BY <1>3 DEF TypeOK
<1>6. \A g \in E : /\ g \in Events /\ proper(g)
                   /\ \A v : ~asks(g, v) /\ (notice(g, v) <=> v = w)
  BY <1>1, <1>4 DEF proper
<1>7. Told(E)
  <2>1. E \subseteq Events /\ \A g \in E : proper(g)
    BY <1>6
  <2>2. \A v \in wants' : v \in wants /\ \A g \in E : ~notice(g, v)
    BY <1>2, <1>6
  <2>3. \A v \in Apps \ (wants' \cup unreported') :
           /\ \A g \in E : ~asks(g, v)
           /\ v \in wants => \E g \in E : notice(g, v)
    BY <1>2, <1>4, <1>6
  <2> QED BY <1>2, <1>4, <2>1, <2>2, <2>3 DEF Told
<1>8. Apart_from(E)
  BY <1>2, <1>3, <1>5, <1>7 DEF Apart_from, TypeOK
<1> QED BY <1>8, ClientKeeps

\* A bar sets another strut, of which there is no event.
LEMMA ResizeKeeps ==
  ASSUME IInv, NEW b \in Bars, NEW s \in BarStruts, bar_resize(b, s)
  PROVE  IInv'
<1>1. /\ strut' = [strut EXCEPT ![b] = s] /\ queue' = queue
      /\ UNCHANGED <<exists, wants, viewable, display, listening, running, desk_of, curr,
                     strut_windows, screen, padding, todo, reserved, unreported, refused, gave_up>>
  BY DEF bar_resize, zwm
<1>2. TypeOK /\ queue \in Seq(Events)
  BY DEF IInv, Queued
<1>3. Grows({})
  BY <1>1, <1>2, GrowsNot
<1>4. Told({})
  BY <1>1, <1>3 DEF Told
<1>5. Apart_from({})
  BY <1>1, <1>2, <1>4 DEF Apart_from, TypeOK
<1> QED BY <1>5, ClientKeeps

\* A key, or a monitor that changes.
LEMMA PressKeeps ==
  ASSUME IInv, NEW e \in Events, proper(e), e.type \in {"KeyPress", "ScreenChange"},
         queue' = Append(queue, e), display' \in Screens,
         UNCHANGED <<exists, wants, viewable, strut, listening, zwm, reserved, unreported,
                   refused, gave_up>>
  PROVE  IInv'
<1>1. TypeOK /\ queue \in Seq(Events)
  BY DEF IInv, Queued
<1>2. Grows({e})
  BY <1>1, GrowsByOne
<1>3. \A v : ~asks(e, v) /\ ~notice(e, v)
  BY DEF asks, notice
<1>4. Told({e})
  BY <1>2, <1>3 DEF Told, zwm
<1>5. Apart_from({e})
  BY <1>1, <1>4 DEF Apart_from, TypeOK, zwm
<1> QED BY <1>5, ClientKeeps

\* No step of a client breaks the invariant.
LEMMA ClientsKeep ==
  ASSUME IInv, client
  PROVE  IInv'
<1>1. CASE \E w \in Windows : client_map(w) \/ client_withdraw(w) \/ client_destroy(w)
  BY <1>1, MapKeeps, WithdrawKeeps, DestroyKeeps
<1>2. CASE \E b \in Bars : bar_unmap(b) \/ \E s \in BarStruts : bar_resize(b, s)
  BY <1>2, BarKeeps, ResizeKeeps
<1>3. CASE \E d \in DesktopIds : key_press(d)
  <2>1. PICK d \in DesktopIds : key_press(d)
    BY <1>3
  <2> DEFINE e == event("KeyPress", d)
  <2>2. e \in Events /\ e.type = "KeyPress" /\ e.arg = d
    BY EventIs DEF Types
  <2>3. queue' = Append(queue, e)
        /\ UNCHANGED <<exists, wants, viewable, display, strut, listening, zwm, reserved,
                       unreported, refused, gave_up>>
    BY <2>1 DEF key_press
  <2> HIDE DEF e
  <2>4. proper(e) /\ display' \in Screens
    BY <2>2, <2>3 DEF proper, IInv, TypeOK
  <2> QED BY <2>2, <2>3, <2>4, PressKeeps
<1>4. CASE \E scr \in Screens : screen_change(scr)
  <2>1. PICK scr \in Screens : screen_change(scr)
    BY <1>4
  <2> DEFINE e == event("ScreenChange", NULL)
  <2>2. e \in Events /\ e.type = "ScreenChange" /\ e.arg = NULL
    BY EventIs DEF Types
  <2>3. queue' = Append(queue, e) /\ display' = scr
        /\ UNCHANGED <<exists, wants, viewable, strut, listening, zwm, reserved,
                       unreported, refused, gave_up>>
    BY <2>1 DEF screen_change
  <2> HIDE DEF e
  <2>4. proper(e)
    BY <2>2 DEF proper
  <2> QED BY <2>2, <2>3, <2>4, PressKeeps
<1> QED BY <1>1, <1>2, <1>3, <1>4 DEF client


\* What is left of the requests, and of which, after the next is carried out.
LEMMA RequestLeaves ==
  ASSUME IInv, x_request
  PROVE  LET r == todo[1]
         IN  /\ todo # <<>> /\ r \in Requests /\ Fits(r)
             /\ Head(todo) = r
             /\ Requested' /\ Phased(todo', leaves(r.op))
             /\ \A op, w : Has(todo, op, w) =>
                  \/ Has(todo', op, w)
                  \/ r.op = op /\ r.win = w
                  \/ op = "tile" /\ r.op = "tile" /\ r.win \notin exists
                  \/ r.op = "unfocus" /\ r.win \notin exists
<1> DEFINE r == todo[1]
<1>1. /\ todo # <<>> /\ Head(todo) = r
      /\ UNCHANGED <<exists, wants, desk_of, curr>>
  <2>1. todo # <<>> /\ UNCHANGED <<exists, wants, desk_of, curr>>
    BY DEF x_request
  <2>2. todo \in Seq(Requests)
    BY DEF IInv, Requested
  <2> QED BY <2>1, <2>2
<1>2. /\ todo \in Seq(Requests) /\ Alone(todo) /\ Phased(todo, listening)
      /\ \A i \in DOMAIN todo : Fits(todo[i])
  BY DEF IInv, Requested
<1>3. 1 \in DOMAIN todo /\ r \in Requests /\ Fits(r) /\ Len(todo) \in Nat /\ Len(todo) >= 1
      /\ DOMAIN todo = 1 .. Len(todo)
  BY <1>1, <1>2
<1> DEFINE gone == r.win \notin exists
<1>4. \/ /\ gone /\ r.op = "tile"
         /\ \E n \in 1 .. Len(todo) :
              /\ \A i \in 1 .. n : todo[i].op = "tile"
              /\ todo' = SubSeq(todo, n + 1, Len(todo))
      \/ ~(gone /\ r.op = "tile") /\ gone /\ r.op = "unfocus" /\ todo' = <<>>
      \/ ~(gone /\ r.op = "tile") /\ ~(gone /\ r.op = "unfocus") /\ todo' = Tail(todo)
  BY <1>1 DEF x_request
<1>5. PICK n \in 1 .. Len(todo) :
        /\ todo' = SubSeq(todo, n + 1, Len(todo))
        /\ Phased(todo', leaves(r.op))
        /\ \/ n = 1
           \/ gone /\ r.op = "tile" /\ \A i \in 1 .. n : todo[i].op = "tile"
           \/ gone /\ r.op = "unfocus"
  <2> HIDE DEF r
  <2>1. CASE /\ gone /\ r.op = "tile"
             /\ \E n \in 1 .. Len(todo) :
                  /\ \A i \in 1 .. n : todo[i].op = "tile"
                  /\ todo' = SubSeq(todo, n + 1, Len(todo))
    <3>1. PICK n \in 1 .. Len(todo) :
            /\ \A i \in 1 .. n : todo[i].op = "tile"
            /\ todo' = SubSeq(todo, n + 1, Len(todo))
      BY <2>1
    <3>2. Phased(todo', leaves(todo[n].op))
      BY <1>2, <3>1, PhasedRest
    <3>3. todo[n].op = r.op
      BY <2>1, <3>1
    <3> QED BY <2>1, <3>1, <3>2, <3>3
  <2>2. CASE gone /\ r.op = "unfocus" /\ todo' = <<>>
    <3>1. Len(todo) \in 1 .. Len(todo) /\ todo' = SubSeq(todo, Len(todo) + 1, Len(todo))
      BY <1>2, <1>3, <2>2
    <3>2. Phased(todo', leaves(r.op))
      BY <2>2 DEF Phased, leaves
    <3> QED BY <2>2, <3>1, <3>2
  <2>3. CASE todo' = Tail(todo)
    <3>1. 1 \in 1 .. Len(todo) /\ Tail(todo) = SubSeq(todo, 1 + 1, Len(todo))
      BY <1>1, <1>2, <1>3, TailIsSubSeq
    <3>2. Phased(todo', leaves(todo[1].op))
      BY <1>2, <2>3, <3>1, PhasedRest
    <3> QED BY <2>3, <3>1, <3>2 DEF r
  <2> QED BY <1>4, <2>1, <2>2, <2>3
<1>6. /\ todo' \in Seq(Requests) /\ DOMAIN todo' = 1 .. Len(todo) - n
      /\ \A i \in DOMAIN todo' : i + n \in DOMAIN todo /\ todo'[i] = todo[i + n]
      /\ \A i \in DOMAIN todo : i > n => i - n \in DOMAIN todo' /\ todo'[i - n] = todo[i]
  <2>1. todo' = SubSeq(todo, n + 1, Len(todo))
    BY <1>5
  <2>2. /\ todo' \in Seq(Requests) /\ Len(todo') = Len(todo) - n
        /\ \A i \in 1 .. Len(todo) - n : todo'[i] = todo[i + n]
    <3>1. n \in Nat /\ n + 1 \in 1 .. Len(todo) + 1
      BY <1>3
    <3>2. \A i \in 1 .. Len(todo) - n : todo'[i] = todo[i + n]
      BY <1>2, <1>3, <2>1, <3>1
    <3>3. todo' \in Seq(Requests) /\ Len(todo') = Len(todo) - n
      <4> DEFINE l == Len(todo)
                 q == SubSeq(todo, n + 1, l)
      <4>1. \A i \in n + 1 .. Len(todo) : todo[i] \in Requests
        BY <1>2, <1>3, <3>1
      <4>2. n + 1 \in Int /\ Len(todo) \in Int
        BY <1>3
      <4>3. q \in Seq(Requests) /\ Len(q) = IF n + 1 <= l THEN l - (n + 1) + 1 ELSE 0
        BY <4>1, <4>2, SubSeqProperties
      <4>4. l \in Nat /\ n \in 1 .. l
        BY <1>3
      <4> HIDE DEF l, q
      <4>5. Len(q) = l - n
        BY <4>3, <4>4
      <4> QED BY <2>1, <4>3, <4>5 DEF q, l
    <3> QED BY <3>2, <3>3
  <2>3. DOMAIN todo' = 1 .. Len(todo) - n
    BY <2>2
  <2>4. \A i \in DOMAIN todo : i > n => i - n \in DOMAIN todo' /\ todo'[i - n] = todo[i]
    <3>1. \A i \in DOMAIN todo : i > n => i - n \in 1 .. Len(todo) - n /\ i - n + n = i
      BY <1>3
    <3> QED BY <2>2, <2>3, <3>1
  <2> QED BY <1>3, <2>2, <2>3, <2>4
<1>7. ASSUME NEW op, NEW w, Has(todo, op, w)
      PROVE  \/ Has(todo', op, w)
             \/ r.op = op /\ r.win = w
             \/ op = "tile" /\ r.op = "tile" /\ gone
             \/ r.op = "unfocus" /\ gone
  <2>1. PICK i \in DOMAIN todo : todo[i].op = op /\ todo[i].win = w
    BY <1>7 DEF Has
  <2>2. CASE i > n
    BY <1>6, <2>1, <2>2 DEF Has
  <2>3. CASE i <= n
    BY <1>3, <1>5, <2>1, <2>3
  <2> QED BY <1>3, <2>2, <2>3
<1>8. wants \subseteq Apps /\ NULL # curr
  BY Apart DEF IInv, TypeOK
<1>9. \A w \in viewable' : w \in viewable \/ (r.op \in {"tile", "show", "map"} /\ r.win = w)
  BY <1>1 DEF x_request
<1>10. ASSUME NEW q, \E i \in DOMAIN todo : q = todo[i]
       PROVE  Fits(q)'
  <2>1. Fits(q)
    BY <1>2, <1>10
  <2>2. ASSUME q.op = "kill", q.win \in wants, q.win \in viewable'
        PROVE  FALSE
    <3>1. desk_of[q.win] = NULL /\ q.win \notin viewable
      BY <2>1, <2>2 DEF Fits
    <3>2. r.op \in {"tile", "show", "map"} /\ r.win = q.win
      BY <1>9, <2>2, <3>1
    <3>3. r.win \in Apps /\ r.win \notin Bars
      BY <1>8, <2>2, <3>2, Apart
    <3> QED BY <1>3, <1>8, <3>1, <3>2, <3>3 DEF Fits
  <2> QED BY <1>1, <2>1, <2>2 DEF Fits
<1>11. Requested'
  <2>1. Alone(todo')
    BY <1>2, <1>6 DEF Alone
  <2>2. \A i \in DOMAIN todo' : Fits(todo[i])'
    <3>1. \A i \in DOMAIN todo' : \E j \in DOMAIN todo : todo'[i] = todo[j]
      BY <1>6
    <3> QED BY <1>10, <3>1 DEF Fits
  <2> QED BY <1>6, <2>1, <2>2 DEF Requested
<1> QED BY <1>1, <1>3, <1>5, <1>7, <1>11

\* Carrying out a request keeps the invariant.
LEMMA RequestKeeps ==
  ASSUME IInv, x_request
  PROVE  IInv'
<1> DEFINE r == todo[1]
           gone == r.win \notin exists
<1>1. /\ todo # <<>> /\ r \in Requests /\ Fits(r)
      /\ Head(todo) = r
      /\ Requested' /\ Phased(todo', leaves(r.op))
      /\ \A op, w : Has(todo, op, w) =>
           \/ Has(todo', op, w)
           \/ r.op = op /\ r.win = w
           \/ op = "tile" /\ r.op = "tile" /\ gone
           \/ r.op = "unfocus" /\ gone
  BY RequestLeaves
<1>2. /\ running
      /\ gave_up' = (gave_up \/ (gone /\ r.op = "unfocus"))
      /\ listening' = IF r.op = "mute" THEN FALSE ELSE IF r.op = "unmute" THEN TRUE ELSE listening
      /\ viewable' = IF r.op \in {"tile", "show", "map"} THEN viewable \cup ({r.win} \cap exists)
                     ELSE IF r.op \in {"hide", "kill"} THEN viewable \ {r.win} ELSE viewable
      /\ queue' = IF r.op \in {"hide", "kill"} /\ r.win \in viewable
                  THEN notified(queue, <<event("UnmapNotify", r.win)>>) ELSE queue
      /\ UNCHANGED <<exists, wants, display, strut, running, desk_of, curr, strut_windows, screen,
                     padding, reserved, unreported, refused>>
  BY <1>1 DEF x_request
<1>3. /\ Phased(todo, listening) /\ listening \in BOOLEAN /\ TypeOK
      /\ todo \in Seq(Requests) /\ Alone(todo)
      /\ queue \in Seq(Events)
      /\ \A i \in DOMAIN todo : Fits(todo[i])
  BY DEF IInv, TypeOK, Requested, Queued
<1>4. listening <=> heard(r.op)
  BY <1>1, <1>3 DEF Phased
<1>5. r.op \in Ops /\ r.win \in Windows
  BY <1>1 DEF Requests
<1> DEFINE e == event("UnmapNotify", r.win)
<1>6. /\ e \in Events /\ e.type = "UnmapNotify" /\ e.arg = r.win
      /\ \A v : ~asks(e, v) /\ (notice(e, v) <=> v = r.win)
  BY <1>5, EventIs DEF Types
<1>7. queue' = queue \/ (queue' = queue \o <<e>> /\ r.op = "kill" /\ r.win \in viewable)
  BY <1>2, <1>4 DEF notified, heard
<1>8. wants \subseteq Apps /\ NULL # curr /\ viewable \subseteq exists
  BY <1>3, Apart DEF TypeOK
<1> HIDE DEF e
<1>9. PICK E \in {{}, {e}} : Grows(E) /\ (E # {} => r.op = "kill" /\ r.win \in viewable)
  BY <1>3, <1>6, <1>7, GrowsNot, GrowsByOne
<1>10. Told(E)
  <2>1. \A f \in E : f = e
    BY <1>9
  <2>2. \A f \in E : f \in Events /\ proper(f)
    BY <1>5, <1>6, <2>1 DEF proper
  <2>3. \A v \in wants : \A f \in E : ~notice(f, v)
    BY <1>1, <1>6, <1>9, <2>1 DEF Fits
  <2>4. \A v : \A f \in E : ~asks(f, v)
    BY <1>6, <2>1
  <2> QED BY <1>2, <1>9, <2>2, <2>3, <2>4 DEF Told
<1>11. Queued' /\ Wanted' /\ Dropped' /\ Unwanted'
  BY <1>10, ToldKeeps
<1> HIDE DEF r
<1>12. TypeOK'
  <2>1. \A i \in DOMAIN queue' : queue'[i].arg \in Windows \cup DesktopIds \cup {NULL}
    <3>1. \A i \in DOMAIN queue' : queue'[i] \in Events
      BY <1>11 DEF Queued
    <3> QED BY <3>1 DEF Events
  <2>2. \A i \in DOMAIN todo' : todo'[i].win \in Windows
    <3>1. todo' \in Seq(Requests)
      BY <1>1 DEF Requested
    <3>2. \A i \in DOMAIN todo' : todo'[i] \in Requests
      BY <3>1
    <3> QED BY <3>2 DEF Requests
  <2>3. viewable' \subseteq exists
    BY <1>2, <1>8
  <2>4. listening' \in BOOLEAN /\ gave_up' \in BOOLEAN
    BY <1>2, <1>3 DEF TypeOK
  <2> QED BY <1>2, <1>3, <2>1, <2>2, <2>3, <2>4 DEF TypeOK
<1>13. listening' <=> leaves(r.op)
  BY <1>2, <1>3, <1>4, <1>5 DEF leaves, heard, Ops
<1>14. Phased(todo', listening')
  BY <1>1, <1>13 DEF Phased
<1>15. Hidden'
  <2> SUFFICES ASSUME NEW w \in Apps \cap viewable', desk_of[w] # curr
               PROVE  Has(todo', "hide", w) \/ Has(todo', "kill", w)
    BY <1>2 DEF Hidden
  <2>1. w \in viewable
    BY <1>1, <1>2, Apart DEF Fits
  <2>2. Has(todo, "hide", w) \/ Has(todo, "kill", w)
    BY <2>1 DEF IInv, Hidden
  <2>3. ~(r.op \in {"hide", "kill"} /\ r.win = w)
    BY <1>2
  <2>4. CASE r.op = "unfocus" /\ gone
    <3>1. 1 \in DOMAIN todo
      BY <1>1, <1>3
    <3>2. PICK i \in DOMAIN todo : todo[i].op \in {"hide", "kill"} /\ todo[i].win = w
      BY <2>2 DEF Has
    <3>3. w = r.win
      BY <1>3, <2>4, <3>1, <3>2 DEF Alone, r
    <3> QED BY <1>8, <2>1, <2>4, <3>3
  <2>5. CASE ~(r.op = "unfocus" /\ gone)
    BY <1>1, <2>2, <2>3, <2>5
  <2> QED BY <2>4, <2>5
<1>16. Shown'
  <2> SUFFICES ASSUME ~gave_up', NEW w \in wants \ viewable', desk_of[w] = curr
               PROVE  \/ Has(todo', "tile", w) \/ Has(todo', "show", w)
                      \/ \E v \in Apps \ exists : desk_of[v] = curr
    BY <1>2 DEF Shown
  <2>1. ~gave_up /\ ~(gone /\ r.op = "unfocus")
    BY <1>2, <1>3 DEF TypeOK
  <2>2. w \notin viewable
    BY <1>1, <1>2, <1>8 DEF Fits
  <2>3. ~(r.op \in {"tile", "show"} /\ r.win = w)
    BY <1>2, <1>3 DEF TypeOK
  <2>4. \/ Has(todo, "tile", w) \/ Has(todo, "show", w)
        \/ \E v \in Apps \ exists : desk_of[v] = curr
    BY <1>2, <2>1, <2>2 DEF IInv, Shown
  <2>5. r.op = "tile" /\ gone => \E v \in Apps \ exists : desk_of[v] = curr
    BY <1>1 DEF Fits
  <2> QED BY <1>1, <2>1, <2>3, <2>4, <2>5
<1> QED BY <1>1, <1>11, <1>12, <1>14, <1>15, <1>16 DEF IInv


-----------------------------------------------------------------------------
(* The theorems.                                                           *)

\* It holds at the start.
LEMMA InitIInv == Init => IInv
<1> SUFFICES ASSUME Init PROVE IInv
  OBVIOUS
<1>1. /\ exists = Windows /\ wants = {} /\ viewable = {} /\ queue = <<>> /\ listening = TRUE
      /\ running = TRUE /\ desk_of = [w \in Windows |-> NULL] /\ curr = 0 /\ todo = <<>>
      /\ strut_windows = {} /\ unreported = {} /\ refused = {} /\ gave_up = FALSE
  BY DEF Init
<1>2. TypeOK
  <2>1. NoStrut \in BarStruts /\ FirstScreen \in Screens
    BY ClientsAssumption
  <2>2. strut \in [Bars -> BarStruts] /\ reserved \in [Bars -> BarStruts]
    BY <2>1 DEF Init
  <2>3. display \in Screens /\ screen \in Screens /\ DOMAIN padding = screen.monitors
    BY <2>1 DEF Init
  <2>4. desk_of \in [Windows -> DesktopIds \cup {NULL}] /\ curr \in DesktopIds
    BY <1>1, Apart
  <2>5. DOMAIN queue = {} /\ DOMAIN todo = {}
    BY <1>1
  <2>6. listening \in BOOLEAN /\ running \in BOOLEAN /\ gave_up \in BOOLEAN
    BY <1>1
  <2>7. /\ exists \subseteq Windows /\ wants \subseteq Apps \cap exists /\ viewable \subseteq exists
        /\ strut_windows \subseteq Bars /\ unreported \subseteq Windows /\ refused \subseteq Apps
    BY <1>1
  <2> QED BY <2>2, <2>3, <2>4, <2>5, <2>6, <2>7 DEF TypeOK
<1>3. Queued /\ Requested /\ Phased(todo, listening)
  BY <1>1 DEF Queued, Requested, Alone, Phased
<1>4. Wanted /\ Dropped /\ Hidden /\ Shown
  BY <1>1 DEF Wanted, Dropped, Hidden, Shown
<1>5. Unwanted
  BY <1>1 DEF Unwanted, Windows
<1> QED BY <1>2, <1>3, <1>4, <1>5 DEF IInv

\* Every step keeps it.
LEMMA IInvNext == IInv /\ [Next]_vars => IInv'
<1> SUFFICES ASSUME IInv, [Next]_vars PROVE IInv'
  OBVIOUS
<1>1. CASE client
  BY <1>1, ClientsKeep
<1>2. CASE x_request
  BY <1>2, RequestKeeps
<1>3. CASE handle_event
  BY <1>3, EventKeeps
<1>4. CASE UNCHANGED vars
  BY <1>4 DEF vars, server, zwm, IInv, TypeOK, Queued, Requested, Fits, Alone, Has, Phased,
              Wanted, Dropped, Unwanted, Hidden, Shown, notice, asks, proper, heard, leaves
<1> QED BY <1>1, <1>2, <1>3, <1>4 DEF Next, zwm_step

LEMMA IInvAlways == Spec => []IInv
<1>1. Init => IInv
  BY InitIInv
<1>2. IInv /\ [Next]_vars => IInv'
  BY IInvNext
<1> QED BY <1>1, <1>2, PTL DEF Spec

\* The variables of zwm, of its clients and of the server keep their types.
THEOREM TypeCorrect == Spec => []TypeOK
<1>1. IInv => TypeOK
  BY DEF IInv
<1> QED BY <1>1, IInvAlways, PTL

\* Whatever the requests of a handler, and wherever the requests of clients come
\* between them, zwm listens again when it waits for the next event
\* (set_visibility, zwm.c:4867).
THEOREM ListeningAlways == Spec => []Listening
<1>1. IInv => Listening
  BY DEF IInv, Phased, Listening
<1> QED BY <1>1, IInvAlways, PTL

\* Once zwm has answered all it was told, it manages the windows its clients want
\* shown, but for those whose request it dropped, and no other, and those of the
\* current desktop are the ones on the screen (event_loop, zwm.c:7212).
THEOREM InStepAlways == Spec => []InStep
<1>1. IInv => InStep
  <2> SUFFICES ASSUME IInv, Quiet, Ghosts = {}, ~gave_up, NEW w \in Apps
               PROVE  /\ desk_of[w] # NULL <=> w \in wants \ refused
                      /\ w \in viewable <=> desk_of[w] = curr
    BY DEF InStep
  <2>1. running /\ todo = <<>> /\ queue = <<>>
    BY DEF Quiet
  <2>2. \A op, v : ~Has(todo, op, v)
    BY <2>1 DEF Has
  <2>3. DOMAIN queue = {}
    BY <2>1
  <2>4. \A v \in Apps : desk_of[v] # NULL => v \in wants
    BY <2>3 DEF IInv, Unwanted, Ghosts
  <2>5. /\ \A v \in wants \ refused : desk_of[v] # NULL
        /\ \A v \in refused : desk_of[v] = NULL
    BY <2>1, <2>3 DEF IInv, Wanted, Dropped
  <2>6. w \in viewable => desk_of[w] = curr
    BY <2>2 DEF IInv, Hidden
  <2>7. curr # NULL /\ wants \subseteq exists
    BY Apart DEF IInv, TypeOK
  <2>8. ASSUME desk_of[w] = curr, w \notin viewable
        PROVE  FALSE
    <3>1. w \in wants
      BY <2>4, <2>7, <2>8
    <3>2. PICK v \in Apps \ exists : desk_of[v] = curr
      BY <2>1, <2>2, <2>8, <3>1 DEF IInv, Shown
    <3> QED BY <2>4, <2>7, <3>2
  <2> QED BY <2>4, <2>5, <2>6, <2>8
<1> QED BY <1>1, IInvAlways, PTL


-----------------------------------------------------------------------------
(* The room for bars.                                                      *)

Before == OpToRel(<, Nat)

\* A set of numbers that is not empty has a least element.
LEMMA LeastIn ==
  ASSUME NEW T, T \subseteq Nat, T # {}
  PROVE  \E x \in T : \A y \in T : ~(y < x)
<1>1. IsWellFoundedOn(Before, Nat)
  BY NatLessThanWellFounded DEF Before
<1>2. \E x \in T : \A y \in T : ~(<<y, x>> \in Before)
  BY <1>1, WFMin
<1>3. \A x, y \in Nat : x < y => <<x, y>> \in Before
  BY DEF Before, OpToRel
<1> QED BY <1>2, <1>3

\* A finite set of numbers has a greatest: of the members counted first, the least
\* count without one has a predecessor with one.
LEMMA MaxIs ==
  ASSUME NEW S, S \subseteq Int, S # {}, IsFiniteSet(S)
  PROVE  Max(S) \in S /\ \A x \in S : x <= Max(S)
<1>1. PICK n \in Nat : ExistsSurjection(1 .. n, S)
  BY FS_NatSurjection
<1>2. PICK f \in Surjection(1 .. n, S) : TRUE
  BY <1>1 DEF ExistsSurjection
<1>3. f \in [1 .. n -> S] /\ \A x \in S : \E i \in 1 .. n : f[i] = x
  BY <1>2 DEF Surjection
<1>4. \A i \in 1 .. n : f[i] \in S /\ f[i] \in Int
  BY <1>3
<1>5. n >= 1
  <2>1. PICK x \in S : TRUE
    OBVIOUS
  <2>2. PICK i \in 1 .. n : f[i] = x
    BY <1>3, <2>1
  <2> QED BY <2>2
<1> DEFINE topped(k) == \E j \in 1 .. k : \A i \in 1 .. k : f[j] >= f[i]
           K == {k \in 1 .. n : ~topped(k)}
<1>6. topped(1)
  <2>1. f[1] \in Int
    BY <1>4, <1>5
  <2>2. \A i \in 1 .. 1 : f[1] >= f[i]
    BY <2>1
  <2> QED BY <2>2
<1>7. ASSUME NEW k \in 1 .. n, k # 1, topped(k - 1)
      PROVE  topped(k)
  <2>1. PICK j \in 1 .. k - 1 : \A i \in 1 .. k - 1 : f[j] >= f[i]
    BY <1>7
  <2> HIDE DEF topped, K
  <2>2. j \in 1 .. k /\ k \in 1 .. k /\ f[j] \in Int /\ f[k] \in Int
    BY <1>4, <1>7
  <2>3. \A i \in 1 .. k : i = k \/ i \in 1 .. k - 1
    OBVIOUS
  <2>4. \A i \in 1 .. k : f[i] \in Int
    BY <1>4
  <2>5. CASE f[j] >= f[k]
    <3>1. \A i \in 1 .. k : f[j] >= f[i]
      BY <2>1, <2>3, <2>5
    <3> QED BY <2>2, <3>1 DEF topped
  <2>6. CASE f[k] > f[j]
    <3>1. \A i \in 1 .. k - 1 : f[k] >= f[i]
      BY <2>1, <2>2, <2>4, <2>6
    <3>2. \A i \in 1 .. k : f[k] >= f[i]
      BY <2>2, <2>3, <3>1
    <3> QED BY <2>2, <3>2 DEF topped
  <2> QED BY <2>2, <2>5, <2>6
<1>8. K \subseteq 1 .. n /\ \A k \in 1 .. n : k \in K <=> ~topped(k)
  OBVIOUS
<1> HIDE DEF topped, K
<1>9. K = {}
  <2> SUFFICES ASSUME K # {} PROVE FALSE
    OBVIOUS
  <2>1. K \subseteq Nat
    BY <1>8
  <2>2. PICK k \in K : \A y \in K : ~(y < k)
    BY <2>1, LeastIn
  <2>3. k \in 1 .. n /\ ~topped(k)
    BY <1>8
  <2>4. k # 1
    BY <1>6, <2>3
  <2>5. k - 1 \in 1 .. n /\ k - 1 < k
    BY <2>3, <2>4
  <2>6. topped(k - 1)
    BY <1>8, <2>2, <2>5
  <2> QED BY <1>7, <2>3, <2>4, <2>6
<1>10. n \in 1 .. n
  BY <1>5
<1>11. topped(n)
  BY <1>8, <1>9, <1>10
<1>12. PICK j \in 1 .. n : \A i \in 1 .. n : f[j] >= f[i]
  BY <1>11 DEF topped
<1>13. f[j] \in S /\ \A x \in S : f[j] >= x
  BY <1>4, <1>3, <1>12
<1>14. \E x \in S : \A y \in S : x >= y
  BY <1>13
<1>15. Max(S) \in S /\ \A y \in S : Max(S) >= y
  BY <1>14 DEF Max
<1> QED BY <1>15

\* A monitor, and a strut, are of numbers.
Rectangles == [x : Int, y : Int, width : Nat, height : Nat]

\* What a strut asks of a monitor is a number.
LEMMA ReachType ==
  ASSUME NEW m \in Rectangles, NEW side \in Sides, NEW s \in BarStruts
  PROVE  ewmh_handle_struts(m, side, s, FirstScreen) \in Int
<1>1. FirstScreen.width \in Nat /\ FirstScreen.height \in Nat
  BY ClientsAssumption
<1>2. s[side].size \in Nat
  BY ClientsAssumption
<1>3. m.x \in Int /\ m.y \in Int /\ m.width \in Nat /\ m.height \in Nat
  BY DEF Rectangles
<1>4. reach(m, side, s[side].size, FirstScreen) \in Int
  BY <1>1, <1>2, <1>3 DEF reach, Sides
<1> QED BY <1>4 DEF ewmh_handle_struts

\* The padding is at least what each strut asks.
LEMMA PaddingIs ==
  ASSUME NEW m \in Rectangles, NEW struts, struts \subseteq BarStruts, IsFiniteSet(struts)
  PROVE  /\ recalculated(m, struts, FirstScreen) \in [Sides -> Nat]
         /\ \A side \in Sides, s \in struts :
              ewmh_handle_struts(m, side, s, FirstScreen)
                <= recalculated(m, struts, FirstScreen)[side]
<1> SUFFICES ASSUME NEW side \in Sides
             PROVE  LET p == Max({0} \cup {ewmh_handle_struts(m, side, s, FirstScreen) : s \in struts})
                    IN  /\ p \in Nat
                        /\ \A s \in struts : ewmh_handle_struts(m, side, s, FirstScreen) <= p
  BY DEF recalculated
<1> DEFINE ask(s) == ewmh_handle_struts(m, side, s, FirstScreen)
           A == {ask(s) : s \in struts}
           S == {0} \cup A
<1>1. \A s \in struts : ask(s) \in Int
  BY ReachType
<1>2. IsFiniteSet(A)
  <2> DEFINE g == [s \in struts |-> ask(s)]
  <2>1. g \in [struts -> A] /\ \A a \in A : \E s \in struts : g[s] = a
    OBVIOUS
  <2>2. g \in Surjection(struts, A)
    BY <2>1 DEF Surjection
  <2> HIDE DEF g, A
  <2> QED BY <2>2, FS_Surjection
<1>3. IsFiniteSet(S)
  <2> HIDE DEF A
  <2> QED BY <1>2, FS_Singleton, FS_Union
<1>4. S \subseteq Int /\ 0 \in S
  BY <1>1
<1>5. Max(S) \in S /\ \A x \in S : x <= Max(S)
  <2> HIDE DEF S
  <2> QED BY <1>3, <1>4, MaxIs
<1>6. Max(S) \in Int /\ 0 <= Max(S)
  <2> HIDE DEF S
  <2> QED BY <1>4, <1>5
<1>7. \A s \in struts : ask(s) \in S
  OBVIOUS
<1>8. Max(S) \in Nat /\ \A s \in struts : ask(s) <= Max(S)
  <2> HIDE DEF S, ask
  <2> QED BY <1>5, <1>6, <1>7
<1> QED BY <1>8


\* What is left of a side is what was there, or nothing.
LEMMA LeftOver ==
  ASSUME NEW a \in Int
  PROVE  Max({0, a}) \in Int /\ (Max({0, a}) > 0 => Max({0, a}) = a)
<1>1. IsFiniteSet({0, a})
  <2>1. IsFiniteSet({0} \cup {a})
    <3>1. IsFiniteSet({0}) /\ IsFiniteSet({a})
      BY FS_Singleton
    <3> QED BY <3>1, FS_Union
  <2>2. {0, a} = {0} \cup {a}
    OBVIOUS
  <2> QED BY <2>1, <2>2, Zenon
<1>2. Max({0, a}) \in {0, a}
  BY <1>1, MaxIs
<1> QED BY <1>2

\* With padding as far as a strut reaches into a monitor, its bands do not reach the
\* usable area: a band that does spans the monitor, and so is one that was counted.
LEMMA BandClear ==
  ASSUME NEW m \in Rectangles, NEW p \in [Sides -> Nat], NEW s \in BarStruts, NEW scr,
         scr.width = FirstScreen.width, scr.height = FirstScreen.height,
         accepted(s, FirstScreen) \/ s = NoStrut,
         \A side \in Sides : ewmh_handle_struts(m, side, s, FirstScreen) <= p[side]
  PROVE  ~covered(s, scr, get_usable_area(m, p))
<1> DEFINE r == get_usable_area(m, p)
           w == m.width - p["left"] - p["right"]
           h == m.height - p["top"] - p["bottom"]
<1>1. /\ m.x \in Int /\ m.y \in Int /\ m.width \in Nat /\ m.height \in Nat
      /\ FirstScreen.width \in Nat /\ FirstScreen.height \in Nat
  BY ClientsAssumption DEF Rectangles
<1>2. p["left"] \in Nat /\ p["right"] \in Nat /\ p["top"] \in Nat /\ p["bottom"] \in Nat
  BY DEF Sides
<1>3. \A side \in Sides : s[side].size \in Nat /\ s[side].first \in Int /\ s[side].last \in Int
  BY ClientsAssumption
<1>4. w \in Int /\ h \in Int
  BY <1>1, <1>2
<1>5. /\ r.x = m.x + p["left"] /\ r.y = m.y + p["top"]
      /\ r.width = Max({0, w}) /\ r.height = Max({0, h})
  BY DEF get_usable_area
<1>6. /\ r.width > 0 => r.width = w
      /\ r.height > 0 => r.height = h
  <2> HIDE DEF r, w, h
  <2> QED BY <1>4, <1>5, LeftOver
<1>7. ASSUME NEW side \in Sides, overlap(band(s, side, scr), r)
      PROVE  FALSE
  <2> DEFINE b == band(s, side, scr)
             t == s[side]
  <2>1. /\ r.x = m.x + p["left"] /\ r.y = m.y + p["top"]
        /\ r.width = m.width - p["left"] - p["right"]
        /\ r.height = m.height - p["top"] - p["bottom"]
    BY <1>5, <1>6, <1>7 DEF overlap
  <2>2. /\ b.width > 0 /\ b.height > 0
        /\ b.x < r.x + r.width /\ r.x < b.x + b.width
        /\ b.y < r.y + r.height /\ r.y < b.y + b.height
    BY <1>7 DEF overlap
  <2>3. t.size \in Nat /\ t.first \in Int /\ t.last \in Int
    BY <1>3
  <2>4. t.size > 0 => accepted(s, FirstScreen)
    BY DEF NoStrut, NoSide
  <2>5. t.size > 0 /\ spans(m, side, t) => reach(m, side, t.size, FirstScreen) <= p[side]
    BY <2>4 DEF ewmh_handle_struts
  <2> DEFINE lo == IF t.first <= t.last THEN t.first ELSE t.last
             hi == IF t.first <= t.last THEN t.last ELSE t.first
  <2>a. lo \in Int /\ hi \in Int
    BY <2>3
  <2>b. ASSUME NEW c \in Int, NEW d \in Int, lo <= d, hi >= c, c <= d
        PROVE  ranges_overlap(t.first, t.last, c, d)
    BY <2>3, <2>b DEF ranges_overlap
  <2>c. /\ side = "left"   => b = [x |-> 0, y |-> lo, width |-> t.size, height |-> hi - lo + 1]
        /\ side = "right"  => b = [x |-> FirstScreen.width - t.size, y |-> lo,
                                   width |-> t.size, height |-> hi - lo + 1]
        /\ side = "top"    => b = [x |-> lo, y |-> 0, width |-> hi - lo + 1, height |-> t.size]
        /\ side = "bottom" => b = [x |-> lo, y |-> FirstScreen.height - t.size,
                                   width |-> hi - lo + 1, height |-> t.size]
    BY DEF band
  <2> HIDE DEF r, w, h, lo, hi, b
  <2>6. CASE side = "left"
    <3>1. b = [x |-> 0, y |-> lo, width |-> t.size, height |-> hi - lo + 1]
      BY <2>c, <2>6
    <3>2. t.size > 0 /\ m.x + p["left"] < t.size
      BY <1>1, <1>2, <2>1, <2>2, <2>3, <2>a, <3>1
    <3>3. lo < m.y + m.height - p["bottom"] /\ m.y + p["top"] < hi + 1
      BY <1>1, <1>2, <2>1, <2>2, <2>3, <2>a, <3>1
    <3>4. spans(m, side, t)
      BY <1>1, <1>2, <2>1, <2>2, <2>a, <2>b, <2>6, <3>3 DEF spans
    <3>5. t.size - m.x <= p["left"]
      BY <2>5, <2>6, <3>2, <3>4 DEF reach
    <3> QED BY <1>1, <1>2, <2>3, <3>2, <3>5
  <2>7. CASE side = "right"
    <3>1. b = [x |-> FirstScreen.width - t.size, y |-> lo,
               width |-> t.size, height |-> hi - lo + 1]
      BY <2>c, <2>7
    <3>2. t.size > 0 /\ FirstScreen.width - t.size < m.x + m.width - p["right"]
      BY <1>1, <1>2, <2>1, <2>2, <2>3, <2>a, <3>1
    <3>3. lo < m.y + m.height - p["bottom"] /\ m.y + p["top"] < hi + 1
      BY <1>1, <1>2, <2>1, <2>2, <2>3, <2>a, <3>1
    <3>4. spans(m, side, t)
      BY <1>1, <1>2, <2>1, <2>2, <2>a, <2>b, <2>7, <3>3 DEF spans
    <3>5. m.x + m.width - (FirstScreen.width - t.size) <= p["right"]
      BY <2>5, <2>7, <3>2, <3>4 DEF reach
    <3> QED BY <1>1, <1>2, <2>3, <3>2, <3>5
  <2>8. CASE side = "top"
    <3>1. b = [x |-> lo, y |-> 0, width |-> hi - lo + 1, height |-> t.size]
      BY <2>c, <2>8
    <3>2. t.size > 0 /\ m.y + p["top"] < t.size
      BY <1>1, <1>2, <2>1, <2>2, <2>3, <2>a, <3>1
    <3>3. lo < m.x + m.width - p["right"] /\ m.x + p["left"] < hi + 1
      BY <1>1, <1>2, <2>1, <2>2, <2>3, <2>a, <3>1
    <3>4. spans(m, side, t)
      BY <1>1, <1>2, <2>1, <2>2, <2>a, <2>b, <2>8, <3>3 DEF spans
    <3>5. t.size - m.y <= p["top"]
      BY <2>5, <2>8, <3>2, <3>4 DEF reach
    <3> QED BY <1>1, <1>2, <2>3, <3>2, <3>5
  <2>9. CASE side = "bottom"
    <3>1. b = [x |-> lo, y |-> FirstScreen.height - t.size,
               width |-> hi - lo + 1, height |-> t.size]
      BY <2>c, <2>9
    <3>2. t.size > 0 /\ FirstScreen.height - t.size < m.y + m.height - p["bottom"]
      BY <1>1, <1>2, <2>1, <2>2, <2>3, <2>a, <3>1
    <3>3. lo < m.x + m.width - p["right"] /\ m.x + p["left"] < hi + 1
      BY <1>1, <1>2, <2>1, <2>2, <2>3, <2>a, <3>1
    <3>4. spans(m, side, t)
      BY <1>1, <1>2, <2>1, <2>2, <2>a, <2>b, <2>9, <3>3 DEF spans
    <3>5. m.y + m.height - (FirstScreen.height - t.size) <= p["bottom"]
      BY <2>5, <2>9, <3>2, <3>4 DEF reach
    <3> QED BY <1>1, <1>2, <2>3, <3>2, <3>5
  <2> QED BY <2>6, <2>7, <2>8, <2>9 DEF Sides
<1> QED BY <1>7 DEF covered

\* Each monitor has as much padding as the struts zwm last read ask of it.
Room ==
  /\ \A b \in Bars : accepted(reserved[b], FirstScreen) \/ reserved[b] = NoStrut
  /\ \A m \in screen.monitors :
       /\ padding[m] \in [Sides -> Nat]
       /\ \A b \in Bars, side \in Sides :
            ewmh_handle_struts(m, side, reserved[b], FirstScreen) <= padding[m][side]

\* A strut of nothing asks for nothing.
LEMMA NothingAsked ==
  ASSUME NEW m, NEW side \in Sides
  PROVE  ewmh_handle_struts(m, side, NoStrut, FirstScreen) = 0
<1>1. NoStrut[side].size = 0
  BY DEF NoStrut, NoSide
<1> QED BY <1>1 DEF ewmh_handle_struts

\* The recalculation makes room for every strut it finds.
LEMMA RecalculationMakesRoom ==
  ASSUME TypeOK, NEW scr \in Screens, NEW gone, recalculate_all_struts(scr, gone), screen' = scr
  PROVE  Room'
<1> DEFINE present == {b \in Bars \cap exists : strut[b] # NoStrut /\ accepted(strut[b], FirstScreen)}
           struts  == {strut[b] : b \in present}
<1>1. /\ padding' = [m \in scr.monitors |-> recalculated(m, struts, FirstScreen)]
      /\ reserved' = [b \in Bars |-> IF b \in present THEN strut[b] ELSE NoStrut]
  BY DEF recalculate_all_struts
<1>2. struts \subseteq BarStruts
  BY DEF TypeOK
<1>3. IsFiniteSet(struts)
  <2>1. IsFiniteSet(present)
    BY ClientsAssumption, FS_Subset
  <2> DEFINE g == [b \in present |-> strut[b]]
  <2>2. g \in [present -> struts] /\ \A a \in struts : \E b \in present : g[b] = a
    OBVIOUS
  <2>3. g \in Surjection(present, struts)
    BY <2>2 DEF Surjection
  <2> HIDE DEF g, struts, present
  <2> QED BY <2>1, <2>3, FS_Surjection
<1>4. scr.monitors \subseteq Rectangles
  BY ClientsAssumption DEF Rectangles
<1>5. \A b \in present : strut[b] \in struts /\ accepted(strut[b], FirstScreen)
  OBVIOUS
<1> HIDE DEF present, struts
<1>6. \A b \in Bars : IF b \in present THEN reserved'[b] = strut[b] ELSE reserved'[b] = NoStrut
  BY <1>1
<1>7. ASSUME NEW b \in Bars
      PROVE  accepted(reserved'[b], FirstScreen) \/ reserved'[b] = NoStrut
  BY <1>5, <1>6
<1>8. ASSUME NEW m \in screen'.monitors
      PROVE  /\ padding'[m] \in [Sides -> Nat]
             /\ \A b \in Bars, side \in Sides :
                  ewmh_handle_struts(m, side, reserved'[b], FirstScreen) <= padding'[m][side]
  <2>1. m \in Rectangles /\ padding'[m] = recalculated(m, struts, FirstScreen)
    BY <1>1, <1>4
  <2>2. /\ padding'[m] \in [Sides -> Nat]
        /\ \A side \in Sides, s \in struts :
             ewmh_handle_struts(m, side, s, FirstScreen) <= padding'[m][side]
    BY <1>2, <1>3, <2>1, PaddingIs
  <2>3. ASSUME NEW b \in Bars, NEW side \in Sides
        PROVE  ewmh_handle_struts(m, side, reserved'[b], FirstScreen) <= padding'[m][side]
    <3>1. CASE b \in present
      BY <1>5, <1>6, <2>2, <3>1
    <3>2. CASE b \notin present
      <4>1. ewmh_handle_struts(m, side, reserved'[b], FirstScreen) = 0
        BY <1>6, <3>2, NothingAsked
      <4>2. padding'[m][side] \in Nat
        BY <2>2
      <4> QED BY <4>1, <4>2
    <3> QED BY <3>1, <3>2
  <2> QED BY <2>2, <2>3
<1> QED BY <1>7, <1>8 DEF Room


\* A step keeps the room for bars: it reads the struts and the screen again, or leaves
\* alone what it knew of them.
LEMMA RoomNext == IInv /\ Room /\ [Next]_vars => Room'
<1> DEFINE kept == UNCHANGED <<padding, reserved, screen>>
           room == \E gone : recalculate_all_struts(screen', gone)
<1> SUFFICES ASSUME IInv, Room, [Next]_vars PROVE Room'
  OBVIOUS
<1>1. ASSUME kept
      PROVE  Room'
  BY <1>1 DEF Room
<1>2. ASSUME room, screen' \in Screens
      PROVE  Room'
  BY <1>2, RecalculationMakesRoom DEF IInv
<1>3. CASE handle_event
  <2> DEFINE e == Head(queue)
  <2>1. screen' \in Screens
    BY <1>3, HandlerRoom
  <2>2. CASE e.type = "MapRequest"
    <3>1. handle_map_request(e.arg)
      BY <1>3, <2>2 DEF handle_event
    <3>2. kept \/ room
      BY <3>1 DEF handle_map_request
    <3> QED BY <1>1, <1>2, <2>1, <3>2
  <2>3. CASE e.type \in {"UnmapNotify", "DestroyNotify"}
    <3>1. handle_unmap_notify(e.arg)
      BY <1>3, <2>3 DEF handle_event
    <3>2. kept \/ room
      BY <3>1 DEF handle_unmap_notify
    <3> QED BY <1>1, <1>2, <2>1, <3>2
  <2>4. CASE e.type = "KeyPress"
    <3>1. switch_desktop_wrapper(e.arg)
      BY <1>3, <2>4 DEF handle_event
    <3>2. UNCHANGED <<padding, screen>> /\ (kept \/ room)
      BY <3>1 DEF switch_desktop_wrapper
    <3> QED BY <1>1, <1>2, <2>1, <3>2
  <2>5. CASE e.type = "ScreenChange"
    <3>1. handle_monitor_changes
      BY <1>3, <2>5 DEF handle_event
    <3>2. kept \/ room
      BY <3>1 DEF handle_monitor_changes
    <3> QED BY <1>1, <1>2, <2>1, <3>2
  <2>6. queue # <<>> /\ queue \in Seq(Events)
    BY <1>3 DEF handle_event, IInv, Queued
  <2>7. e \in Events
    BY <2>6
  <2> QED BY <2>2, <2>3, <2>4, <2>5, <2>7 DEF Events, Types
<1>4. CASE client
  <2>1. kept
    BY <1>4 DEF client, client_map, client_withdraw, client_destroy, bar_unmap, bar_resize,
                key_press, screen_change, zwm
  <2> QED BY <1>1, <2>1
<1>5. CASE x_request
  <2>1. kept
    BY <1>5 DEF x_request
  <2> QED BY <1>1, <2>1
<1>6. CASE UNCHANGED vars
  <2>1. kept
    BY <1>6 DEF vars, zwm
  <2> QED BY <1>1, <2>1
<1> QED BY <1>3, <1>4, <1>5, <1>6 DEF Next, zwm_step

LEMMA InitRoom == Init => Room
<1> SUFFICES ASSUME Init PROVE Room
  OBVIOUS
<1>1. /\ reserved = [b \in Bars |-> NoStrut]
      /\ padding = [m \in screen.monitors |-> NoPadding]
  BY DEF Init
<1>2. \A m \in screen.monitors : padding[m] = NoPadding
  BY <1>1
<1>3. NoPadding \in [Sides -> Nat] /\ \A side \in Sides : NoPadding[side] = 0
  BY DEF NoPadding
<1>4. \A b \in Bars : reserved[b] = NoStrut
  BY <1>1
<1>5. ASSUME NEW m \in screen.monitors, NEW b \in Bars, NEW side \in Sides
      PROVE  ewmh_handle_struts(m, side, reserved[b], FirstScreen) <= padding[m][side]
  BY <1>2, <1>3, <1>4, NothingAsked
<1> QED BY <1>2, <1>3, <1>4, <1>5 DEF Room

\* What a bar reserves is left to it by every usable area, as long as the screen keeps
\* its size: struts are measured from the screen as it was at the start, and not from
\* the one of the monitors (zwm.c:2038, 2143).
THEOREM BarsClearAlways ==
  ASSUME \A scr \in Screens : /\ scr.width = FirstScreen.width
                              /\ scr.height = FirstScreen.height
  PROVE  Spec => []BarsClear
<1>1. TypeOK /\ Room => BarsClear
  <2> SUFFICES ASSUME TypeOK, Room, NEW m \in screen.monitors, NEW b \in Bars
               PROVE  ~covered(reserved[b], screen, get_usable_area(m, padding[m]))
    BY DEF BarsClear
  <2>1. screen \in Screens /\ reserved[b] \in BarStruts
    BY DEF TypeOK
  <2>2. m \in Rectangles
    BY <2>1, ClientsAssumption DEF Rectangles
  <2>3. screen.width = FirstScreen.width /\ screen.height = FirstScreen.height
    BY <2>1
  <2>4. accepted(reserved[b], FirstScreen) \/ reserved[b] = NoStrut
    BY DEF Room
  <2>5. /\ padding[m] \in [Sides -> Nat]
        /\ \A side \in Sides :
             ewmh_handle_struts(m, side, reserved[b], FirstScreen) <= padding[m][side]
    BY DEF Room
  <2> QED BY <2>1, <2>2, <2>3, <2>4, <2>5, BandClear
<1>2. Init => Room
  BY InitRoom
<1>3. IInv /\ Room /\ [Next]_vars => Room'
  BY RoomNext
<1> QED BY <1>1, <1>2, <1>3, IInvAlways, TypeCorrect, PTL DEF Spec


=============================================================================

--------------------------- MODULE BackendsProofs ---------------------------
(***************************************************************************)
(* What holds of the three backends for any numbers of frames, of frame    *)
(* contexts, of requests and of cells in a ring: nothing is destroyed      *)
(* while the GPU may use it, every texture has its contents, every draw    *)
(* reads what was stored for it, and frames form the abstract pipeline.    *)
(*                                                                         *)
(* The script of an iteration is unfolded once, into the few facts of      *)
(* Script's shape. What a call does to the frame under way, to the queue,  *)
(* to the objects and to the rings is then told apart from which backend   *)
(* and which call did it.                                                  *)
(***************************************************************************)
EXTENDS Backends, FiniteSetTheorems, SequenceTheorems, TLAPS

-----------------------------------------------------------------------------
(* The script of an iteration *)

\* The calls of a drawing pass, and all the calls of a script.
Recordings ==
  {"cmd_begin_pass", "cmd_end_pass", "cmd_set_pipeline", "update_buffer",
   "cmd_bind_uniform", "cmd_set_vertex_buffer", "cmd_set_index_buffer",
   "cmd_push_constants", "cmd_set_scissor", "cmd_draw_indexed"}
Frame == {"begin_frame", "buildDrawList", "begin_commands", "end_commands",
          "submit", "present", "end_frame"}
Args == {"none", "Clear", "Forward", "UI_Pass", "frame", "object", "vertex", "index", "constants"}
Calls == (Recordings \cup Frame) \X Args

\* A draw in a script: from p its calls follow one another, up to the draw.
Block(s, p) ==
  /\ p + 8 \in DOMAIN s
  /\ s[p + 1] = <<"update_buffer", "frame">> /\ s[p + 2] = <<"cmd_bind_uniform", "frame">>
  /\ s[p + 3] = <<"cmd_set_vertex_buffer", "vertex">>
  /\ s[p + 4] = <<"cmd_set_index_buffer", "index">>
  /\ s[p + 5] = <<"cmd_push_constants", "constants">>
  /\ s[p + 6] = <<"update_buffer", "object">> /\ s[p + 7] = <<"cmd_bind_uniform", "object">>
  /\ \/ s[p + 8][1] = "cmd_draw_indexed"
     \/ /\ p + 9 \in DOMAIN s
        /\ s[p + 8][1] = "cmd_set_scissor" /\ s[p + 9][1] = "cmd_draw_indexed"

\* Every pipeline starts such a block, and every draw ends one.
Blocked(s) ==
  /\ s \in Seq(Calls)
  /\ \A p \in DOMAIN s : s[p][1] = "cmd_set_pipeline" => Block(s, p)
  /\ \A i \in DOMAIN s : s[i][1] = "cmd_draw_indexed" =>
       \E p \in DOMAIN s :
         /\ s[p][1] = "cmd_set_pipeline"
         /\ i = p + 8 \/ (i = p + 9 /\ s[p + 8][1] = "cmd_set_scissor")

\* The elements of a concatenation, each from its side.
LEMMA ConcatAt ==
  ASSUME NEW S, NEW s \in Seq(S), NEW t \in Seq(S)
  PROVE  /\ s \o t \in Seq(S)
         /\ Len(s) \in Nat /\ Len(t) \in Nat /\ Len(s \o t) = Len(s) + Len(t)
         /\ DOMAIN s = 1 .. Len(s) /\ DOMAIN t = 1 .. Len(t)
         /\ DOMAIN (s \o t) = 1 .. Len(s) + Len(t)
         /\ \A i \in 1 .. Len(s) : (s \o t)[i] = s[i]
         /\ \A i \in 1 .. Len(t) : (s \o t)[Len(s) + i] = t[i]
         /\ \A i \in 1 .. Len(s) + Len(t) :
              i \in 1 .. Len(s) \/ (i - Len(s) \in 1 .. Len(t) /\ i = Len(s) + (i - Len(s)))
<1>1. /\ s \o t \in Seq(S)
      /\ Len(s) \in Nat /\ Len(t) \in Nat /\ Len(s \o t) = Len(s) + Len(t)
      /\ DOMAIN s = 1 .. Len(s) /\ DOMAIN t = 1 .. Len(t)
      /\ DOMAIN (s \o t) = 1 .. Len(s) + Len(t)
  BY ConcatProperties, LenProperties
<1>2. \A i \in 1 .. Len(s) + Len(t) :
        (s \o t)[i] = IF i <= Len(s) THEN s[i] ELSE t[i - Len(s)]
  BY ConcatProperties
<1> QED BY <1>1, <1>2

LEMMA BlockedConcat ==
  ASSUME NEW s, NEW t, Blocked(s), Blocked(t)
  PROVE  Blocked(s \o t)
<1> DEFINE u == s \o t
<1>1. /\ s \in Seq(Calls) /\ t \in Seq(Calls) /\ u \in Seq(Calls)
      /\ Len(s) \in Nat /\ Len(t) \in Nat /\ Len(u) = Len(s) + Len(t)
      /\ DOMAIN s = 1 .. Len(s) /\ DOMAIN t = 1 .. Len(t) /\ DOMAIN u = 1 .. Len(s) + Len(t)
  BY ConcatAt DEF Blocked
<1>2. \A i \in 1 .. Len(s) : u[i] = s[i]
  BY <1>1, ConcatAt
<1>3. \A i \in 1 .. Len(t) : u[Len(s) + i] = t[i]
  BY <1>1, ConcatAt
<1> HIDE DEF u
<1>4. \A i \in DOMAIN u : i \in DOMAIN s \/ \E k \in DOMAIN t : i = Len(s) + k
  <2> SUFFICES ASSUME NEW i \in DOMAIN u, i \notin DOMAIN s
               PROVE  \E k \in DOMAIN t : i = Len(s) + k
    OBVIOUS
  <2>1. i - Len(s) \in DOMAIN t /\ i = Len(s) + (i - Len(s))
    BY <1>1
  <2> QED BY <2>1
<1>5. \A p \in DOMAIN s : Block(s, p) => Block(u, p)
  <2> SUFFICES ASSUME NEW p \in DOMAIN s, Block(s, p)
               PROVE  Block(u, p)
    OBVIOUS
  <2>1. \A k \in 0 .. 9 : p + k \in DOMAIN s => p + k \in DOMAIN u /\ u[p + k] = s[p + k]
    BY <1>1, <1>2
  <2>2. p + 8 \in DOMAIN s
    BY DEF Block
  <2>3. \A k \in 1 .. 8 : p + k \in DOMAIN s
    BY <1>1, <2>2
  <2> QED BY <2>1, <2>3 DEF Block
<1>6. \A p \in DOMAIN t : Block(t, p) => Block(u, Len(s) + p)
  <2> SUFFICES ASSUME NEW p \in DOMAIN t, Block(t, p)
               PROVE  Block(u, Len(s) + p)
    OBVIOUS
  <2>1. \A k \in 0 .. 9 : p + k \in DOMAIN t =>
          Len(s) + p + k \in DOMAIN u /\ u[Len(s) + p + k] = t[p + k]
    <3> SUFFICES ASSUME NEW k \in 0 .. 9, p + k \in DOMAIN t
                 PROVE  Len(s) + p + k \in DOMAIN u /\ u[Len(s) + p + k] = t[p + k]
      OBVIOUS
    <3>1. Len(s) + p + k = Len(s) + (p + k)
      BY <1>1
    <3> QED BY <1>1, <1>3, <3>1
  <2>2. p + 8 \in DOMAIN t
    BY DEF Block
  <2>3. \A k \in 1 .. 8 : p + k \in DOMAIN t
    BY <1>1, <2>2
  <2> QED BY <2>1, <2>3 DEF Block
<1>7. \A p \in DOMAIN u : u[p][1] = "cmd_set_pipeline" => Block(u, p)
  BY <1>1, <1>2, <1>3, <1>4, <1>5, <1>6 DEF Blocked
<1>8. ASSUME NEW i \in DOMAIN u, u[i][1] = "cmd_draw_indexed"
      PROVE  \E p \in DOMAIN u :
               /\ u[p][1] = "cmd_set_pipeline"
               /\ i = p + 8 \/ (i = p + 9 /\ u[p + 8][1] = "cmd_set_scissor")
  <2>1. CASE i \in DOMAIN s
    <3>1. PICK p \in DOMAIN s : /\ s[p][1] = "cmd_set_pipeline"
                                /\ i = p + 8 \/ (i = p + 9 /\ s[p + 8][1] = "cmd_set_scissor")
      BY <1>2, <1>1, <1>8, <2>1 DEF Blocked
    <3>2. p \in DOMAIN u /\ u[p] = s[p] /\ (i = p + 9 => u[p + 8] = s[p + 8])
      BY <1>1, <1>2, <2>1
    <3> QED BY <3>1, <3>2
  <2>2. CASE \E k \in DOMAIN t : i = Len(s) + k
    <3>1. PICK k \in DOMAIN t : i = Len(s) + k
      BY <2>2
    <3>2. PICK p \in DOMAIN t : /\ t[p][1] = "cmd_set_pipeline"
                                /\ k = p + 8 \/ (k = p + 9 /\ t[p + 8][1] = "cmd_set_scissor")
      BY <1>3, <1>1, <1>8, <3>1 DEF Blocked
    <3>3. PICK q \in DOMAIN u : q = Len(s) + p
      BY <1>1
    <3>4. u[q] = t[p] /\ (k = p + 9 => u[q + 8] = t[p + 8])
      <4>1. q + 8 = Len(s) + (p + 8)
        BY <1>1, <3>3
      <4> QED BY <1>1, <1>3, <3>1, <3>2, <3>3, <4>1
    <3>5. u[q][1] = "cmd_set_pipeline"
      BY <3>2, <3>4
    <3>6. i = q + 8 \/ (i = q + 9 /\ u[q + 8][1] = "cmd_set_scissor")
      BY <1>1, <3>1, <3>2, <3>3, <3>4
    <3> QED BY <3>5, <3>6
  <2> QED BY <1>4, <2>1, <2>2
<1> QED BY <1>1, <1>7, <1>8 DEF Blocked, u

LEMMA BlockedOne ==
  ASSUME NEW c \in Calls, c[1] \notin {"cmd_set_pipeline", "cmd_draw_indexed"}
  PROVE  Blocked(<<c>>)
<1>1. <<c>> \in Seq(Calls) /\ DOMAIN <<c>> = {1} /\ <<c>>[1] = c
  OBVIOUS
<1> QED BY <1>1 DEF Blocked

LEMMA BlockedTwo ==
  ASSUME NEW c1 \in Calls, NEW c2 \in Calls,
         c1[1] \in Frame, c2[1] \in Frame
  PROVE  Blocked(<<c1, c2>>) /\ Len(<<c1, c2>>) = 2
<1>1. <<c1, c2>> \in Seq(Calls) /\ DOMAIN <<c1, c2>> = {1, 2} /\ Len(<<c1, c2>>) = 2
      /\ <<c1, c2>>[1] = c1 /\ <<c1, c2>>[2] = c2
  OBVIOUS
<1>2. "cmd_set_pipeline" \notin Frame /\ "cmd_draw_indexed" \notin Frame
  BY DEF Frame
<1> QED BY <1>1, <1>2 DEF Blocked

LEMMA DrawBlocked ==
  ASSUME NEW pass \in Passes
  PROVE  /\ Blocked(Draw(pass))
         /\ \A i \in DOMAIN Draw(pass) : Draw(pass)[i][1] \in Recordings
<1> DEFINE h == <<<<"cmd_set_pipeline", pass>>,
                  <<"update_buffer", "frame">>, <<"cmd_bind_uniform", "frame">>,
                  <<"cmd_set_vertex_buffer", "vertex">>, <<"cmd_set_index_buffer", "index">>,
                  <<"cmd_push_constants", "constants">>,
                  <<"update_buffer", "object">>, <<"cmd_bind_uniform", "object">>>>
           m == IF pass = "UI_Pass" THEN <<<<"cmd_set_scissor", "none">>>> ELSE <<>>
           d == <<<<"cmd_draw_indexed", pass>>>>
           s == (h \o m) \o d
<1>1. pass \in Args
  BY DEF Passes, Args
<1>2. /\ h \in Seq(Calls) /\ d \in Seq(Calls) /\ m \in Seq(Calls)
      /\ Len(h) = 8 /\ Len(d) = 1 /\ d[1] = <<"cmd_draw_indexed", pass>>
  BY <1>1 DEF Calls, Recordings, Args
<1>3. \/ Len(m) = 0
      \/ Len(m) = 1 /\ m[1] = <<"cmd_set_scissor", "none">>
  OBVIOUS
<1>4. /\ h[1] = <<"cmd_set_pipeline", pass>>
      /\ h[2] = <<"update_buffer", "frame">> /\ h[3] = <<"cmd_bind_uniform", "frame">>
      /\ h[4] = <<"cmd_set_vertex_buffer", "vertex">> /\ h[5] = <<"cmd_set_index_buffer", "index">>
      /\ h[6] = <<"cmd_push_constants", "constants">>
      /\ h[7] = <<"update_buffer", "object">> /\ h[8] = <<"cmd_bind_uniform", "object">>
  OBVIOUS
<1>5. Draw(pass) = s
  BY DEF Draw
<1> HIDE DEF h, m, d
<1>6. h \o m \in Seq(Calls) /\ Len(h \o m) = 8 + Len(m) /\ Len(m) \in Nat
      /\ (\A i \in 1 .. 8 : (h \o m)[i] = h[i])
      /\ (Len(m) = 1 => (h \o m)[8 + 1] = m[1])
  <2>1. /\ h \o m \in Seq(Calls) /\ Len(h \o m) = Len(h) + Len(m) /\ Len(m) \in Nat
        /\ \A i \in 1 .. Len(h) : (h \o m)[i] = h[i]
        /\ \A i \in 1 .. Len(m) : (h \o m)[Len(h) + i] = m[i]
    <3>1. h \in Seq(Calls) /\ m \in Seq(Calls)
      BY <1>2
    <3> QED BY <3>1, ConcatAt
  <2>2. Len(m) = 1 => 1 \in 1 .. Len(m)
    OBVIOUS
  <2> QED BY <1>2, <2>1, <2>2
<1>7. s \in Seq(Calls) /\ Len(s) = 9 + Len(m)
      /\ (\A i \in 1 .. 8 : s[i] = h[i])
      /\ (Len(m) = 1 => s[9] = m[1])
      /\ s[(8 + Len(m)) + 1] = d[1]
  <2>1. /\ s \in Seq(Calls) /\ Len(s) = Len(h \o m) + Len(d)
        /\ \A i \in 1 .. Len(h \o m) : s[i] = (h \o m)[i]
        /\ \A i \in 1 .. Len(d) : s[Len(h \o m) + i] = d[i]
    <3>1. h \o m \in Seq(Calls) /\ d \in Seq(Calls)
      BY <1>2, <1>6
    <3> QED BY <3>1, ConcatAt
  <2>2. 1 \in 1 .. Len(d) /\ (\A i \in 1 .. 8 : i \in 1 .. 8 + Len(m))
        /\ (Len(m) = 1 => 9 \in 1 .. 8 + Len(m)) /\ (8 + Len(m)) + 1 = 9 + Len(m)
    BY <1>2, <1>6
  <2> QED BY <1>2, <1>6, <2>1, <2>2
<1> HIDE DEF s
<1>8. DOMAIN s = 1 .. 9 + Len(m)
  BY <1>7, LenProperties
<1>9. \/ /\ DOMAIN s = 1 .. 9 /\ s[9] = <<"cmd_draw_indexed", pass>>
      \/ /\ DOMAIN s = 1 .. 10 /\ s[9] = <<"cmd_set_scissor", "none">>
         /\ s[10] = <<"cmd_draw_indexed", pass>>
  <2>1. CASE Len(m) = 0
    <3>1. (8 + Len(m)) + 1 = 9 /\ 9 + Len(m) = 9
      BY <2>1
    <3> QED BY <1>2, <1>7, <1>8, <3>1
  <2>2. CASE Len(m) = 1 /\ m[1] = <<"cmd_set_scissor", "none">>
    <3>1. (8 + Len(m)) + 1 = 10 /\ 9 + Len(m) = 10
      BY <2>2
    <3> QED BY <1>2, <1>7, <1>8, <2>2, <3>1
  <2> QED BY <1>3, <2>1, <2>2
<1>10. /\ s[1] = <<"cmd_set_pipeline", pass>>
       /\ s[2] = <<"update_buffer", "frame">> /\ s[3] = <<"cmd_bind_uniform", "frame">>
       /\ s[4] = <<"cmd_set_vertex_buffer", "vertex">> /\ s[5] = <<"cmd_set_index_buffer", "index">>
       /\ s[6] = <<"cmd_push_constants", "constants">>
       /\ s[7] = <<"update_buffer", "object">> /\ s[8] = <<"cmd_bind_uniform", "object">>
  BY <1>4, <1>7
<1>11. Block(s, 1)
  BY <1>9, <1>10 DEF Block
<1>12. \A i \in DOMAIN s : i = 1 \/ (i \in 2 .. 8 /\ s[i][1] \in Recordings
                                          /\ s[i][1] \notin {"cmd_set_pipeline", "cmd_draw_indexed"})
                           \/ (i = 9 /\ s[9] = <<"cmd_draw_indexed", pass>>)
                           \/ (i = 9 /\ s[9] = <<"cmd_set_scissor", "none">>)
                           \/ (i = 10 /\ s[9] = <<"cmd_set_scissor", "none">>
                                      /\ s[10] = <<"cmd_draw_indexed", pass>>)
  BY <1>9, <1>10 DEF Recordings
<1>13. \A i \in DOMAIN s : s[i][1] \in Recordings
  BY <1>10, <1>12 DEF Recordings
<1>14. \A p \in DOMAIN s : s[p][1] = "cmd_set_pipeline" => p = 1
  BY <1>12
<1>15. \A i \in DOMAIN s : s[i][1] = "cmd_draw_indexed" =>
         i = 1 + 8 \/ (i = 1 + 9 /\ s[1 + 8][1] = "cmd_set_scissor")
  BY <1>10, <1>12
<1>16. 1 \in DOMAIN s /\ s[1][1] = "cmd_set_pipeline"
  <2>1. 1 \in DOMAIN s
    BY <1>9
  <2> QED BY <1>10, <2>1
<1>17. Blocked(s)
  BY <1>7, <1>11, <1>14, <1>15, <1>16 DEF Blocked
<1> QED BY <1>5, <1>13, <1>17

\* The recording of a command list: its beginning, then calls of passes.
Recorded(s) ==
  /\ Blocked(s) /\ Len(s) >= 1 /\ s[1] = <<"begin_commands", "none">>
  /\ \A i \in 2 .. Len(s) : s[i][1] \in Recordings
PassCalls(s) ==
  /\ Blocked(s) /\ Len(s) >= 1
  /\ \A i \in DOMAIN s : s[i][1] \in Recordings

LEMMA PassRecorded ==
  ASSUME NEW name \in Passes \cup {"Clear"}, NEW d \in SUBSET Passes
  PROVE  PassCalls(Pass(name, d))
<1> DEFINE b == <<<<"cmd_begin_pass", name>>>>
           m == IF name \in d THEN Draw(name) ELSE <<>>
           e == <<<<"cmd_end_pass", name>>>>
<1>1. Blocked(b) /\ Blocked(e) /\ Len(b) = 1 /\ Len(e) = 1
      /\ b[1][1] = "cmd_begin_pass" /\ e[1][1] = "cmd_end_pass"
  <2>1. name \in Args
    BY DEF Passes, Args
  <2>2. <<"cmd_begin_pass", name>> \in Calls /\ <<"cmd_end_pass", name>> \in Calls
    BY <2>1 DEF Calls, Recordings
  <2> QED BY <2>2, BlockedOne
<1>2. Blocked(m) /\ \A i \in DOMAIN m : m[i][1] \in Recordings
  <2>1. CASE name \in d
    BY <2>1, DrawBlocked
  <2>2. CASE name \notin d
    BY <2>2 DEF Blocked
  <2> QED BY <2>1, <2>2
<1>3. Pass(name, d) = (b \o m) \o e
  BY DEF Pass
<1> HIDE DEF b, m, e
<1>4. Blocked((b \o m) \o e)
  BY <1>1, <1>2, BlockedConcat
<1>5. b \in Seq(Calls) /\ m \in Seq(Calls) /\ e \in Seq(Calls)
  BY <1>1, <1>2 DEF Blocked
<1>6. /\ b \o m \in Seq(Calls) /\ Len(b \o m) \in Nat /\ Len(b \o m) >= 1
      /\ \A i \in DOMAIN (b \o m) : (b \o m)[i][1] \in Recordings
  <2>1. "cmd_begin_pass" \in Recordings
    BY DEF Recordings
  <2> QED BY <1>1, <1>2, <1>5, <2>1, ConcatAt
<1>7. /\ Len((b \o m) \o e) >= 1
      /\ \A i \in DOMAIN ((b \o m) \o e) : ((b \o m) \o e)[i][1] \in Recordings
  <2>1. "cmd_end_pass" \in Recordings
    BY DEF Recordings
  <2> QED BY <1>1, <1>5, <1>6, <2>1, ConcatAt
<1> QED BY <1>3, <1>4, <1>7 DEF PassCalls

LEMMA RecordedConcat ==
  ASSUME NEW s, NEW t, Recorded(s), PassCalls(t)
  PROVE  Recorded(s \o t) /\ Len(s \o t) > Len(s)
<1>1. Blocked(s \o t)
  BY BlockedConcat DEF Recorded, PassCalls
<1>2. s \in Seq(Calls) /\ t \in Seq(Calls) /\ Len(s) \in Nat /\ Len(t) \in Nat
      /\ DOMAIN t = 1 .. Len(t)
  BY LenProperties DEF Recorded, PassCalls, Blocked
<1>3. Len(s) >= 1 /\ Len(t) >= 1
  BY DEF Recorded, PassCalls
<1>4. Len(s \o t) = Len(s) + Len(t)
  BY <1>2, ConcatAt
<1>5. (s \o t)[1] = <<"begin_commands", "none">>
  <2>1. (s \o t)[1] = s[1]
    BY <1>2, <1>3, ConcatAt
  <2> QED BY <2>1 DEF Recorded
<1>6. ASSUME NEW i \in 2 .. Len(s) + Len(t)
      PROVE  (s \o t)[i][1] \in Recordings
  <2>1. CASE i \in 1 .. Len(s)
    <3>1. (s \o t)[i] = s[i]
      BY <1>2, <2>1, ConcatAt
    <3> QED BY <2>1, <3>1 DEF Recorded
  <2>2. CASE i - Len(s) \in 1 .. Len(t) /\ i = Len(s) + (i - Len(s))
    <3>1. (s \o t)[i] = t[i - Len(s)]
      BY <1>2, <2>2, ConcatAt
    <3> QED BY <1>2, <2>2, <3>1 DEF PassCalls
  <2> QED BY <1>2, <2>1, <2>2
<1> QED BY <1>1, <1>2, <1>3, <1>4, <1>5, <1>6 DEF Recorded

\* Where each call of an iteration is in its script.
LEMMA ScriptShape ==
  ASSUME NEW d \in SUBSET Passes
  PROVE  /\ Blocked(Script[d]) /\ Len(Script[d]) \in Nat /\ Len(Script[d]) > 8
         /\ Script[d][1] = <<"begin_frame", "none">> /\ Script[d][2] = <<"buildDrawList", "none">>
         /\ Script[d][3] = <<"begin_commands", "none">>
         /\ \A i \in 4 .. Len(Script[d]) - 4 : Script[d][i][1] \in Recordings
         /\ Script[d][Len(Script[d]) - 3] = <<"end_commands", "none">>
         /\ Script[d][Len(Script[d]) - 2] = <<"submit", "none">>
         /\ Script[d][Len(Script[d]) - 1] = <<"present", "none">>
         /\ Script[d][Len(Script[d])] = <<"end_frame", "none">>
<1> DEFINE a == <<<<"begin_frame", "none">>, <<"buildDrawList", "none">>>>
           c == <<<<"begin_commands", "none">>>>
           m == ((c \o Pass("Clear", d)) \o Pass("Forward", d)) \o Pass("UI_Pass", d)
           e == <<<<"end_commands", "none">>, <<"submit", "none">>>>
           f == <<<<"present", "none">>, <<"end_frame", "none">>>>
           r == m \o e
           s == (a \o r) \o f
<1>1. Script[d] = s
  BY DEF Script, Execute
<1>2. /\ Blocked(a) /\ Len(a) = 2 /\ a[1] = <<"begin_frame", "none">> /\ a[2] = <<"buildDrawList", "none">>
      /\ Blocked(e) /\ Len(e) = 2 /\ e[1] = <<"end_commands", "none">> /\ e[2] = <<"submit", "none">>
      /\ Blocked(f) /\ Len(f) = 2 /\ f[1] = <<"present", "none">> /\ f[2] = <<"end_frame", "none">>
  <2>1. \A op \in Frame : <<op, "none">> \in Calls /\ <<op, "none">>[1] \in Frame
    BY DEF Calls, Args
  <2>2. /\ "begin_frame" \in Frame /\ "buildDrawList" \in Frame /\ "end_commands" \in Frame
        /\ "submit" \in Frame /\ "present" \in Frame /\ "end_frame" \in Frame
    BY DEF Frame
  <2> QED BY <2>1, <2>2, BlockedTwo
<1>3. Recorded(c) /\ Len(c) = 1
  <2>1. <<"begin_commands", "none">> \in Calls
    BY DEF Calls, Frame, Args
  <2>2. Blocked(c) /\ Len(c) = 1 /\ c[1] = <<"begin_commands", "none">>
    BY <2>1, BlockedOne
  <2> QED BY <2>2 DEF Recorded
<1>4. Recorded(m) /\ Len(m) > 3 /\ Len(m) \in Nat
  <2> HIDE DEF c
  <2>1. \A name \in Passes \cup {"Clear"} : PassCalls(Pass(name, d))
    BY PassRecorded
  <2>2. PassCalls(Pass("Clear", d)) /\ PassCalls(Pass("Forward", d)) /\ PassCalls(Pass("UI_Pass", d))
    BY <2>1 DEF Passes
  <2>3. \A t : Recorded(t) => Len(t) \in Nat
    BY LenProperties DEF Recorded, Blocked
  <2>4. Recorded(c \o Pass("Clear", d)) /\ Len(c \o Pass("Clear", d)) > 1
    BY <1>3, <2>2, RecordedConcat
  <2>5. /\ Recorded((c \o Pass("Clear", d)) \o Pass("Forward", d))
        /\ Len((c \o Pass("Clear", d)) \o Pass("Forward", d)) > Len(c \o Pass("Clear", d))
    BY <2>2, <2>4, RecordedConcat
  <2>6. /\ Recorded(m)
        /\ Len(m) > Len((c \o Pass("Clear", d)) \o Pass("Forward", d))
    BY <2>2, <2>5, RecordedConcat
  <2> QED BY <2>3, <2>4, <2>5, <2>6
<1> HIDE DEF a, c, m, e, f
<1>5. Blocked(r) /\ Blocked(a \o r) /\ Blocked(s)
  BY <1>2, <1>4, BlockedConcat DEF Recorded
<1>6. a \in Seq(Calls) /\ m \in Seq(Calls) /\ e \in Seq(Calls) /\ f \in Seq(Calls)
  BY <1>2, <1>4 DEF Recorded, Blocked
<1>7. /\ r \in Seq(Calls) /\ Len(r) = Len(m) + 2
      /\ (\A i \in 1 .. Len(m) : r[i] = m[i]) /\ r[Len(m) + 1] = e[1] /\ r[Len(m) + 2] = e[2]
  <2>1. /\ r \in Seq(Calls) /\ Len(r) = Len(m) + Len(e)
        /\ (\A i \in 1 .. Len(m) : r[i] = m[i]) /\ (\A i \in 1 .. Len(e) : r[Len(m) + i] = e[i])
    BY <1>6, ConcatAt
  <2>2. 1 \in 1 .. Len(e) /\ 2 \in 1 .. Len(e)
    BY <1>2
  <2> QED BY <1>2, <2>1, <2>2
<1> HIDE DEF r
<1>8. /\ a \o r \in Seq(Calls) /\ Len(a \o r) = Len(m) + 4
      /\ (a \o r)[1] = a[1] /\ (a \o r)[2] = a[2]
      /\ \A i \in 1 .. Len(m) + 2 : (a \o r)[2 + i] = r[i]
  <2>1. /\ a \o r \in Seq(Calls) /\ Len(a \o r) = Len(a) + Len(r)
        /\ (\A i \in 1 .. Len(a) : (a \o r)[i] = a[i])
        /\ (\A i \in 1 .. Len(r) : (a \o r)[Len(a) + i] = r[i])
    BY <1>6, <1>7, ConcatAt
  <2>2. 1 \in 1 .. Len(a) /\ 2 \in 1 .. Len(a) /\ 2 + (Len(m) + 2) = Len(m) + 4
    BY <1>2, <1>4
  <2> QED BY <1>2, <1>7, <2>1, <2>2
<1>9. /\ Len(s) = Len(m) + 6
      /\ \A i \in 1 .. Len(m) + 4 : s[i] = (a \o r)[i]
      /\ s[(Len(m) + 4) + 1] = f[1] /\ s[(Len(m) + 4) + 2] = f[2]
  <2>1. /\ Len(s) = Len(a \o r) + Len(f)
        /\ (\A i \in 1 .. Len(a \o r) : s[i] = (a \o r)[i])
        /\ (\A i \in 1 .. Len(f) : s[Len(a \o r) + i] = f[i])
    <3>1. a \o r \in Seq(Calls) /\ f \in Seq(Calls)
      BY <1>6, <1>8
    <3> QED BY <3>1, ConcatAt
  <2>2. 1 \in 1 .. Len(f) /\ 2 \in 1 .. Len(f) /\ (Len(m) + 4) + 2 = Len(m) + 6
    BY <1>2, <1>4
  <2> QED BY <1>2, <1>8, <2>1, <2>2
<1> HIDE DEF s
<1>10. s[1] = a[1] /\ s[2] = a[2] /\ \A i \in 1 .. Len(m) : s[i + 2] = m[i]
  BY <1>4, <1>7, <1>8, <1>9
<1>11. /\ s[Len(m) + 3] = e[1] /\ s[Len(m) + 4] = e[2]
       /\ s[Len(m) + 5] = f[1] /\ s[Len(m) + 6] = f[2]
  <2>1. 2 + (Len(m) + 1) = Len(m) + 3 /\ 2 + (Len(m) + 2) = Len(m) + 4
        /\ (Len(m) + 4) + 1 = Len(m) + 5 /\ (Len(m) + 4) + 2 = Len(m) + 6
        /\ Len(m) + 3 \in 1 .. Len(m) + 4 /\ Len(m) + 4 \in 1 .. Len(m) + 4
        /\ Len(m) + 1 \in 1 .. Len(m) + 2 /\ Len(m) + 2 \in 1 .. Len(m) + 2
    BY <1>4
  <2>2. /\ s[Len(m) + 3] = (a \o r)[Len(m) + 3] /\ s[Len(m) + 4] = (a \o r)[Len(m) + 4]
        /\ (a \o r)[2 + (Len(m) + 1)] = r[Len(m) + 1] /\ (a \o r)[2 + (Len(m) + 2)] = r[Len(m) + 2]
    BY <1>8, <1>9, <2>1
  <2> QED BY <1>7, <1>9, <2>1, <2>2
<1>12. \A i \in 4 .. Len(s) - 4 : s[i][1] \in Recordings
  <2> SUFFICES ASSUME NEW i \in 4 .. Len(s) - 4
               PROVE  s[i][1] \in Recordings
    OBVIOUS
  <2>1. i - 2 \in 2 .. Len(m) /\ s[(i - 2) + 2] = m[i - 2] /\ (i - 2) + 2 = i
    BY <1>4, <1>9, <1>10
  <2> QED BY <1>4, <2>1 DEF Recorded
<1>13. Len(s) > 8 /\ Len(s) \in Nat
  BY <1>4, <1>9
<1>14. s[3] = <<"begin_commands", "none">>
  <2>1. s[1 + 2] = m[1]
    BY <1>4, <1>10
  <2> QED BY <1>4, <2>1 DEF Recorded
<1>15. /\ Len(s) - 3 = Len(m) + 3 /\ Len(s) - 2 = Len(m) + 4
       /\ Len(s) - 1 = Len(m) + 5 /\ Len(s) = Len(m) + 6
  BY <1>4, <1>9
<1> QED BY <1>1, <1>2, <1>5, <1>10, <1>11, <1>12, <1>13, <1>14, <1>15

-----------------------------------------------------------------------------
(* The place of the render thread *)

\* The parts of an iteration: 0 the top of render_loop, 1 to 3 the calls up to
\* begin_commands, 4 the passes, 5 to 8 the calls from end_commands on.
StageOf(c, n) ==
  IF c = 0 THEN 0 ELSE IF c <= 3 THEN c ELSE IF c <= n - 4 THEN 4 ELSE (c + 8) - n
last  == Len(Script[draws])
stage == StageOf(call, last)

PlaceInv == draws \in SUBSET Passes /\ call \in 0 .. last

LEMMA ScriptLength == PlaceInv => last \in Nat /\ last > 8 /\ call \in Nat
BY ScriptShape DEF PlaceInv, last

LEMMA StageIs ==
  PlaceInv =>
    /\ stage \in 0 .. 8
    /\ stage = 0 <=> call = 0
    /\ stage = 1 <=> call = 1
    /\ stage = 2 <=> call = 2
    /\ stage = 3 <=> call = 3
    /\ stage = 4 <=> call \in 4 .. last - 4
    /\ stage = 5 <=> call = last - 3
    /\ stage = 6 <=> call = last - 2
    /\ stage = 7 <=> call = last - 1
    /\ stage = 8 <=> call = last
BY ScriptLength DEF PlaceInv, stage, StageOf

LEMMA OpAt ==
  PlaceInv /\ call > 0 =>
    LET op == Script[draws][call][1] IN
      /\ stage = 1 => op = "begin_frame"
      /\ stage = 2 => op = "buildDrawList"
      /\ stage = 3 => op = "begin_commands"
      /\ stage = 4 => op \in Recordings
      /\ stage = 5 => op = "end_commands"
      /\ stage = 6 => op = "submit"
      /\ stage = 7 => op = "present"
      /\ stage = 8 => op = "end_frame"
<1> SUFFICES ASSUME PlaceInv, call > 0
             PROVE  LET op == Script[draws][call][1] IN
                      /\ stage = 1 => op = "begin_frame"
                      /\ stage = 2 => op = "buildDrawList"
                      /\ stage = 3 => op = "begin_commands"
                      /\ stage = 4 => op \in Recordings
                      /\ stage = 5 => op = "end_commands"
                      /\ stage = 6 => op = "submit"
                      /\ stage = 7 => op = "present"
                      /\ stage = 8 => op = "end_frame"
  OBVIOUS
<1>1. draws \in SUBSET Passes
  BY DEF PlaceInv
<1>2. /\ Script[draws][1] = <<"begin_frame", "none">>
      /\ Script[draws][2] = <<"buildDrawList", "none">>
      /\ Script[draws][3] = <<"begin_commands", "none">>
      /\ \A i \in 4 .. last - 4 : Script[draws][i][1] \in Recordings
      /\ Script[draws][last - 3] = <<"end_commands", "none">>
      /\ Script[draws][last - 2] = <<"submit", "none">>
      /\ Script[draws][last - 1] = <<"present", "none">>
      /\ Script[draws][last] = <<"end_frame", "none">>
  BY <1>1, ScriptShape DEF last
<1> QED BY <1>2, StageIs

LEMMA CallIs ==
  \A op, arg : Calling(op, arg) =>
    call > 0 /\ Script[draws][call][1] = op /\ Script[draws][call][2] = arg
BY DEF Calling

LEMMA CallPlace ==
  PlaceInv =>
    /\ Calling("begin_frame", "none") => stage = 1
    /\ Calling("buildDrawList", "none") => stage = 2
    /\ Calling("begin_commands", "none") => stage = 3
    /\ Calling("end_commands", "none") => stage = 5
    /\ Calling("submit", "none") => stage = 6
    /\ Calling("present", "none") => stage = 7
    /\ Calling("end_frame", "none") => stage = 8
    /\ \A op \in Recordings : \A arg : Calling(op, arg) => stage = 4
<1> SUFFICES ASSUME PlaceInv, call > 0
             PROVE  LET op == Script[draws][call][1] IN
                      /\ op = "begin_frame" => stage = 1
                      /\ op = "buildDrawList" => stage = 2
                      /\ op = "begin_commands" => stage = 3
                      /\ op = "end_commands" => stage = 5
                      /\ op = "submit" => stage = 6
                      /\ op = "present" => stage = 7
                      /\ op = "end_frame" => stage = 8
                      /\ op \in Recordings => stage = 4
  BY CallIs
<1>1. stage \in 1 .. 8
  BY StageIs, ScriptLength
<1> QED BY <1>1, OpAt DEF Recordings

LEMMA Returns ==
  PlaceInv /\ call > 0 /\ draws' = draws /\ Return =>
    /\ PlaceInv'
    /\ stage = 1 => stage' = 2
    /\ stage = 2 => stage' = 3
    /\ stage = 3 => stage' = 4 /\ call' = 4
    /\ stage = 4 => stage' \in {4, 5}
    /\ stage = 5 => stage' = 6
    /\ stage = 6 => stage' = 7
    /\ stage = 7 => stage' = 8
    /\ stage = 8 => stage' = 0
<1> SUFFICES ASSUME PlaceInv, call > 0, draws' = draws, Return
             PROVE  /\ PlaceInv'
                    /\ stage = 1 => stage' = 2
                    /\ stage = 2 => stage' = 3
                    /\ stage = 3 => stage' = 4 /\ call' = 4
                    /\ stage = 4 => stage' \in {4, 5}
                    /\ stage = 5 => stage' = 6
                    /\ stage = 6 => stage' = 7
                    /\ stage = 7 => stage' = 8
                    /\ stage = 8 => stage' = 0
  OBVIOUS
<1>1. last' = last /\ last \in Nat /\ last > 8 /\ call \in 1 .. last
  BY ScriptLength DEF last, PlaceInv
<1>2. call' = IF call = last THEN 0 ELSE call + 1
  BY DEF Return, last
<1>3. PlaceInv'
  BY <1>1, <1>2 DEF PlaceInv
<1>4. stage' = StageOf(call', last)
  BY <1>1 DEF stage
<1> QED BY <1>1, <1>2, <1>3, <1>4 DEF stage, StageOf

-----------------------------------------------------------------------------
(* Types *)

Addresses == Rings \X Cells
Places == Addresses \cup {None} \cup {<<name>> : name \in Inputs \cup {"inline"}}
Reading == [input : Inputs \cup {"staged"}, at : Places, value : Nat]
Use == Objects \X Nat
Work == [kind : {"frame", "copy"}, reads : SUBSET Reading, uses : SUBSET Use,
         fills : SUBSET {"texture"}, value : Nat]

ListTyped ==
  /\ DOMAIN list = {"open", "reads", "uses", "fills"}
  /\ list.reads \subseteq Reading /\ list.uses \subseteq Use
  /\ list.fills \subseteq {"texture"}

CountersTyped ==
  /\ begun \in Nat /\ retired \in Nat /\ creating \in Nat \ {0}
  /\ signalled \in Nat /\ completed \in Nat /\ maxDrawables \in {2, 3}
  /\ frameIndex \in Rings /\ current \in Rings
  /\ plugin \in {"vulkan", "d3d12", "metal"}
  /\ DOMAIN fenceValue = Rings /\ \A r \in Rings : fenceValue[r] \in Nat

ObjectsTyped ==
  /\ DOMAIN generation = Objects /\ \A o \in Objects : generation[o] \in Nat
  /\ torn \subseteq {"views", "depth"}

RingTyped ==
  /\ DOMAIN ring = Rings /\ \A r \in Rings : DOMAIN ring[r] = Cells
  /\ \A r \in Rings, c \in Cells : ring[r][c] \in Nat
  /\ head \in 0 .. RingCells /\ stores \in Nat
MeantTyped == DOMAIN meant = Slots /\ \A s \in Slots : meant[s] \in Nat
AddressTyped == DOMAIN address = Slots /\ \A s \in Slots : address[s] \in Addresses \cup {None}
OffsetsTyped == DOMAIN dynamicOffsets = Slots /\ \A s \in Slots : dynamicOffsets[s] \in Addresses
BoundTyped == DOMAIN bound = Inputs /\ \A i \in Inputs : bound[i] \in Places
MemoryTyped == RingTyped /\ MeantTyped /\ AddressTyped /\ OffsetsTyped /\ BoundTyped

TypeInv ==
  /\ PlaceInv /\ ListTyped /\ CountersTyped /\ ObjectsTyped /\ MemoryTyped
  /\ queue \in Seq(Work)

-----------------------------------------------------------------------------
(* The objects *)

LEMMA Zero == 0 \in Rings /\ 0 \in Cells
BY RenderThreadAssumption DEF Rings, Cells

LEMMA ObjectsAre ==
  /\ \A r \in Rings : <<"commands", r>> \in Objects
  /\ <<"views", 0>> \in Objects /\ <<"depth", 0>> \in Objects
  /\ <<"oneShot", 0>> \in Objects /\ <<"texture", 0>> \in Objects
  /\ \A o \in Objects :
       \/ o = <<"commands", o[2]>> /\ o[2] \in Rings
       \/ o \in {<<"views", 0>>, <<"depth", 0>>, <<"oneShot", 0>>, <<"texture", 0>>}
BY DEF Objects

LEMMA ObjectsDiffer ==
  /\ \A r, o : o = <<"commands", r>> =>
       o \notin {<<"views", 0>>, <<"depth", 0>>, <<"oneShot", 0>>, <<"texture", 0>>}
  /\ <<"oneShot", 0>> \notin {<<"views", 0>>, <<"depth", 0>>, <<"texture", 0>>}
  /\ <<"texture", 0>> \notin {<<"views", 0>>, <<"depth", 0>>}
  /\ <<"views", 0>> # <<"depth", 0>>
OBVIOUS

LEMMA PlacesDiffer ==
  /\ None \notin Addresses
  /\ \A name : <<name>> # None /\ <<name>> \notin Addresses
BY DEF Addresses, None

-----------------------------------------------------------------------------
(* What the steps do *)

\* The calls of an iteration but those that record in a pass.
counters == <<frameIndex, current, fenceValue, signalled, completed, lost, maxDrawables>>
bindings == <<slots, dynamicOffsets, encoder, rootSet>>
Going(from, to) == PlaceInv' /\ stage = from /\ stage' = to /\ (to = 4 => call' = 4)
Staying == UNCHANGED <<draws, call>>

Quiet ==
  /\ \/ Staying
     \/ Going(0, 1) /\ draws' = {} /\ up = "up"
     \/ plugin # "d3d12" /\ Going(1, 0) /\ draws' = draws
     \/ Going(2, 3) /\ (draws' # {} => DrawNeeds \subseteq made)
     \/ plugin = "d3d12" /\ (Going(3, 4) \/ Going(8, 0)) /\ draws' = draws
     \/ plugin = "vulkan" /\ (Going(7, 8) \/ Going(8, 0)) /\ draws' = draws
     \/ plugin = "metal" /\ (Going(5, 6) \/ Going(6, 7)) /\ draws' = draws
  /\ UNCHANGED <<creation, list, gpu, memory, bindings, objects, begun, up, fence,
                 cmdBuffer, counters>>

VkBegins ==
  /\ plugin = "vulkan" /\ Going(1, 2) /\ fence /\ ~fence'
  /\ ResetRing(0) /\ begun' = begun + 1
  /\ UNCHANGED <<draws, creation, list, gpu, address, bound, dynamicOffsets, encoder,
                 rootSet, objects, up, cmdBuffer, counters>>

DxBegins ==
  /\ plugin = "d3d12" /\ Going(1, 2) /\ completed >= fenceValue[current]
  /\ frameIndex' = current
  /\ generation' = [generation EXCEPT ![<<"commands", current>>] = @ + 1]
  /\ list' = [Empty EXCEPT !.open = TRUE,
                !.uses = {<<<<"commands", current>>, generation[<<"commands", current>>] + 1>>}]
  /\ ResetRing(current) /\ address' = [s \in Slots |-> None]
  /\ bound' = [i \in Inputs |-> None] /\ begun' = begun + 1
  /\ UNCHANGED <<draws, creation, gpu, dynamicOffsets, encoder, torn, up, fence,
                 cmdBuffer, current, fenceValue, signalled, completed, lost, maxDrawables>>

MtlBegins ==
  /\ plugin = "metal" /\ Going(1, 2) /\ begun - retired < maxDrawables
  /\ address' = [s \in Slots |-> None] /\ begun' = begun + 1
  /\ UNCHANGED <<draws, creation, list, gpu, memory, meant, bound, dynamicOffsets,
                 encoder, rootSet, objects, up, fence, cmdBuffer, counters>>

VkRecords ==
  /\ plugin = "vulkan" /\ Going(3, 4)
  /\ generation' = [generation EXCEPT ![<<"commands", 0>>] = @ + 1]
  /\ list' = [Empty EXCEPT !.open = TRUE,
                !.uses = {<<<<"commands", 0>>, generation[<<"commands", 0>>] + 1>>}]
  /\ bound' = [i \in Inputs |-> None]
  /\ UNCHANGED <<draws, creation, gpu, memory, meant, address, dynamicOffsets, encoder,
                 rootSet, torn, begun, up, fence, cmdBuffer, counters>>

MtlRecords ==
  /\ plugin = "metal" /\ Going(3, 4)
  /\ cmdBuffer' /\ list' = [Empty EXCEPT !.open = TRUE]
  /\ UNCHANGED <<draws, creation, gpu, memory, bindings, objects, begun, up, fence, counters>>

\* The calls of a pass
Records ==
  \/ /\ plugin = "vulkan"
     /\ \/ vk_cmd_push_constants \/ vk_cmd_set_vertex_buffer \/ vk_cmd_set_index_buffer
        \/ \E pass \in Passes \cup {"Clear"} : vk_cmd_begin_pass(pass)
        \/ \E pass \in Passes : vk_cmd_set_pipeline(pass) \/ vk_cmd_draw_indexed(pass)
        \/ \E b \in Uniforms : vk_update_buffer(b) \/ vk_cmd_bind_uniform(b)
        \/ vk_unmodelled
  \/ /\ plugin = "d3d12"
     /\ \/ dx_cmd_push_constants \/ dx_cmd_set_vertex_buffer \/ dx_cmd_set_index_buffer
        \/ \E pass \in Passes \cup {"Clear"} : dx_cmd_begin_pass(pass)
        \/ \E pass \in Passes : dx_cmd_set_pipeline(pass) \/ dx_cmd_draw_indexed(pass)
        \/ \E b \in Uniforms : dx_update_buffer(b) \/ dx_cmd_bind_uniform(b)
        \/ dx_unmodelled
  \/ /\ plugin = "metal"
     /\ \/ mtl_cmd_push_constants \/ mtl_cmd_set_vertex_buffer \/ mtl_cmd_set_index_buffer
        \/ \E pass \in Passes \cup {"Clear"} : mtl_cmd_begin_pass(pass) \/ mtl_cmd_end_pass(pass)
        \/ \E pass \in Passes : mtl_cmd_set_pipeline(pass) \/ mtl_cmd_draw_indexed(pass)
        \/ \E b \in Uniforms : mtl_update_buffer(b) \/ mtl_cmd_bind_uniform(b)
        \/ mtl_unmodelled

\* What they may add to the list
Recording ==
  /\ Records /\ stage = 4 /\ PlaceInv' /\ stage' \in {4, 5}
  /\ DOMAIN list' = DOMAIN list /\ list'.open = list.open /\ list'.fills = list.fills
  /\ list'.reads \subseteq list.reads \cup Reads
  /\ plugin # "vulkan" => UNCHANGED dynamicOffsets
  /\ \/ list'.uses = list.uses
     \/ /\ plugin # "metal"
        /\ list'.uses = list.uses \cup Targets \/ list'.uses = list.uses \cup Using({<<"texture", 0>>})
  /\ UNCHANGED <<draws, creation, gpu, objects, begun, up, fence, cmdBuffer, counters>>

Closes ==
  /\ plugin # "metal" /\ Going(5, 6)
  /\ list' = [list EXCEPT !.open = FALSE]
  /\ UNCHANGED <<draws, creation, gpu, memory, bindings, objects, begun, up, fence,
                 cmdBuffer, counters>>

VkSubmits ==
  /\ plugin = "vulkan" /\ Going(6, 7)
  /\ Submit("frame", list, 0) /\ list' = Empty
  /\ UNCHANGED <<draws, creation, filled, retired, memory, bindings, objects, begun, up,
                 fence, cmdBuffer, counters>>

DxSubmits ==
  /\ plugin = "d3d12" /\ Going(6, 7)
  /\ signalled' = signalled + 1
  /\ fenceValue' = [fenceValue EXCEPT ![frameIndex] = signalled + 1]
  /\ Submit("frame", list, signalled + 1) /\ list' = Empty
  /\ UNCHANGED <<draws, creation, filled, retired, memory, bindings, objects, begun, up,
                 fence, cmdBuffer, frameIndex, current, completed, lost, maxDrawables>>

DxPresents ==
  /\ plugin = "d3d12" /\ Going(7, 8)
  /\ current' = (current + 1) % FrameCount
  /\ UNCHANGED <<draws, creation, list, gpu, memory, bindings, objects, begun, up, fence,
                 cmdBuffer, frameIndex, fenceValue, signalled, completed, lost, maxDrawables>>

MtlPresents ==
  /\ plugin = "metal" /\ Going(7, 8)
  /\ \/ cmdBuffer /\ Submit("frame", list, 0) /\ list' = Empty
     \/ ~cmdBuffer /\ UNCHANGED <<queue, list>>
  /\ ~cmdBuffer'
  /\ UNCHANGED <<draws, creation, filled, retired, memory, bindings, objects, begun, up,
                 fence, counters>>

MtlEnds ==
  /\ plugin = "metal" /\ Going(8, 0) /\ ~cmdBuffer' /\ ~encoder'
  /\ UNCHANGED <<draws, creation, list, gpu, memory, slots, dynamicOffsets, rootSet,
                 objects, begun, up, fence, counters>>

\* The resources the loading thread makes
Made == made' = made \cup {Resources[creating]}

Makes ==
  /\ step = "idle" /\ step' = "idle" /\ creating <= Len(Resources) /\ creating' = creating + 1
  /\ \/ Made /\ Resources[creating] # "texture" /\ UNCHANGED filled
     \/ Made /\ plugin = "metal" /\ filled' = filled \cup {"texture"}
     \/ UNCHANGED <<made, filled>>
  /\ UNCHANGED <<draws, call, list, queue, retired, memory, bindings, objects, begun, up,
                 fence, cmdBuffer, counters>>

StartsCopy ==
  /\ step = "idle" /\ step' = "copying" /\ creating <= Len(Resources)
  /\ \E fills \in SUBSET {"texture"} :
       /\ Resources[creating] = "texture" => fills = {"texture"}
       /\ \/ plugin # "metal" /\ SubmitCopy(fills)
          \/ /\ plugin = "metal" /\ UNCHANGED generation
             /\ Submit("copy", [reads |-> {}, uses |-> {}, fills |-> fills], 0)
  /\ UNCHANGED <<draws, call, made, creating, list, filled, retired, memory, bindings,
                 torn, begun, up, fence, cmdBuffer, counters>>

EndsCopy ==
  /\ plugin # "metal" /\ step = "copying" /\ Idle
  /\ \/ plugin = "vulkan" /\ step' = "copied" /\ UNCHANGED <<made, creating>>
     \/ plugin = "d3d12" /\ step' = "idle" /\ creating' = creating + 1 /\ Made
  /\ ReleaseCopy
  /\ UNCHANGED <<draws, call, list, gpu, memory, bindings, torn, begun, up, fence,
                 cmdBuffer, counters>>

HandsOut ==
  /\ \/ plugin = "vulkan" /\ step = "copied"
     \/ plugin = "metal" /\ step = "copying" /\ "texture" \in filled
  /\ creating' = creating + 1 /\ Made /\ step' = "idle"
  /\ UNCHANGED <<draws, call, list, gpu, memory, bindings, objects, begun, up, fence,
                 cmdBuffer, counters>>

DxStages ==
  /\ plugin = "d3d12" /\ step = "idle" /\ step' = "idle" /\ head < RingCells
  /\ creating <= Len(Resources) /\ creating' = creating + 1 /\ Made /\ head' = head + 1
  /\ \/ \E b \in Uniforms :
          /\ Resources[creating] = b /\ Stage(0) /\ UNCHANGED <<stores, list, lost>>
          /\ address' = [address EXCEPT ![b] = <<frameIndex, head>>]
     \/ /\ Resources[creating] = "texture"
        /\ Stage(stores + 1) /\ stores' = stores + 1 /\ UNCHANGED address
        /\ \/ /\ list.open
              /\ list' = [list EXCEPT !.fills = @ \cup {"texture"},
                            !.reads = @ \cup {[input |-> "staged", at |-> <<frameIndex, head>>,
                                               value |-> stores + 1]}]
              /\ UNCHANGED lost
           \/ ~list.open /\ lost' = lost \cup {"texture"} /\ UNCHANGED list
  /\ UNCHANGED <<draws, call, gpu, meant, bound, dynamicOffsets, encoder, rootSet, objects,
                 begun, up, fence, cmdBuffer, frameIndex, current, fenceValue, signalled,
                 completed, maxDrawables>>

Finishes ==
  /\ Finish
  /\ fence' => fence \/ Head(queue).kind = "frame"
  /\ plugin = "d3d12" => completed' = IF Head(queue).kind = "frame" THEN Head(queue).value
                                                                    ELSE completed
  /\ plugin # "d3d12" => completed' = completed
  /\ UNCHANGED <<dynamicOffsets, encoder, rootSet, cmdBuffer, frameIndex, current,
                 fenceValue, signalled, lost, maxDrawables>>

Resizes ==
  /\ stage = 0 /\ Staying
  /\ \/ /\ plugin # "metal" /\ Idle
        /\ generation' = [generation EXCEPT ![<<"views", 0>>] = @ + 1,
                                            ![<<"depth", 0>>] = @ + 1]
        /\ torn' \subseteq {"views", "depth"} /\ current' \in {current, 0}
     \/ /\ plugin = "metal"
        /\ generation' = [generation EXCEPT ![<<"depth", 0>>] = @ + 1]
        /\ UNCHANGED <<torn, current>>
  /\ UNCHANGED <<creation, list, gpu, memory, bindings, begun, up, fence, cmdBuffer,
                 frameIndex, fenceValue, signalled, completed, lost, maxDrawables>>

Redraws ==
  /\ plugin = "metal" /\ maxDrawables' \in {2, 3} /\ Staying
  /\ UNCHANGED <<creation, list, gpu, memory, bindings, objects, begun, up, fence,
                 cmdBuffer, frameIndex, current, fenceValue, signalled, completed, lost>>

ShutsDown ==
  /\ \/ /\ stage = 0 /\ up = "up" /\ up' = "fonts"
        /\ generation' = [generation EXCEPT ![<<"texture", 0>>] = @ + 1]
     \/ /\ up = "fonts" /\ up' = "down" /\ (plugin # "metal" => Idle)
        /\ DOMAIN generation' = Objects /\ \A o \in Objects : generation'[o] \in Nat
  /\ Staying
  /\ UNCHANGED <<creation, list, gpu, memory, bindings, torn, begun, fence, cmdBuffer,
                 counters>>

FrameMoves ==
  \/ VkBegins \/ DxBegins \/ MtlBegins \/ VkRecords \/ MtlRecords \/ Closes
  \/ VkSubmits \/ DxSubmits \/ DxPresents \/ MtlPresents \/ MtlEnds
OtherMoves ==
  \/ Makes \/ StartsCopy \/ EndsCopy \/ HandsOut \/ DxStages \/ Finishes \/ Resizes
  \/ Redraws \/ ShutsDown
Moves == plugin' = plugin /\ (Quiet \/ Recording \/ FrameMoves \/ OtherMoves)

-----------------------------------------------------------------------------
(* The frames under way *)

Frames == {i \in DOMAIN queue : queue[i].kind = "frame"}

\* Vulkan has one frame under way at most, and none when the fence is signalled
\* or a list is recorded.
FenceInv ==
  plugin = "vulkan" =>
    /\ \A i, j \in Frames : i = j
    /\ fence => Frames = {}
    /\ stage \in 2 .. 6 => ~fence /\ Frames = {}

\* The list is empty outside the calls that fill it.
ListInv ==
  /\ plugin = "vulkan" =>
       list.fills = {} /\ (stage \notin 4 .. 6 => list.uses = {} /\ list.reads = {})
  /\ plugin = "d3d12" =>
       (stage \notin 2 .. 6 => list.uses = {} /\ list.reads = {} /\ list.fills = {} /\ ~list.open)
  /\ plugin = "metal" =>
       /\ list.fills = {} /\ list.uses = {} /\ (stage \notin 4 .. 7 => list.reads = {})
       /\ stage \in 4 .. 7 => cmdBuffer

\* Direct3D: how many presents ago a frame context was in use.
Age(r) == IF r < current THEN current - r ELSE (current - r) + FrameCount

\* Direct3D's fence: what the frames wait for is between what the GPU has
\* reached and what was asked for last, and a frame context that was in use less
\* than FrameCount presents ago has a value as recent, or nothing since is left.
ValuesInv ==
  plugin = "d3d12" =>
    /\ \A i \in Frames : completed < queue[i].value /\ queue[i].value <= signalled
    /\ \A i, j \in Frames : i < j => queue[i].value < queue[j].value
    /\ completed = signalled \/ \E i \in Frames : queue[i].value = signalled
    /\ completed <= signalled
    /\ \A r \in Rings : fenceValue[r] <= signalled
    /\ stage \in 2 .. 7 => frameIndex = current
    /\ stage = 7 => fenceValue[current] = signalled
    /\ \A r \in Rings :
         \/ fenceValue[r] + Age(r) >= IF stage = 7 THEN signalled ELSE signalled + 1
         \/ completed + Age(r) >= IF stage = 7 THEN signalled ELSE signalled + 1

Pending == IF stage \in 2 .. 6 \/ (stage = 7 /\ plugin = "metal") THEN 1 ELSE 0
CountInv == begun = retired + FramesUnderWay + Pending

\* What a submission uses, and what the list does. The threads have ended before
\* anything is shut down, so that the list is empty then.
Fresh(use) ==
  \/ use[2] = generation[use[1]]
  \/ up = "fonts" /\ use[1] = <<"texture", 0>>
  \/ use \in Missing
UsedInv ==
  /\ up # "up" => stage = 0
  /\ plugin = "metal" => \A work \in Outstanding : work.uses = {}
  /\ \A work \in Outstanding : \A use \in work.uses :
       /\ Fresh(use)
       /\ use[1] = <<"oneShot", 0>> => step = "copying"
       /\ work.kind = "copy" => use[1] = <<"oneShot", 0>>
       /\ plugin = "d3d12" =>
            \A r \in Rings : use[1] = <<"commands", r>> => work.value <= fenceValue[r]
  /\ \A use \in list.uses :
       /\ Fresh(use)
       /\ use[1] # <<"oneShot", 0>>
       /\ plugin = "d3d12" => \A r \in Rings : use[1] = <<"commands", r>> => r = frameIndex

\* The contents of a texture that is out or being created are on their way.
FilledInv ==
  "texture" \in made \ lost \/ (step # "idle" /\ Resources[creating] = "texture")
    => "texture" \in Filling

-----------------------------------------------------------------------------
(* The rings *)

\* What is at an address is what was meant to be there, or a later lap's.
Held(at, value) ==
  value # 0 /\ at \in Addresses =>
    LET held == ring[at[1]][at[2]] IN
      held = value \/ (plugin # "d3d12" /\ held >= value + RingCells)

\* Direct3D never overwrites what is below the head of the ring in use.
Live(at, value) ==
  /\ Held(at, value)
  /\ plugin = "d3d12" /\ value # 0 /\ at \in Addresses => at[1] = frameIndex /\ at[2] < head

\* Vulkan and Metal fill the cells in turn.
RingInv ==
  plugin # "d3d12" =>
    \A c \in Cells :
      IF c < head THEN ring[0][c] + head = stores + c + 1
      ELSE ring[0][c] = 0 \/ ring[0][c] + head + RingCells = stores + c + 1

\* What was meant for a slot is at its last address, and where it is bound.
SlotLive(b) == Live(address[b], meant[b])
BoundLive(b) == Live(bound[b], meant[b])
OffsetHeld(s) == Held(dynamicOffsets[s], meant[s])

SlotsInv ==
  /\ \A b \in Uniforms : SlotLive(b)
  /\ plugin = "vulkan" =>
       /\ \A b \in Uniforms : meant[b] # 0 => address[b] # None
       /\ OffsetHeld("constants")
  /\ plugin # "vulkan" => meant["constants"] = 0
  /\ plugin = "d3d12" => \A b \in Uniforms : meant[b] # 0 => b \in made

\* What a recorded draw will read is where it was bound, until the GPU has read it.
ListRead(read) == read.at # None /\ Live(read.at, read.value)
QueueRead(work, read) ==
  /\ read.at # None /\ Held(read.at, read.value)
  /\ plugin = "d3d12" /\ read.value # 0 /\ read.at \in Addresses =>
       /\ work.value <= fenceValue[read.at[1]]
       /\ read.at[1] = frameIndex => read.at[2] < head
ReadsInv ==
  /\ \A read \in list.reads : ListRead(read)
  /\ \A work \in Outstanding : work.kind = "copy" => work.reads = {}
  /\ \A work \in Outstanding : \A read \in work.reads : QueueRead(work, read)

\* Only what is made is drawn, and it is made once.
MadeInv ==
  /\ draws # {} => DrawNeeds \subseteq made
  /\ step # "idle" => creating <= Len(Resources)
  /\ \A x \in made : \E i \in 1 .. Len(Resources) : i < creating /\ x = Resources[i]

\* k calls into a draw, this much is bound: in Vulkan's set, or directly.
VkBound(k) ==
  /\ \A s \in Slots : bound[s] = dynamicOffsets[s]
  /\ k >= 3 => OffsetHeld("frame")
  /\ k >= 4 => bound["vertex"] # None
  /\ k >= 5 => bound["index"] # None
  /\ k >= 8 => OffsetHeld("object")
Bound(k) ==
  /\ k >= 3 => bound["frame"] # None /\ BoundLive("frame")
  /\ k >= 4 => bound["vertex"] # None
  /\ k >= 5 => bound["index"] # None
  /\ k >= 6 => bound["constants"] # None
  /\ k >= 8 => bound["object"] # None /\ BoundLive("object")
Ready(k) ==
  /\ plugin = "vulkan" => VkBound(k)
  /\ plugin = "d3d12" => rootSet /\ Bound(k)
  /\ plugin = "metal" /\ encoder => Bound(k)

BlockInv ==
  stage = 4 =>
    \A p \in DOMAIN Script[draws] :
      Script[draws][p][1] = "cmd_set_pipeline" /\ p < call /\ call <= p + 9 => Ready(call - p)

\* A call that returns goes on in the script.
LEMMA CallGoes ==
  PlaceInv /\ draws' = draws /\ Return =>
    /\ Calling("begin_frame", "none") => Going(1, 2)
    /\ Calling("begin_commands", "none") => Going(3, 4)
    /\ Calling("end_commands", "none") => Going(5, 6)
    /\ Calling("submit", "none") => Going(6, 7)
    /\ Calling("present", "none") => Going(7, 8)
    /\ Calling("end_frame", "none") => Going(8, 0)
    /\ \A op \in Recordings : \A arg : Calling(op, arg) =>
         stage = 4 /\ PlaceInv' /\ stage' \in {4, 5}
<1>1. \A op, arg : Calling(op, arg) => call > 0
  BY CallIs
<1> QED BY <1>1, CallPlace, Returns DEF Going

LEMMA CallReturned ==
  PlaceInv /\ (\E op, arg : Calling(op, arg)) /\ GiveUp /\ draws' = draws =>
    PlaceInv' /\ stage' = 0
BY ScriptLength DEF GiveUp, PlaceInv, stage, StageOf, last

LEMMA Enters ==
  PlaceInv /\ EnterFrame => Going(0, 1) /\ draws' = {} /\ up = "up"
<1> SUFFICES ASSUME PlaceInv, EnterFrame PROVE Going(0, 1) /\ draws' = {} /\ up = "up"
  OBVIOUS
<1>1. call = 0 /\ call' = 1 /\ draws' = {} /\ up = "up"
  BY DEF EnterFrame
<1>2. last' \in Nat /\ last' > 8
  BY <1>1, ScriptShape DEF last
<1> QED BY <1>1, <1>2 DEF Going, PlaceInv, stage, StageOf

LEMMA Builds ==
  ASSUME NEW new, PlaceInv, BuildDrawList(new)
  PROVE  Going(2, 3) /\ (draws' # {} => DrawNeeds \subseteq made)
<1>1. stage = 2 /\ call = 2
  BY CallPlace, StageIs DEF BuildDrawList
<1>2. draws' \in SUBSET Passes /\ (draws' # {} => DrawNeeds \subseteq made)
  BY DEF BuildDrawList
<1>3. last' \in Nat /\ last' > 8
  BY <1>2, ScriptShape DEF last
<1>4. call' = 3
  <2>1. Return
    BY DEF BuildDrawList
  <2>2. last \in Nat /\ last > 8
    BY ScriptLength
  <2>3. call # last
    BY <1>1, <2>2
  <2>4. call' = call + 1
    BY <2>1, <2>3 DEF Return, last
  <2> QED BY <1>1, <2>4
<1> QED BY <1>1, <1>2, <1>3, <1>4 DEF Going, PlaceInv, stage, StageOf

LEMMA VkCalls ==
  TypeInv /\ plugin = "vulkan" /\ plugin' = plugin /\ vk_calls /\ UNCHANGED <<dxVars, mtlVars>>
    => Moves
<1> SUFFICES ASSUME PlaceInv, ListTyped, ObjectsTyped, plugin = "vulkan", plugin' = plugin, vk_calls,
                    UNCHANGED <<dxVars, mtlVars>>
             PROVE  Moves
  BY DEF TypeInv
<1> USE DEF dxVars, mtlVars, vkVars, counters, bindings
<1>1. CASE EnterFrame /\ UNCHANGED vkVars
  BY <1>1, Enters DEF EnterFrame, Quiet, Moves, gpu, memory, slots, objects, creation
<1>2. CASE vk_begin_frame
  <2>1. PlaceInv /\ draws' = draws /\ Calling("begin_frame", "none")
    BY <1>2 DEF vk_begin_frame
  <2>2. CASE GiveUp /\ UNCHANGED <<fence, memory, meant, begun>>
    <3>1. Going(1, 0)
      BY <2>1, <2>2, CallReturned, CallPlace DEF Going
    <3> QED BY <1>2, <2>1, <2>2, <3>1 DEF vk_begin_frame, Quiet, Moves, slots
  <2>3. CASE fence' = FALSE /\ ResetRing(0) /\ begun' = begun + 1 /\ Return
    BY <1>2, <2>1, <2>3, CallGoes DEF vk_begin_frame, VkBegins, FrameMoves, Moves
  <2> QED BY <1>2, <2>2, <2>3 DEF vk_begin_frame
<1>3. ASSUME NEW new \in SUBSET Passes, BuildDrawList(new), vk_create_graphics_pipeline(new)
      PROVE  Moves
  BY <1>3, Builds DEF BuildDrawList, vk_create_graphics_pipeline, Quiet, Moves
<1>4. CASE vk_begin_commands
  <2>1. generation'[<<"commands", 0>>] = generation[<<"commands", 0>>] + 1
    BY <1>4, ObjectsAre, Zero DEF vk_begin_commands, ObjectsTyped
  <2> QED BY <1>4, <2>1, CallGoes DEF vk_begin_commands, VkRecords, FrameMoves, Moves
<1>5. CASE vk_cmd_push_constants
  BY <1>5, CallGoes DEF vk_cmd_push_constants, Recording, Recordings, Records, Moves, ListTyped
<1>6. CASE vk_cmd_set_vertex_buffer
  BY <1>6, CallGoes DEF vk_cmd_set_vertex_buffer, Recording, Recordings, Records, Moves
<1>7. CASE vk_cmd_set_index_buffer
  BY <1>7, CallGoes DEF vk_cmd_set_index_buffer, Recording, Recordings, Records, Moves
<1>8. ASSUME NEW pass \in Passes \cup {"Clear"}, vk_cmd_begin_pass(pass)
      PROVE  Moves
  BY <1>8, CallGoes DEF vk_cmd_begin_pass, Recording, Recordings, Records, Moves, ListTyped
<1>9. ASSUME NEW pass \in Passes, vk_cmd_set_pipeline(pass)
      PROVE  Moves
  BY <1>9, CallGoes DEF vk_cmd_set_pipeline, Recording, Recordings, Records, Moves
<1>10. ASSUME NEW pass \in Passes, vk_cmd_draw_indexed(pass)
      PROVE  Moves
  BY <1>10, CallGoes DEF vk_cmd_draw_indexed, Recording, Recordings, Records, Moves, ListTyped
<1>11. ASSUME NEW b \in Uniforms, vk_update_buffer(b)
      PROVE  Moves
  BY <1>11, CallGoes DEF vk_update_buffer, Recording, Recordings, Records, Moves
<1>12. ASSUME NEW b \in Uniforms, vk_cmd_bind_uniform(b)
      PROVE  Moves
  BY <1>12, CallGoes DEF vk_cmd_bind_uniform, Recording, Recordings, Records, Moves
<1>13. CASE vk_end_commands
  BY <1>13, CallGoes DEF vk_end_commands, Closes, FrameMoves, Moves
<1>14. CASE vk_submit
  BY <1>14, CallGoes DEF vk_submit, VkSubmits, FrameMoves, Moves
<1>15. CASE vk_present
  BY <1>15, CallGoes DEF vk_present, Quiet, Moves
<1>16. CASE vk_unmodelled
  <2>1. CASE Calling("end_frame", "none")
    BY <1>16, <2>1, CallGoes DEF vk_unmodelled, Quiet, Moves
  <2>2. ASSUME NEW op \in Recordings, NEW arg, Calling(op, arg)
        PROVE  Moves
    BY <1>16, <2>2, CallGoes DEF vk_unmodelled, Recording, Records, Moves
  <2> QED BY <1>16, <2>1, <2>2 DEF vk_unmodelled, Recordings
<1> QED
  <2> HIDE DEF Moves
  <2> QED BY <1>1, <1>2, <1>3, <1>4, <1>5, <1>6, <1>7, <1>8, <1>9, <1>10, <1>11, <1>12,
             <1>13, <1>14, <1>15, <1>16 DEF vk_calls

LEMMA DxCalls ==
  TypeInv /\ plugin = "d3d12" /\ plugin' = plugin /\ dx_calls /\ UNCHANGED <<vkVars, mtlVars>>
    => Moves
<1> SUFFICES ASSUME PlaceInv, ListTyped, plugin = "d3d12", plugin' = plugin, dx_calls,
                    UNCHANGED <<vkVars, mtlVars>>
             PROVE  Moves
  BY DEF TypeInv
<1> USE DEF dxVars, mtlVars, vkVars, counters, bindings
<1>1. CASE EnterFrame /\ UNCHANGED dxVars
  BY <1>1, Enters DEF EnterFrame, Quiet, Moves
<1>2. CASE dx_begin_frame
  BY <1>2, CallGoes DEF dx_begin_frame, DxBegins, FrameMoves, Moves
<1>3. ASSUME NEW new \in SUBSET Passes, BuildDrawList(new), dx_create_graphics_pipeline(new)
      PROVE  Moves
  BY <1>3, Builds DEF BuildDrawList, dx_create_graphics_pipeline, Quiet, Moves
<1>4. CASE dx_begin_commands
  BY <1>4, CallGoes DEF dx_begin_commands, Quiet, Moves
<1>5. CASE dx_cmd_push_constants
  BY <1>5, CallGoes DEF dx_cmd_push_constants, Recording, Recordings, Records, Moves
<1>6. CASE dx_cmd_set_vertex_buffer
  BY <1>6, CallGoes DEF dx_cmd_set_vertex_buffer, Recording, Recordings, Records, Moves
<1>7. CASE dx_cmd_set_index_buffer
  BY <1>7, CallGoes DEF dx_cmd_set_index_buffer, Recording, Recordings, Records, Moves
<1>8. ASSUME NEW pass \in Passes \cup {"Clear"}, dx_cmd_begin_pass(pass)
      PROVE  Moves
  BY <1>8, CallGoes DEF dx_cmd_begin_pass, Recording, Recordings, Records, Moves, ListTyped
<1>9. ASSUME NEW pass \in Passes, dx_cmd_set_pipeline(pass)
      PROVE  Moves
  BY <1>9, CallGoes DEF dx_cmd_set_pipeline, Recording, Recordings, Records, Moves
<1>10. ASSUME NEW pass \in Passes, dx_cmd_draw_indexed(pass)
      PROVE  Moves
  BY <1>10, CallGoes DEF dx_cmd_draw_indexed, Recording, Recordings, Records, Moves, ListTyped
<1>11. ASSUME NEW b \in Uniforms, dx_update_buffer(b)
      PROVE  Moves
  BY <1>11, CallGoes DEF dx_update_buffer, Recording, Recordings, Records, Moves
<1>12. ASSUME NEW b \in Uniforms, dx_cmd_bind_uniform(b)
      PROVE  Moves
  BY <1>12, CallGoes DEF dx_cmd_bind_uniform, Recording, Recordings, Records, Moves
<1>13. CASE dx_end_commands
  BY <1>13, CallGoes DEF dx_end_commands, Closes, FrameMoves, Moves
<1>14. CASE dx_submit
  BY <1>14, CallGoes DEF dx_submit, DxSubmits, FrameMoves, Moves
<1>15. CASE dx_present
  BY <1>15, CallGoes DEF dx_present, DxPresents, FrameMoves, Moves
<1>16. CASE dx_end_frame
  BY <1>16, CallGoes DEF dx_end_frame, Quiet, Moves
<1>17. CASE dx_unmodelled
  <2>1. ASSUME NEW op \in Recordings, NEW arg, Calling(op, arg)
        PROVE  Moves
    BY <1>17, <2>1, CallGoes DEF dx_unmodelled, Recording, Records, Moves
  <2> QED BY <1>17, <2>1 DEF dx_unmodelled, Recordings
<1> QED
  <2> HIDE DEF Moves
  <2> QED BY <1>1, <1>2, <1>3, <1>4, <1>5, <1>6, <1>7, <1>8, <1>9, <1>10, <1>11, <1>12,
             <1>13, <1>14, <1>15, <1>16, <1>17 DEF dx_calls

LEMMA MtlCalls ==
  TypeInv /\ plugin = "metal" /\ plugin' = plugin /\ mtl_calls /\ UNCHANGED <<vkVars, dxVars>>
    => Moves
<1> SUFFICES ASSUME PlaceInv, ListTyped, plugin = "metal", plugin' = plugin, mtl_calls,
                    UNCHANGED <<vkVars, dxVars>>
             PROVE  Moves
  BY DEF TypeInv
<1> USE DEF dxVars, mtlVars, vkVars, counters, bindings
<1>1. CASE EnterFrame /\ UNCHANGED mtlVars
  BY <1>1, Enters DEF EnterFrame, Quiet, Moves
<1>2. CASE mtl_begin_frame
  <2>1. PlaceInv /\ draws' = draws /\ Calling("begin_frame", "none")
    BY <1>2 DEF mtl_begin_frame
  <2>2. CASE GiveUp /\ UNCHANGED <<address, begun>>
    <3>1. Going(1, 0)
      BY <2>1, <2>2, CallReturned, CallPlace DEF Going
    <3> QED BY <1>2, <2>1, <2>2, <3>1 DEF mtl_begin_frame, Quiet, Moves, slots
  <2>3. CASE /\ begun - retired < maxDrawables /\ address' = [s \in Slots |-> None]
             /\ begun' = begun + 1 /\ Return
    BY <1>2, <2>1, <2>3, CallGoes DEF mtl_begin_frame, MtlBegins, FrameMoves, Moves
  <2> QED BY <1>2, <2>2, <2>3 DEF mtl_begin_frame
<1>3. ASSUME NEW new \in SUBSET Passes, BuildDrawList(new), mtl_create_graphics_pipeline(new)
      PROVE  Moves
  BY <1>3, Builds DEF BuildDrawList, mtl_create_graphics_pipeline, Quiet, Moves
<1>4. CASE mtl_begin_commands
  BY <1>4, CallGoes DEF mtl_begin_commands, MtlRecords, FrameMoves, Moves
<1>5. CASE mtl_cmd_push_constants
  BY <1>5, CallGoes DEF mtl_cmd_push_constants, Recording, Recordings, Records, Moves
<1>6. CASE mtl_cmd_set_vertex_buffer
  BY <1>6, CallGoes DEF mtl_cmd_set_vertex_buffer, Recording, Recordings, Records, Moves
<1>7. CASE mtl_cmd_set_index_buffer
  BY <1>7, CallGoes DEF mtl_cmd_set_index_buffer, Recording, Recordings, Records, Moves
<1>8. ASSUME NEW pass \in Passes \cup {"Clear"}, mtl_cmd_begin_pass(pass) \/ mtl_cmd_end_pass(pass)
      PROVE  Moves
  BY <1>8, CallGoes DEF mtl_cmd_begin_pass, mtl_cmd_end_pass, Recording, Recordings, Records, Moves
<1>9. ASSUME NEW pass \in Passes, mtl_cmd_set_pipeline(pass)
      PROVE  Moves
  BY <1>9, CallGoes DEF mtl_cmd_set_pipeline, Recording, Recordings, Records, Moves
<1>10. ASSUME NEW pass \in Passes, mtl_cmd_draw_indexed(pass)
      PROVE  Moves
  BY <1>10, CallGoes DEF mtl_cmd_draw_indexed, Recording, Recordings, Records, Moves, ListTyped
<1>11. ASSUME NEW b \in Uniforms, mtl_update_buffer(b)
      PROVE  Moves
  BY <1>11, CallGoes DEF mtl_update_buffer, Recording, Recordings, Records, Moves
<1>12. ASSUME NEW b \in Uniforms, mtl_cmd_bind_uniform(b)
      PROVE  Moves
  BY <1>12, CallGoes DEF mtl_cmd_bind_uniform, Recording, Recordings, Records, Moves
<1>13. CASE mtl_present
  BY <1>13, CallGoes DEF mtl_present, MtlPresents, FrameMoves, Moves
<1>14. CASE mtl_end_frame
  BY <1>14, CallGoes DEF mtl_end_frame, MtlEnds, FrameMoves, Moves
<1>15. CASE mtl_unmodelled
  BY <1>15, CallGoes DEF mtl_unmodelled, Quiet, Recording, Recordings, Records, Moves
<1> QED
  <2> HIDE DEF Moves
  <2> QED BY <1>1, <1>2, <1>3, <1>4, <1>5, <1>6, <1>7, <1>8, <1>9, <1>10, <1>11, <1>12,
             <1>13, <1>14, <1>15 DEF mtl_calls

\* The other steps leave the script alone.
LEMMA Idles ==
  PlaceInv /\ call = 0 => stage = 0
BY StageIs

LEMMA RequestMoves ==
  TypeInv /\ Requests => Moves
<1> SUFFICES ASSUME PlaceInv, CountersTyped, ObjectsTyped, Requests PROVE Moves
  BY DEF TypeInv
<1> USE DEF dxVars, mtlVars, vkVars, counters, bindings, Staying
<1>1. CASE Vulkan(vk_resize_swapchain)
  BY <1>1, Idles DEF Vulkan, vk_resize_swapchain, Requested, vk_resize, vk_swapchain_init, Resizes,
     OtherMoves, Moves
<1>2. CASE Vulkan(vk_set_present_mode)
  BY <1>2, Idles DEF Vulkan, vk_set_present_mode, Requested, vk_resize, vk_swapchain_init, Resizes,
     OtherMoves, Moves, Quiet
<1>3. CASE Vulkan(vk_set_platform_drawable)
  BY <1>3 DEF Vulkan, vk_set_platform_drawable, Quiet, Moves
<1>4. CASE D3D12(dx_resize_swapchain)
  BY <1>4, Idles DEF D3D12, dx_resize_swapchain, Requested, Resizes, OtherMoves, Moves, ObjectsTyped
<1>5. CASE Metal(mtl_resize_swapchain)
  BY <1>5, Idles DEF Metal, mtl_resize_swapchain, Requested, Resizes, OtherMoves, Moves
<1>6. CASE Metal(mtl_set_present_mode)
  BY <1>6 DEF Metal, mtl_set_present_mode, Requested, Redraws, OtherMoves, Moves
<1> QED
  <2> HIDE DEF Moves
  <2> QED BY <1>1, <1>2, <1>3, <1>4, <1>5, <1>6, Zenon DEF Requests, Vulkan, vk_requests

LEMMA CreateMoves ==
  TypeInv /\ Creates => Moves
<1> SUFFICES ASSUME Creates PROVE Moves
  OBVIOUS
<1> USE DEF dxVars, mtlVars, vkVars, counters, bindings
<1>1. CASE Vulkan(vk_creates)
  <2>1. ASSUME NEW b \in Uniforms \cup {"vertex", "index"}, vk_create_buffer(b)
        PROVE  Moves
    BY <1>1, <2>1 DEF Vulkan, vk_create_buffer, Creating, Created, Makes, Made, OtherMoves, Moves, gpu, Uniforms
  <2>2. CASE vk_create_objects
    BY <1>1, <2>2 DEF Vulkan, vk_create_objects, Creating, Created, Makes, Made, OtherMoves, Moves, gpu
  <2>3. CASE vk_submit_copy
    BY <1>1, <2>3 DEF Vulkan, vk_submit_copy, Creating, StartsCopy, OtherMoves, Moves
  <2>4. CASE vk_finish_copy
    BY <1>1, <2>4 DEF Vulkan, vk_finish_copy, EndsCopy, OtherMoves, Moves
  <2>5. CASE vk_create_texture
    BY <1>1, <2>5 DEF Vulkan, vk_create_texture, Created, HandsOut, Made, OtherMoves, Moves
  <2> HIDE DEF Moves
  <2> QED BY <1>1, <2>1, <2>2, <2>3, <2>4, <2>5 DEF Vulkan, vk_creates
<1>2. CASE D3D12(dx_creates)
  <2>1. ASSUME NEW b \in Uniforms, dx_create_uniform_buffer(b)
        PROVE  Moves
    <3>1. b \in Uniforms /\ Creating(b)
      BY <2>1 DEF dx_create_uniform_buffer
    <3>2. CASE dx_executeNow({})
      BY <1>2, <3>1, <3>2 DEF D3D12, dx_executeNow, Creating, StartsCopy, OtherMoves, Moves, Uniforms
    <3>3. CASE /\ frameBegun /\ head < RingCells
               /\ Stage(0) /\ UNCHANGED stores
               /\ address' = [address EXCEPT ![b] = <<frameIndex, head>>] /\ Created
               /\ UNCHANGED <<draws, call, budget, lock, list, gpu, meant, bound, objects,
                              begun, up, dxVars>>
      BY <1>2, <3>1, <3>3 DEF D3D12, Creating, Created, Stage, DxStages, Made, OtherMoves, Moves
    <3>4. CASE /\ NotCreated
               /\ UNCHANGED <<draws, call, budget, lock, list, gpu, memory, slots, objects,
                              begun, up, dxVars>>
      BY <1>2, <3>1, <3>4 DEF D3D12, Creating, NotCreated, Makes, OtherMoves, Moves, gpu
    <3> HIDE DEF Moves
    <3> QED BY <2>1, <3>2, <3>3, <3>4 DEF dx_create_uniform_buffer
  <2>2. ASSUME NEW b \in {"vertex", "index"}, dx_create_filled_buffer(b)
        PROVE  Moves
    BY <1>2, <2>2 DEF D3D12, dx_create_filled_buffer, dx_executeNow, Creating, StartsCopy,
                      OtherMoves, Moves
  <2>3. CASE dx_create_objects
    BY <1>2, <2>3 DEF D3D12, dx_create_objects, Creating, Created, Makes, Made, OtherMoves, Moves, gpu
  <2>4. CASE dx_create_texture
    <3>1. Creating("texture")
      BY <2>4 DEF dx_create_texture
    <3>2. CASE dx_executeNow({"texture"})
      BY <1>2, <3>1, <3>2 DEF D3D12, dx_executeNow, Creating, StartsCopy, OtherMoves, Moves
    <3>3. CASE /\ frameBegun /\ head < RingCells
               /\ Stage(stores + 1) /\ stores' = stores + 1
               /\ IF list.open
                  THEN /\ list' = [list EXCEPT !.fills = @ \cup {"texture"},
                              !.reads = @ \cup {[input |-> "staged", at |-> <<frameIndex, head>>,
                                                 value |-> stores + 1]}]
                       /\ UNCHANGED lost
                  ELSE lost' = lost \cup {"texture"} /\ UNCHANGED list
               /\ Created
               /\ UNCHANGED <<draws, call, budget, lock, gpu, slots, objects, begun, up,
                              frameIndex, current, frameBegun, fenceValue, signalled,
                              completed, rootSet>>
      <4>1. DxStages
        BY <1>2, <3>1, <3>3 DEF D3D12, Creating, Created, Stage, DxStages, Made, slots
      <4> QED BY <1>2, <4>1 DEF D3D12, OtherMoves, Moves
    <3>4. CASE /\ NotCreated
               /\ UNCHANGED <<draws, call, budget, lock, list, gpu, memory, slots, objects,
                              begun, up, dxVars>>
      BY <1>2, <3>1, <3>4 DEF D3D12, Creating, NotCreated, Makes, OtherMoves, Moves, gpu
    <3> HIDE DEF Moves
    <3> QED BY <2>4, <3>2, <3>3, <3>4 DEF dx_create_texture
  <2>5. CASE dx_wait
    BY <1>2, <2>5 DEF D3D12, dx_wait, Created, EndsCopy, Made, OtherMoves, Moves
  <2> HIDE DEF Moves
  <2> QED BY <1>2, <2>1, <2>2, <2>3, <2>4, <2>5 DEF D3D12, dx_creates
<1>3. CASE Metal(mtl_creates)
  <2>1. ASSUME NEW b \in Uniforms \cup {"vertex", "index"}, mtl_create_buffer(b)
        PROVE  Moves
    BY <1>3, <2>1 DEF Metal, mtl_create_buffer, Creating, Created, Makes, Made, OtherMoves, Moves, gpu, Uniforms
  <2>2. CASE mtl_create_objects
    BY <1>3, <2>2 DEF Metal, mtl_create_objects, Creating, Created, Makes, Made, OtherMoves, Moves, gpu
  <2>3. CASE mtl_create_texture
    <3>1. CASE Created /\ filled' = filled \cup {"texture"} /\ UNCHANGED <<lock, queue>>
      BY <1>3, <2>3, <3>1 DEF Metal, mtl_create_texture, Creating, Created, Makes, Made, OtherMoves, Moves, gpu
    <3>2. CASE /\ step' = "copying"
               /\ Submit("copy", [reads |-> {}, uses |-> {}, fills |-> {"texture"}], 0)
               /\ UNCHANGED <<made, creating, filled>>
      BY <1>3, <2>3, <3>2 DEF Metal, mtl_create_texture, Creating, StartsCopy, OtherMoves, Moves, objects
    <3> HIDE DEF Moves
    <3> QED BY <2>3, <3>1, <3>2 DEF mtl_create_texture
  <2>4. CASE mtl_waitUntilCompleted
    BY <1>3, <2>4 DEF Metal, mtl_waitUntilCompleted, Created, HandsOut, Made, OtherMoves, Moves
  <2> HIDE DEF Moves
  <2> QED BY <1>3, <2>1, <2>2, <2>3, <2>4 DEF Metal, mtl_creates
<1> QED
  <2> HIDE DEF Moves
  <2> QED BY <1>1, <1>2, <1>3 DEF Creates

LEMMA GpuMoves == TypeInv /\ Gpu => Moves
<1> SUFFICES ASSUME Gpu, CountersTyped PROVE Moves
  BY DEF TypeInv
<1> USE DEF dxVars, mtlVars, vkVars, counters, bindings
<1>1. CASE Vulkan(vk_finish)
  BY <1>1 DEF Vulkan, vk_finish, Finishes, OtherMoves, Moves
<1>2. CASE D3D12(dx_finish)
  BY <1>2 DEF D3D12, dx_finish, Finishes, OtherMoves, Moves
<1>3. CASE Metal(mtl_finish)
  BY <1>3 DEF Metal, mtl_finish, Finishes, OtherMoves, Moves
<1> QED
  <2> HIDE DEF Moves
  <2> QED BY <1>1, <1>2, <1>3 DEF Gpu

LEMMA ShutdownMoves == TypeInv /\ Shutdown => Moves
<1> SUFFICES ASSUME Shutdown, ObjectsTyped, PlaceInv PROVE Moves
  BY DEF TypeInv
<1> USE DEF dxVars, mtlVars, vkVars, counters, bindings, Staying
<1>1. CASE ShutdownFonts /\ UNCHANGED <<vkVars, dxVars, mtlVars, plugin>>
  <2>1. call = 0 => stage = 0
    BY StageIs
  <2> QED BY <1>1, <2>1, ObjectsAre DEF ShutdownFonts, ObjectsTyped, ShutsDown, OtherMoves, Moves
<1>2. ASSUME generation' = [o \in Objects |-> generation[o] + 1]
      PROVE  DOMAIN generation' = Objects /\ \A o \in Objects : generation'[o] \in Nat
  BY <1>2 DEF ObjectsTyped
<1>3. CASE Vulkan(vk_shutdown)
  BY <1>2, <1>3 DEF Vulkan, vk_shutdown, ShutsDown, OtherMoves, Moves
<1>4. CASE D3D12(dx_shutdown)
  BY <1>2, <1>4 DEF D3D12, dx_shutdown, ShutsDown, OtherMoves, Moves
<1>5. CASE Metal(mtl_shutdown)
  BY <1>2, <1>5 DEF Metal, mtl_shutdown, ShutsDown, OtherMoves, Moves
<1> QED
  <2> HIDE DEF Moves
  <2> QED BY <1>1, <1>3, <1>4, <1>5 DEF Shutdown

\* Every step is one of the moves.
LEMMA NextMoves == TypeInv /\ Next => Moves
<1> SUFFICES ASSUME TypeInv, RenderCalls PROVE Moves
  BY RequestMoves, CreateMoves, GpuMoves, ShutdownMoves DEF Next
<1> QED BY VkCalls, DxCalls, MtlCalls DEF RenderCalls, Vulkan, D3D12, Metal

-----------------------------------------------------------------------------
(* Type correctness *)

LEMMA Typed ==
  ASSUME TypeInv
  PROVE  /\ Reads \subseteq Reading /\ Targets \subseteq Use /\ Using({<<"texture", 0>>}) \subseteq Use
         /\ \A r \in Rings : <<<<"commands", r>>, generation[<<"commands", r>>] + 1>> \in Use
<1>1. ASSUME NEW i \in Inputs
      PROVE  [input |-> i, at |-> bound[i], value |-> IF i \in Slots THEN meant[i] ELSE 0] \in Reading
  BY DEF TypeInv, MemoryTyped, MeantTyped, BoundTyped, Reading, Slots
<1>2. Reads \subseteq Reading
  BY <1>1 DEF Reads
<1>3. Targets \subseteq Use /\ Using({<<"texture", 0>>}) \subseteq Use
      /\ \A r \in Rings : <<<<"commands", r>>, generation[<<"commands", r>>] + 1>> \in Use
  BY ObjectsAre DEF TypeInv, ObjectsTyped, Use, Targets, Using
<1> QED BY <1>2, <1>3

LEMMA ListStep == TypeInv /\ Moves => ListTyped'
<1> SUFFICES ASSUME TypeInv, ListTyped, Moves PROVE ListTyped'
  BY DEF TypeInv
<1> USE DEF ListTyped
<1>1. ASSUME UNCHANGED list PROVE ListTyped'
  BY <1>1
<1>2. CASE Quiet
  BY <1>2 DEF Quiet
<1>3. CASE Recording
  BY <1>3, Typed DEF Recording
<1>4. CASE VkBegins \/ MtlBegins \/ DxPresents \/ MtlEnds
  BY <1>4 DEF VkBegins, MtlBegins, DxPresents, MtlEnds
<1>5. CASE DxBegins
  BY <1>5, Typed DEF DxBegins, Empty, TypeInv, CountersTyped
<1>6. CASE VkRecords
  BY <1>6, Typed, Zero DEF VkRecords, Empty
<1>7. CASE MtlRecords
  BY <1>7 DEF MtlRecords, Empty
<1>8. CASE Closes
  BY <1>8 DEF Closes
<1>9. CASE VkSubmits \/ DxSubmits \/ MtlPresents
  BY <1>9 DEF VkSubmits, DxSubmits, MtlPresents, Empty
<1>10. CASE Makes \/ StartsCopy \/ EndsCopy \/ HandsOut \/ Resizes \/ Redraws \/ ShutsDown \/ Finishes
  BY <1>10 DEF Makes, StartsCopy, EndsCopy, HandsOut, Resizes, Redraws, ShutsDown, Finishes, Finish
<1>11. CASE DxStages
  <2>1. [input |-> "staged", at |-> <<frameIndex, head>>, value |-> stores + 1] \in Reading
    <3>1. head \in Cells /\ frameIndex \in Rings /\ stores \in Nat
      BY <1>11, RenderThreadAssumption DEF DxStages, TypeInv, MemoryTyped, RingTyped, CountersTyped, Cells
    <3> QED BY <3>1 DEF Reading, Places, Addresses
  <2> QED BY <1>11, <2>1 DEF DxStages
<1> QED BY <1>2, <1>3, <1>4, <1>5, <1>6, <1>7, <1>8, <1>9, <1>10, <1>11
        DEF Moves, FrameMoves, OtherMoves

LEMMA SubmissionTyped ==
  ASSUME NEW kind \in {"frame", "copy"}, NEW work, NEW value \in Nat,
         work.reads \subseteq Reading, work.uses \subseteq Use, work.fills \subseteq {"texture"},
         queue \in Seq(Work), Submit(kind, work, value)
  PROVE  queue' \in Seq(Work)
<1>1. [kind |-> kind, reads |-> work.reads, uses |-> work.uses,
       fills |-> work.fills, value |-> value] \in Work
  BY DEF Work
<1> QED BY <1>1, AppendProperties DEF Submit

LEMMA QueueStep == TypeInv /\ Moves => queue' \in Seq(Work)
<1> SUFFICES ASSUME TypeInv, ListTyped, CountersTyped, queue \in Seq(Work), Moves
             PROVE  queue' \in Seq(Work)
  BY DEF TypeInv
<1>1. CASE Quiet \/ Recording
  BY <1>1 DEF Quiet, Recording, gpu
<1>2. CASE VkBegins \/ MtlBegins \/ DxPresents \/ MtlEnds \/ DxBegins \/ VkRecords \/ MtlRecords \/ Closes
  BY <1>2 DEF VkBegins, MtlBegins, DxPresents, MtlEnds, DxBegins, VkRecords, MtlRecords, Closes, gpu
<1>3. CASE VkSubmits
  BY <1>3, SubmissionTyped DEF VkSubmits, ListTyped
<1>4. CASE DxSubmits
  BY <1>4, SubmissionTyped DEF DxSubmits, ListTyped, CountersTyped
<1>5. CASE MtlPresents
  BY <1>5, SubmissionTyped DEF MtlPresents, ListTyped
<1>6. CASE Makes \/ EndsCopy \/ HandsOut \/ Resizes \/ Redraws \/ ShutsDown \/ DxStages
  BY <1>6 DEF Makes, EndsCopy, HandsOut, Resizes, Redraws, ShutsDown, DxStages, gpu
<1>7. CASE StartsCopy
  <2>1. <<<<"oneShot", 0>>, creating>> \in Use
    BY ObjectsAre DEF Use, CountersTyped
  <2>2. PICK fills \in SUBSET {"texture"} :
          \/ SubmitCopy(fills)
          \/ Submit("copy", [reads |-> {}, uses |-> {}, fills |-> fills], 0)
    BY <1>7 DEF StartsCopy
  <2>3. CASE SubmitCopy(fills)
    <3> DEFINE work == [reads |-> {}, fills |-> fills, uses |-> {<<<<"oneShot", 0>>, creating>>}]
    <3>1. work.reads \subseteq Reading /\ work.uses \subseteq Use /\ work.fills \subseteq {"texture"}
      BY <2>1
    <3>2. Submit("copy", work, 0)
      BY <2>3 DEF SubmitCopy
    <3> HIDE DEF work
    <3> QED BY <3>1, <3>2, SubmissionTyped
  <2>4. CASE Submit("copy", [reads |-> {}, uses |-> {}, fills |-> fills], 0)
    <3> DEFINE work == [reads |-> {}, uses |-> {}, fills |-> fills]
    <3>1. work.reads \subseteq Reading /\ work.uses \subseteq Use /\ work.fills \subseteq {"texture"}
      OBVIOUS
    <3>2. Submit("copy", work, 0)
      BY <2>4
    <3> HIDE DEF work
    <3> QED BY <3>1, <3>2, SubmissionTyped
  <2> QED BY <2>2, <2>3, <2>4
<1>8. CASE Finishes
  BY <1>8, HeadTailProperties DEF Finishes, Finish
<1> QED BY <1>1, <1>2, <1>3, <1>4, <1>5, <1>6, <1>7, <1>8 DEF Moves, FrameMoves, OtherMoves

LEMMA Next_Ring ==
  ASSUME NEW c \in Rings
  PROVE  (c + 1) % FrameCount = IF c + 1 = FrameCount THEN 0 ELSE c + 1
BY RenderThreadAssumption DEF Rings

LEMMA CountersStep == TypeInv /\ Moves => CountersTyped'
<1> SUFFICES ASSUME CountersTyped, queue \in Seq(Work), Moves
             PROVE  CountersTyped'
  BY DEF TypeInv
<1> USE DEF CountersTyped, counters
<1>1. CASE Quiet \/ Recording
  BY <1>1 DEF Moves, Quiet, Recording, gpu, creation
<1>2. CASE VkBegins \/ MtlBegins \/ MtlEnds \/ DxBegins \/ VkRecords \/ MtlRecords \/ Closes
  BY <1>2 DEF Moves, VkBegins, MtlBegins, MtlEnds, DxBegins, VkRecords, MtlRecords, Closes, gpu, creation
<1>3. CASE VkSubmits \/ DxSubmits \/ MtlPresents
  BY <1>3 DEF Moves, VkSubmits, DxSubmits, MtlPresents, creation
<1>4. CASE DxPresents
  <2>1. current' \in Rings
    BY <1>4, Next_Ring, RenderThreadAssumption DEF DxPresents, Rings
  <2> QED BY <1>4, <2>1 DEF Moves, DxPresents, gpu, creation
<1>5. CASE Makes \/ EndsCopy \/ HandsOut \/ Redraws \/ ShutsDown \/ DxStages \/ StartsCopy
  BY <1>5 DEF Moves, Makes, EndsCopy, HandsOut, Redraws, ShutsDown, DxStages, StartsCopy, gpu, creation
<1>6. CASE Resizes
  <2>1. current' \in Rings
    BY <1>6, Zero DEF Resizes
  <2> QED BY <1>6, <2>1 DEF Moves, Resizes, gpu, creation
<1>7. CASE Finishes
  <2>1. Head(queue) \in Work
    BY <1>7, HeadTailProperties DEF Finishes, Finish
  <2>2. Head(queue).value \in Nat
    BY <2>1 DEF Work
  <2> QED BY <1>7, <2>2 DEF Moves, Finishes, Finish, creation
<1> QED BY <1>1, <1>2, <1>3, <1>4, <1>5, <1>6, <1>7 DEF Moves, FrameMoves, OtherMoves

LEMMA ObjectsStep == TypeInv /\ Moves => ObjectsTyped'
<1> SUFFICES ASSUME CountersTyped, ObjectsTyped, Moves
             PROVE  ObjectsTyped'
  BY DEF TypeInv
<1> USE DEF ObjectsTyped
<1>1. CASE Quiet \/ Recording
  BY <1>1 DEF Quiet, Recording, objects
<1>2. CASE VkBegins \/ MtlBegins \/ MtlEnds \/ MtlRecords \/ Closes
           \/ VkSubmits \/ DxSubmits \/ MtlPresents \/ DxPresents
  BY <1>2 DEF VkBegins, MtlBegins, MtlEnds, MtlRecords, Closes,
              VkSubmits, DxSubmits, MtlPresents, DxPresents, objects
<1>3. CASE DxBegins
  BY <1>3, ObjectsAre DEF DxBegins, CountersTyped
<1>4. CASE VkRecords
  BY <1>4, ObjectsAre, Zero DEF VkRecords
<1>5. CASE Makes \/ HandsOut \/ Redraws \/ DxStages \/ Finishes
  BY <1>5 DEF Makes, HandsOut, Redraws, DxStages, Finishes, Finish, objects
<1>6. CASE StartsCopy \/ EndsCopy
  <2>1. UNCHANGED torn
    BY <1>6 DEF StartsCopy, EndsCopy
  <2>2. \/ generation' = generation
        \/ generation' = [generation EXCEPT ![<<"oneShot", 0>>] = creating]
        \/ generation' = [generation EXCEPT ![<<"oneShot", 0>>] = 0]
    BY <1>6 DEF StartsCopy, EndsCopy, SubmitCopy, ReleaseCopy
  <2> QED BY <2>1, <2>2 DEF CountersTyped
<1>7. CASE Resizes
  <2>1. torn' \subseteq {"views", "depth"}
    BY <1>7 DEF Resizes
  <2>2. \/ generation' = [generation EXCEPT ![<<"depth", 0>>] = @ + 1]
        \/ generation' = [generation EXCEPT ![<<"views", 0>>] = @ + 1, ![<<"depth", 0>>] = @ + 1]
    BY <1>7 DEF Resizes
  <2> QED BY <2>1, <2>2
<1>8. CASE ShutsDown
  BY <1>8 DEF ShutsDown
<1> QED BY <1>1, <1>2, <1>3, <1>4, <1>5, <1>6, <1>7, <1>8 DEF Moves, FrameMoves, OtherMoves

LEMMA PlaceStep == TypeInv /\ Moves => PlaceInv'
<1> SUFFICES ASSUME PlaceInv, Moves PROVE PlaceInv'
  BY DEF TypeInv
<1>1. UNCHANGED <<draws, call>> => PlaceInv'
  BY DEF PlaceInv, last
<1> QED BY <1>1 DEF Moves, FrameMoves, OtherMoves, Quiet, Recording, Going, Staying, VkBegins, DxBegins,
  MtlBegins, VkRecords, MtlRecords, Closes, VkSubmits, DxSubmits, DxPresents, MtlPresents, MtlEnds,
  Makes, StartsCopy, EndsCopy, HandsOut, DxStages, Finishes, Finish, Resizes, Redraws, ShutsDown

LEMMA MemorySame ==
  MemoryTyped /\ UNCHANGED <<memory, slots, dynamicOffsets>> => MemoryTyped'
BY DEF MemoryTyped, RingTyped, MeantTyped, AddressTyped, OffsetsTyped, BoundTyped, memory, slots

LEMMA StoreTyped ==
  ASSUME NEW r \in Rings, NEW c \in Cells, NEW slot \in Slots,
         RingTyped, MeantTyped, Store(r, c, slot)
  PROVE  RingTyped' /\ MeantTyped'
<1>1. /\ stores' = stores + 1 /\ ring' = [ring EXCEPT ![r][c] = stores + 1]
      /\ head' = c + 1 /\ meant' = [meant EXCEPT ![slot] = stores + 1]
  BY DEF Store
<1>2. stores + 1 \in Nat /\ c + 1 \in 0 .. RingCells
  BY RenderThreadAssumption DEF RingTyped, Cells
<1>3. MeantTyped'
  BY <1>1, <1>2 DEF MeantTyped
<1>4. RingTyped'
  BY <1>1, <1>2 DEF RingTyped
<1> QED BY <1>3, <1>4

LEMMA ResetTyped ==
  ASSUME NEW r \in Rings, RingTyped, ResetRing(r)
  PROVE  RingTyped' /\ MeantTyped'
BY RenderThreadAssumption DEF ResetRing, RingTyped, MeantTyped

LEMMA HeadCell ==
  RingTyped => /\ head < RingCells => head \in Cells
               /\ (IF head = RingCells THEN 0 ELSE head) \in Cells
BY RenderThreadAssumption DEF RingTyped, Cells

LEMMA PlacesAre ==
  /\ \A a \in Addresses : a \in Places
  /\ None \in Places /\ \A i \in Inputs \cup {"inline"} : <<i>> \in Places
  /\ \A r \in Rings, c \in Cells : <<r, c>> \in Addresses
  /\ \A s \in Slots : s \in Inputs /\ "vertex" \in Inputs /\ "index" \in Inputs
  /\ \A b \in Uniforms : b \in Slots /\ "constants" \in Slots
BY DEF Places, Addresses, Inputs, Slots

LEMMA BindSetTyped ==
  BindSet /\ OffsetsTyped' /\ BoundTyped => BoundTyped'
<1> SUFFICES ASSUME BindSet, OffsetsTyped', BoundTyped PROVE BoundTyped'
  OBVIOUS
<1>1. bound' = [i \in Inputs |-> IF i \in Slots THEN dynamicOffsets'[i] ELSE bound[i]]
  BY DEF BindSet
<1>2. \A s \in Slots : dynamicOffsets'[s] \in Places
  BY PlacesAre DEF OffsetsTyped
<1> QED BY <1>1, <1>2 DEF BoundTyped

\* One input is bound, or none.
LEMMA BindTyped ==
  ASSUME NEW i \in Inputs, NEW p \in Places, BoundTyped,
         bound' = [bound EXCEPT ![i] = p] \/ UNCHANGED bound
  PROVE  BoundTyped'
BY DEF BoundTyped

LEMMA VkRecordsTyped ==
  TypeInv /\ Records /\ plugin = "vulkan" => MemoryTyped'
<1> SUFFICES ASSUME RingTyped, MeantTyped, AddressTyped, OffsetsTyped, BoundTyped,
                    CountersTyped, Records, plugin = "vulkan"
             PROVE  MemoryTyped'
  BY DEF TypeInv, MemoryTyped
<1> USE DEF vkVars
<1>0. MemoryTyped
  BY DEF MemoryTyped
<1>1. UNCHANGED dynamicOffsets => OffsetsTyped'
  BY DEF OffsetsTyped
<1>2. UNCHANGED memory => RingTyped'
  BY DEF RingTyped, memory
<1>3. UNCHANGED meant => MeantTyped'
  BY DEF MeantTyped
<1>4. UNCHANGED address => AddressTyped'
  BY DEF AddressTyped
<1>5. UNCHANGED bound => BoundTyped'
  BY DEF BoundTyped
<1>6. CASE vk_cmd_push_constants
  <2>1. PICK cell \in Cells : /\ Store(0, cell, "constants")
                              /\ dynamicOffsets' = [dynamicOffsets EXCEPT !["constants"] = <<0, cell>>]
    BY <1>6, HeadCell DEF vk_cmd_push_constants
  <2>2. RingTyped' /\ MeantTyped'
    BY <2>1, StoreTyped, Zero, PlacesAre DEF Slots
  <2>3. OffsetsTyped'
    BY <2>1, Zero, PlacesAre DEF OffsetsTyped
  <2> QED BY <1>4, <1>6, <2>2, <2>3, BindSetTyped DEF vk_cmd_push_constants, MemoryTyped
<1>7. CASE vk_cmd_set_vertex_buffer \/ vk_cmd_set_index_buffer
  <2>1. \/ bound' = [bound EXCEPT !["vertex"] = <<"vertex">>]
        \/ bound' = [bound EXCEPT !["index"] = <<"index">>]
    BY <1>7 DEF vk_cmd_set_vertex_buffer, vk_cmd_set_index_buffer
  <2>2. "vertex" \in Inputs /\ "index" \in Inputs
    BY DEF Inputs
  <2>3. BoundTyped'
    BY <2>1, <2>2, BindTyped, PlacesAre
  <2> QED BY <1>7, <1>1, <1>2, <1>3, <1>4, <2>3 DEF MemoryTyped, vk_cmd_set_vertex_buffer, vk_cmd_set_index_buffer
<1>8. ASSUME NEW pass \in Passes \cup {"Clear"}, vk_cmd_begin_pass(pass)
      PROVE  MemoryTyped'
  BY <1>0, <1>8, MemorySame DEF vk_cmd_begin_pass
<1>9. ASSUME NEW pass \in Passes, vk_cmd_set_pipeline(pass)
      PROVE  MemoryTyped'
  BY <1>9, <1>1, <1>2, <1>3, <1>4, BindSetTyped DEF MemoryTyped, vk_cmd_set_pipeline
<1>10. ASSUME NEW pass \in Passes, vk_cmd_draw_indexed(pass)
      PROVE  MemoryTyped'
  BY <1>0, <1>10, MemorySame DEF vk_cmd_draw_indexed
<1>11. ASSUME NEW b \in Uniforms, vk_update_buffer(b)
      PROVE  MemoryTyped'
  <2>1. CASE /\ head < RingCells
             /\ Store(0, head, b) /\ address' = [address EXCEPT ![b] = <<0, head>>]
    <3>1. RingTyped' /\ MeantTyped'
      BY <2>1, HeadCell, StoreTyped, Zero, PlacesAre
    <3>2. AddressTyped'
      BY <2>1, Zero, HeadCell, PlacesAre DEF AddressTyped
    <3> QED BY <1>1, <1>5, <1>11, <3>1, <3>2 DEF vk_update_buffer, MemoryTyped
  <2>2. CASE Refuse(b)
    <3>1. MeantTyped'
      BY <2>2 DEF Refuse, MeantTyped
    <3> QED BY <1>1, <1>2, <1>4, <1>5, <1>11, <2>2, <3>1 DEF vk_update_buffer, MemoryTyped, Refuse
  <2> QED BY <1>11, <2>1, <2>2 DEF vk_update_buffer
<1>12. ASSUME NEW b \in Uniforms, vk_cmd_bind_uniform(b)
      PROVE  MemoryTyped'
  <2>1. (IF address[b] = None THEN <<0, 0>> ELSE address[b]) \in Addresses
    BY Zero, PlacesAre DEF AddressTyped
  <2>2. OffsetsTyped'
    BY <1>12, <2>1 DEF vk_cmd_bind_uniform, OffsetsTyped
  <2> QED BY <1>2, <1>3, <1>4, <1>12, <2>2, BindSetTyped DEF vk_cmd_bind_uniform, MemoryTyped
<1>13. CASE vk_unmodelled
  BY <1>0, <1>13, MemorySame DEF vk_unmodelled
<1> QED BY <1>6, <1>7, <1>8, <1>9, <1>10, <1>11, <1>12, <1>13 DEF Records

LEMMA DxRecordsTyped ==
  TypeInv /\ Records /\ plugin = "d3d12" /\ UNCHANGED dynamicOffsets => MemoryTyped'
<1> SUFFICES ASSUME RingTyped, MeantTyped, AddressTyped, OffsetsTyped, BoundTyped, frameIndex \in Rings,
                    Records, plugin = "d3d12", MemoryTyped, UNCHANGED dynamicOffsets
             PROVE  MemoryTyped'
  BY DEF TypeInv, MemoryTyped, CountersTyped
<1>1. OffsetsTyped'
  BY DEF OffsetsTyped
<1>2. UNCHANGED memory => RingTyped'
  BY DEF RingTyped, memory
<1>3. UNCHANGED meant => MeantTyped'
  BY DEF MeantTyped
<1>4. UNCHANGED address => AddressTyped'
  BY DEF AddressTyped
<1>5. UNCHANGED bound => BoundTyped'
  BY DEF BoundTyped
<1>6. ASSUME UNCHANGED <<memory, meant, address>>, BoundTyped' PROVE MemoryTyped'
  BY <1>1, <1>2, <1>3, <1>4, <1>6 DEF MemoryTyped
<1>7. CASE dx_cmd_push_constants
  <2>1. PICK p \in Places : bound' = [bound EXCEPT !["constants"] = p]
    BY <1>7, PlacesAre DEF dx_cmd_push_constants
  <2>2. BoundTyped'
    BY <2>1, BindTyped, PlacesAre DEF Uniforms
  <2> QED BY <1>6, <1>7, <2>2 DEF dx_cmd_push_constants
<1>8. CASE dx_cmd_set_vertex_buffer \/ dx_cmd_set_index_buffer
  <2>1. \/ bound' = [bound EXCEPT !["vertex"] = <<"vertex">>]
        \/ bound' = [bound EXCEPT !["index"] = <<"index">>]
    BY <1>8 DEF dx_cmd_set_vertex_buffer, dx_cmd_set_index_buffer
  <2>2. "vertex" \in Inputs /\ "index" \in Inputs
    BY DEF Inputs
  <2>3. BoundTyped'
    BY <2>1, <2>2, BindTyped, PlacesAre
  <2> QED BY <1>6, <1>8, <2>3 DEF dx_cmd_set_vertex_buffer, dx_cmd_set_index_buffer
<1>9. ASSUME NEW pass \in Passes \cup {"Clear"}, dx_cmd_begin_pass(pass)
      PROVE  MemoryTyped'
  BY <1>9, MemorySame DEF dx_cmd_begin_pass
<1>10. ASSUME NEW pass \in Passes, dx_cmd_set_pipeline(pass)
      PROVE  MemoryTyped'
  <2>1. BoundTyped'
    BY <1>10, PlacesAre DEF dx_cmd_set_pipeline, BoundTyped
  <2> QED BY <1>6, <1>10, <2>1 DEF dx_cmd_set_pipeline
<1>11. ASSUME NEW pass \in Passes, dx_cmd_draw_indexed(pass)
      PROVE  MemoryTyped'
  BY <1>11, MemorySame DEF dx_cmd_draw_indexed
<1>12. ASSUME NEW b \in Uniforms, dx_update_buffer(b)
      PROVE  MemoryTyped'
  <2>1. CASE /\ head < RingCells
             /\ Store(frameIndex, head, b) /\ address' = [address EXCEPT ![b] = <<frameIndex, head>>]
    <3>1. RingTyped' /\ MeantTyped'
      BY <2>1, HeadCell, StoreTyped, PlacesAre
    <3>2. AddressTyped'
      BY <2>1, HeadCell, PlacesAre DEF AddressTyped
    <3> QED BY <1>1, <1>5, <1>12, <3>1, <3>2 DEF dx_update_buffer, MemoryTyped
  <2>2. CASE Refuse(b)
    <3>1. MeantTyped'
      BY <2>2 DEF Refuse, MeantTyped
    <3> QED BY <1>1, <1>2, <1>4, <1>5, <1>12, <2>2, <3>1 DEF dx_update_buffer, MemoryTyped, Refuse
  <2> QED BY <1>12, <2>1, <2>2 DEF dx_update_buffer
<1>13. ASSUME NEW b \in Uniforms, dx_cmd_bind_uniform(b)
      PROVE  MemoryTyped'
  <2>1. PICK p \in Places : bound' = [bound EXCEPT ![b] = p]
    BY <1>13, PlacesAre DEF dx_cmd_bind_uniform, AddressTyped
  <2>2. b \in Inputs
    BY PlacesAre
  <2>3. BoundTyped'
    BY <2>1, <2>2, BindTyped
  <2> QED BY <1>6, <1>13, <2>3 DEF dx_cmd_bind_uniform
<1>14. CASE dx_unmodelled
  BY <1>14, MemorySame DEF dx_unmodelled
<1> QED BY <1>7, <1>8, <1>9, <1>10, <1>11, <1>12, <1>13, <1>14 DEF Records

LEMMA MtlRecordsTyped ==
  TypeInv /\ Records /\ plugin = "metal" /\ UNCHANGED dynamicOffsets => MemoryTyped'
<1> SUFFICES ASSUME RingTyped, MeantTyped, AddressTyped, OffsetsTyped, BoundTyped,
                    Records, plugin = "metal", MemoryTyped, UNCHANGED dynamicOffsets
             PROVE  MemoryTyped'
  BY DEF TypeInv, MemoryTyped
<1>1. OffsetsTyped'
  BY DEF OffsetsTyped
<1>2. UNCHANGED memory => RingTyped'
  BY DEF RingTyped, memory
<1>3. UNCHANGED meant => MeantTyped'
  BY DEF MeantTyped
<1>4. UNCHANGED address => AddressTyped'
  BY DEF AddressTyped
<1>5. UNCHANGED bound => BoundTyped'
  BY DEF BoundTyped
<1>6. ASSUME UNCHANGED <<memory, meant, address>>, BoundTyped' PROVE MemoryTyped'
  BY <1>1, <1>2, <1>3, <1>4, <1>6 DEF MemoryTyped
<1>7. CASE mtl_cmd_push_constants
  <2>1. PICK p \in Places : bound' = [bound EXCEPT !["constants"] = p] \/ UNCHANGED bound
    BY <1>7, PlacesAre DEF mtl_cmd_push_constants
  <2>2. BoundTyped'
    BY <2>1, BindTyped, PlacesAre DEF Uniforms
  <2> QED BY <1>6, <1>7, <2>2 DEF mtl_cmd_push_constants
<1>8. CASE mtl_cmd_set_vertex_buffer \/ mtl_cmd_set_index_buffer
  <2>1. \/ bound' = [bound EXCEPT !["vertex"] = <<"vertex">>]
        \/ bound' = [bound EXCEPT !["index"] = <<"index">>]
        \/ UNCHANGED bound
    BY <1>8 DEF mtl_cmd_set_vertex_buffer, mtl_cmd_set_index_buffer
  <2>2. "vertex" \in Inputs /\ "index" \in Inputs
    BY DEF Inputs
  <2>3. BoundTyped'
    BY <2>1, <2>2, BindTyped, PlacesAre
  <2> QED BY <1>6, <1>8, <2>3 DEF mtl_cmd_set_vertex_buffer, mtl_cmd_set_index_buffer
<1>9. ASSUME NEW pass \in Passes \cup {"Clear"}, mtl_cmd_begin_pass(pass)
      PROVE  MemoryTyped'
  <2>1. BoundTyped'
    BY <1>9, PlacesAre DEF mtl_cmd_begin_pass, BoundTyped
  <2> QED BY <1>6, <1>9, <2>1 DEF mtl_cmd_begin_pass
<1>10. ASSUME NEW pass \in Passes \cup {"Clear"}, mtl_cmd_end_pass(pass)
      PROVE  MemoryTyped'
  BY <1>10, MemorySame DEF mtl_cmd_end_pass
<1>11. ASSUME NEW pass \in Passes, mtl_cmd_set_pipeline(pass) \/ mtl_cmd_draw_indexed(pass)
      PROVE  MemoryTyped'
  BY <1>11, MemorySame DEF mtl_cmd_set_pipeline, mtl_cmd_draw_indexed
<1>12. ASSUME NEW b \in Uniforms, mtl_update_buffer(b)
      PROVE  MemoryTyped'
  <2>1. PICK cell \in Cells : Store(0, cell, b) /\ address' = [address EXCEPT ![b] = <<0, cell>>]
    BY <1>12, HeadCell DEF mtl_update_buffer
  <2>2. RingTyped' /\ MeantTyped'
    BY <2>1, StoreTyped, Zero, PlacesAre
  <2>3. AddressTyped'
    BY <2>1, Zero, PlacesAre DEF AddressTyped
  <2> QED BY <1>1, <1>5, <1>12, <2>2, <2>3 DEF mtl_update_buffer, MemoryTyped
<1>13. ASSUME NEW b \in Uniforms, mtl_cmd_bind_uniform(b)
      PROVE  MemoryTyped'
  <2>1. PICK p \in Places : bound' = [bound EXCEPT ![b] = p] \/ UNCHANGED bound
    BY <1>13, PlacesAre DEF mtl_cmd_bind_uniform, AddressTyped
  <2>2. b \in Inputs
    BY PlacesAre
  <2>3. BoundTyped'
    BY <2>1, <2>2, BindTyped
  <2> QED BY <1>6, <1>13, <2>3 DEF mtl_cmd_bind_uniform
<1>14. CASE mtl_unmodelled
  BY <1>14, MemorySame DEF mtl_unmodelled
<1> QED BY <1>7, <1>8, <1>9, <1>10, <1>11, <1>12, <1>13, <1>14 DEF Records

LEMMA MemoryStep ==
  TypeInv /\ Moves => MemoryTyped'
<1> SUFFICES ASSUME TypeInv, MemoryTyped, Moves PROVE MemoryTyped'
  BY DEF TypeInv
<1>1. RingTyped /\ MeantTyped /\ AddressTyped /\ OffsetsTyped /\ BoundTyped
  BY DEF MemoryTyped
<1>2. CASE Recording
  BY <1>2, VkRecordsTyped, DxRecordsTyped, MtlRecordsTyped DEF Recording, TypeInv, CountersTyped
<1>3. CASE VkBegins
  <2>1. RingTyped' /\ MeantTyped'
    BY <1>1, <1>3, Zero, ResetTyped DEF VkBegins
  <2> QED BY <1>1, <1>3, <2>1 DEF VkBegins, MemoryTyped, AddressTyped, OffsetsTyped, BoundTyped
<1>4. CASE DxBegins
  <2>1. RingTyped' /\ MeantTyped'
    BY <1>1, <1>4, ResetTyped DEF DxBegins, TypeInv, CountersTyped
  <2>2. AddressTyped' /\ BoundTyped'
    BY <1>4, PlacesAre DEF DxBegins, AddressTyped, BoundTyped
  <2> QED BY <1>1, <1>4, <2>1, <2>2 DEF DxBegins, MemoryTyped, OffsetsTyped
<1>5. CASE MtlBegins
  <2>1. AddressTyped'
    BY <1>5, PlacesAre DEF MtlBegins, AddressTyped
  <2> QED BY <1>1, <1>5, <2>1 DEF MtlBegins, MemoryTyped, RingTyped, MeantTyped, OffsetsTyped, BoundTyped, memory
<1>6. CASE VkRecords
  <2>1. BoundTyped'
    BY <1>6, PlacesAre DEF VkRecords, BoundTyped
  <2> QED BY <1>1, <1>6, <2>1 DEF VkRecords, MemoryTyped, RingTyped, MeantTyped, OffsetsTyped, AddressTyped, memory
<1>7. CASE DxStages
  <2>1. head \in Cells /\ frameIndex \in Rings /\ stores \in Nat
    BY <1>1, <1>7, HeadCell DEF DxStages, RingTyped, TypeInv, CountersTyped
  <2>2. \A n : Stage(n) => head' = head + 1 /\ ring' = [ring EXCEPT ![frameIndex][head] = n]
    BY DEF Stage
  <2>3. PICK n \in Nat : /\ head' = head + 1 /\ ring' = [ring EXCEPT ![frameIndex][head] = n]
                         /\ stores' \in {stores, stores + 1}
    <3>1. CASE Stage(0) /\ UNCHANGED stores
      BY <2>2, <3>1
    <3>2. CASE Stage(stores + 1) /\ stores' = stores + 1
      BY <2>1, <2>2, <3>2
    <3> QED BY <1>7, <3>1, <3>2 DEF DxStages
  <2>4. head' \in 0 .. RingCells /\ stores' \in Nat
    BY <2>1, <2>3, RenderThreadAssumption DEF Cells
  <2>5. RingTyped'
    BY <1>1, <2>3, <2>4 DEF RingTyped
  <2>6. AddressTyped'
    <3>1. UNCHANGED address \/ \E b : address' = [address EXCEPT ![b] = <<frameIndex, head>>]
      BY <1>7 DEF DxStages
    <3> QED BY <1>1, <2>1, <3>1, PlacesAre DEF AddressTyped
  <2> QED BY <1>1, <1>7, <2>5, <2>6 DEF DxStages, MemoryTyped, MeantTyped, OffsetsTyped, BoundTyped
<1>8. CASE UNCHANGED <<memory, slots, dynamicOffsets>>
  BY <1>8, MemorySame
<1> QED BY <1>2, <1>3, <1>4, <1>5, <1>6, <1>7, <1>8 DEF Moves, FrameMoves, OtherMoves, Quiet, bindings,
  MtlRecords, Closes, VkSubmits, DxSubmits, DxPresents, MtlPresents, MtlEnds,
  Makes, StartsCopy, EndsCopy, HandsOut, Finishes, Finish, Resizes, Redraws, ShutsDown

LEMMA TypeStep == TypeInv /\ Moves => TypeInv'
BY ListStep, QueueStep, CountersStep, ObjectsStep, PlaceStep, MemoryStep DEF TypeInv

LEMMA TypeInit == Init => TypeInv
<1> SUFFICES ASSUME Init PROVE TypeInv
  OBVIOUS
<1> USE DEF Init, InitShared, vk_init, dx_init, mtl_init
<1>1. PlaceInv
  BY ScriptShape DEF PlaceInv, last
<1>2. ListTyped
  BY DEF ListTyped, Empty
<1>3. CountersTyped
  BY Zero, PluginsAssumption DEF CountersTyped
<1>4. ObjectsTyped
  BY DEF ObjectsTyped
<1>5. RingTyped
  BY RenderThreadAssumption DEF RingTyped
<1>6. MeantTyped /\ AddressTyped /\ OffsetsTyped /\ BoundTyped
  BY PlacesAre, Zero DEF MeantTyped, AddressTyped, OffsetsTyped, BoundTyped
<1>7. queue \in Seq(Work)
  OBVIOUS
<1> QED BY <1>1, <1>2, <1>3, <1>4, <1>5, <1>6, <1>7 DEF TypeInv, MemoryTyped

\* A step that changes nothing is a quiet one.
LEMMA StutterMoves == UNCHANGED vars => Moves
BY DEF vars, shared, vkVars, dxVars, mtlVars, Moves, Quiet, Staying, counters, bindings

-----------------------------------------------------------------------------
(* The queue *)

LEMMA Queue ==
  queue \in Seq(Work) =>
    /\ Len(queue) \in Nat /\ DOMAIN queue = 1 .. Len(queue)
    /\ \A i \in DOMAIN queue : queue[i] \in Work
    /\ Frames \subseteq DOMAIN queue
BY LenProperties, ElementOfSeq DEF Frames

LEMMA Appended ==
  ASSUME NEW e, queue \in Seq(Work), queue' = Append(queue, e), queue' \in Seq(Work)
  PROVE  /\ Len(queue') = Len(queue) + 1
         /\ DOMAIN queue' = DOMAIN queue \cup {Len(queue) + 1}
         /\ Len(queue) + 1 \notin DOMAIN queue
         /\ \A i \in DOMAIN queue : queue'[i] = queue[i]
         /\ queue'[Len(queue) + 1] = e
         /\ Outstanding' = Outstanding \cup {e}
         /\ Frames' = IF e.kind = "frame" THEN Frames \cup {Len(queue) + 1} ELSE Frames
<1>1. Len(queue) \in Nat /\ DOMAIN queue = 1 .. Len(queue)
  BY Queue
<1>2. /\ Len(queue') = Len(queue) + 1
      /\ \A i \in 1 .. Len(queue) : queue'[i] = queue[i]
      /\ queue'[Len(queue) + 1] = e
  BY AppendProperties
<1>3. DOMAIN queue' = 1 .. Len(queue) + 1
  BY <1>2, LenProperties
<1>4. DOMAIN queue' = DOMAIN queue \cup {Len(queue) + 1} /\ Len(queue) + 1 \notin DOMAIN queue
  BY <1>1, <1>3
<1>5. Outstanding' = Outstanding \cup {e}
  BY <1>1, <1>2, <1>4 DEF Outstanding
<1>6. Frames' = IF e.kind = "frame" THEN Frames \cup {Len(queue) + 1} ELSE Frames
  BY <1>1, <1>2, <1>4 DEF Frames
<1> QED BY <1>1, <1>2, <1>4, <1>5, <1>6

LEMMA Shifted ==
  ASSUME queue \in Seq(Work), queue # <<>>, queue' = Tail(queue)
  PROVE  /\ 1 \in DOMAIN queue /\ Head(queue) = queue[1]
         /\ \A i \in DOMAIN queue' : i + 1 \in DOMAIN queue /\ queue'[i] = queue[i + 1] /\ i \in Nat
         /\ \A i \in DOMAIN queue : i = 1 \/ (i - 1 \in DOMAIN queue' /\ queue'[i - 1] = queue[i])
         /\ Outstanding' \subseteq Outstanding
         /\ \A work \in Outstanding : work = Head(queue) \/ work \in Outstanding'
         /\ \A i \in Frames' : i + 1 \in Frames
         /\ \A i \in Frames : i = 1 \/ i - 1 \in Frames'
<1>1. Len(queue) \in Nat /\ DOMAIN queue = 1 .. Len(queue) /\ Len(queue) > 0
  BY Queue, EmptySeq
<1>2. /\ queue' \in Seq(Work) /\ Len(queue') = Len(queue) - 1
      /\ \A i \in 1 .. Len(queue) - 1 : queue'[i] = queue[i + 1]
  BY HeadTailProperties
<1>3. DOMAIN queue' = 1 .. Len(queue) - 1
  BY <1>2, LenProperties
<1>4. 1 \in DOMAIN queue /\ Head(queue) = queue[1]
  BY <1>1
<1>5. \A i \in DOMAIN queue' : i + 1 \in DOMAIN queue /\ queue'[i] = queue[i + 1] /\ i \in Nat
  BY <1>1, <1>2, <1>3
<1>6. ASSUME NEW i \in DOMAIN queue, i # 1
      PROVE  i - 1 \in DOMAIN queue' /\ queue'[i - 1] = queue[i]
  <2>1. i - 1 \in DOMAIN queue' /\ (i - 1) + 1 = i
    BY <1>1, <1>3, <1>6
  <2> QED BY <1>2, <1>3, <2>1
<1>7. Outstanding' \subseteq Outstanding /\ \A work \in Outstanding : work = Head(queue) \/ work \in Outstanding'
  BY <1>4, <1>5, <1>6 DEF Outstanding
<1>8. (\A i \in Frames' : i + 1 \in Frames) /\ \A i \in Frames : i = 1 \/ i - 1 \in Frames'
  BY <1>5, <1>6 DEF Frames
<1> QED BY <1>4, <1>5, <1>6, <1>7, <1>8

LEMMA Same ==
  /\ UNCHANGED <<draws, call>> => stage' = stage
  /\ UNCHANGED queue => Outstanding' = Outstanding /\ Frames' = Frames /\ FramesUnderWay' = FramesUnderWay
BY DEF stage, last, Outstanding, Frames, FramesUnderWay

-----------------------------------------------------------------------------
(* The invariants of the frames under way *)

LEMMA ListInvStep == TypeInv /\ ListInv /\ Moves => ListInv'
<1> SUFFICES ASSUME stage \in Nat, CountersTyped, ListInv, Moves PROVE ListInv'
  BY StageIs DEF TypeInv
<1> USE DEF ListInv, Moves
<1>1. CASE UNCHANGED <<list, cmdBuffer, stage>>
  BY <1>1
<1>2. CASE Quiet
  BY <1>2, Same DEF Quiet, Going, Staying
<1>3. CASE Recording
  <2>1. list'.fills = list.fills /\ list'.open = list.open /\ cmdBuffer' = cmdBuffer
        /\ stage = 4 /\ stage' \in {4, 5} /\ (plugin = "metal" => list'.uses = list.uses)
    BY <1>3 DEF Recording
  <2> QED BY <2>1
<1>4. CASE VkBegins \/ MtlBegins \/ DxBegins
  BY <1>4 DEF VkBegins, MtlBegins, DxBegins, Going, Empty
<1>5. CASE VkRecords
  BY <1>5 DEF VkRecords, Going, Empty
<1>12. CASE MtlRecords
  <2>1. /\ plugin = "metal" /\ plugin' = "metal" /\ cmdBuffer'
        /\ list' = [Empty EXCEPT !.open = TRUE]
    BY <1>12 DEF MtlRecords
  <2>2. list'.fills = {} /\ list'.uses = {} /\ list'.reads = {}
    BY <2>1 DEF Empty
  <2> QED BY <2>1, <2>2
<1>6. CASE Closes
  <2>1. list' = [list EXCEPT !.open = FALSE]
    BY <1>6 DEF Closes
  <2>2. list'.fills = list.fills /\ list'.uses = list.uses /\ list'.reads = list.reads
    BY <2>1
  <2> QED BY <1>6, <2>2 DEF Closes, Going
<1>7. CASE VkSubmits \/ DxSubmits
  BY <1>7 DEF VkSubmits, DxSubmits, Going, Empty
<1>8. CASE MtlPresents
  BY <1>8 DEF MtlPresents, Going, Empty
<1>9. CASE DxPresents \/ MtlEnds
  BY <1>9 DEF DxPresents, MtlEnds, Going
<1>10. CASE Makes \/ StartsCopy \/ EndsCopy \/ HandsOut \/ Redraws \/ ShutsDown \/ Finishes \/ Resizes
  BY <1>10, <1>1, Same DEF Makes, StartsCopy, EndsCopy, HandsOut, Redraws, ShutsDown, Finishes, Finish, Resizes, Staying
<1>11. CASE DxStages
  <2>1. plugin = "d3d12" /\ plugin' = plugin /\ stage' = stage
    BY <1>11, Same DEF DxStages
  <2>2. CASE list.open
    <3>1. stage \in 2 .. 6
      BY <2>1, <2>2
    <3> QED BY <2>1, <3>1
  <2>3. CASE ~list.open
    <3>1. UNCHANGED list
      BY <1>11, <2>3 DEF DxStages
    <3> QED BY <2>1, <3>1
  <2> QED BY <2>2, <2>3
<1> QED BY <1>2, <1>3, <1>4, <1>5, <1>12, <1>6, <1>7, <1>8, <1>9, <1>10, <1>11 DEF FrameMoves, OtherMoves

LEMMA FenceInvStep == TypeInv /\ FenceInv /\ Moves => FenceInv'
<1> SUFFICES ASSUME stage \in Nat, queue \in Seq(Work), queue' \in Seq(Work), ListTyped, FenceInv, Moves,
                    plugin = "vulkan", plugin' = "vulkan"
             PROVE  FenceInv'
  <2>1. TypeInv /\ Moves => queue' \in Seq(Work) /\ stage \in Nat /\ queue \in Seq(Work)
    BY QueueStep, StageIs DEF TypeInv
  <2> QED BY <2>1 DEF TypeInv, FenceInv, Moves
<1> USE DEF FenceInv
<1>1. CASE Quiet
  BY <1>1, Same DEF Quiet, Going, Staying, gpu
<1>2. CASE Recording
  BY <1>2, Same DEF Recording, gpu
<1>3. CASE VkBegins \/ VkRecords \/ Closes
  BY <1>3, Same DEF VkBegins, VkRecords, Closes, Going, gpu
<1>4. CASE VkSubmits
  <2>1. PICK e : queue' = Append(queue, e) /\ e.kind = "frame"
    BY <1>4 DEF VkSubmits, Submit
  <2>2. Frames' = Frames \cup {Len(queue) + 1}
    BY <2>1, Appended
  <2>3. stage = 6 /\ stage' = 7 /\ fence' = fence
    BY <1>4 DEF VkSubmits, Going
  <2> QED BY <2>2, <2>3
<1>5. CASE StartsCopy
  <2>1. PICK e : queue' = Append(queue, e) /\ e.kind = "copy"
    BY <1>5 DEF StartsCopy, SubmitCopy, Submit
  <2>2. Frames' = Frames
    BY <2>1, Appended
  <2> QED BY <1>5, <2>2, Same DEF StartsCopy
<1>6. CASE Makes \/ EndsCopy \/ HandsOut \/ ShutsDown \/ Resizes
  BY <1>6, Same DEF Makes, EndsCopy, HandsOut, ShutsDown, Resizes, Staying, gpu
<1>7. CASE Finishes
  <2>1. /\ queue # <<>> /\ queue' = Tail(queue)
        /\ fence' => fence \/ Head(queue).kind = "frame"
    BY <1>7 DEF Finishes, Finish
  <2>2. stage' = stage
    BY <1>7, Same DEF Finishes, Finish
  <2>3. /\ \A i \in Frames' : i + 1 \in Frames /\ i \in Nat
        /\ 1 \in DOMAIN queue /\ Head(queue) = queue[1]
    BY <2>1, Shifted DEF Frames
  <2>4. \A i, j \in Frames' : i = j
    <3> SUFFICES ASSUME NEW i \in Frames', NEW j \in Frames' PROVE i = j
      OBVIOUS
    <3>1. i + 1 = j + 1 /\ i \in Nat /\ j \in Nat
      BY <2>3
    <3> QED BY <3>1
  <2>5. Frames = {} => Frames' = {}
    BY <2>3
  <2>6. Head(queue).kind = "frame" => Frames' = {}
    <3> SUFFICES ASSUME Head(queue).kind = "frame", NEW i \in Frames' PROVE FALSE
      OBVIOUS
    <3>1. 1 \in Frames
      BY <2>3 DEF Frames
    <3>2. i + 1 = 1 /\ i \in Nat /\ i # 0
      BY <2>3, <3>1, Queue DEF Frames
    <3> QED BY <3>2
  <2>7. Head(queue).kind = "frame" => Frames # {}
    BY <2>3 DEF Frames
  <2> QED BY <2>1, <2>2, <2>4, <2>5, <2>6, <2>7
<1>8. ~DxBegins /\ ~MtlBegins /\ ~MtlRecords /\ ~DxSubmits /\ ~DxPresents /\ ~MtlPresents /\ ~MtlEnds
      /\ ~DxStages /\ ~Redraws
  BY DEF DxBegins, MtlBegins, MtlRecords, DxSubmits, DxPresents, MtlPresents, MtlEnds, DxStages, Redraws
<1> QED BY <1>1, <1>2, <1>3, <1>4, <1>5, <1>6, <1>7, <1>8 DEF Moves, FrameMoves, OtherMoves

\* Moving a set of numbers by one changes nothing of their number.
LEMMA ShiftCardinality ==
  ASSUME NEW S, NEW T, IsFiniteSet(S), S \subseteq Int, T \subseteq Int,
         \A i \in S : i - 1 \in T, \A j \in T : j + 1 \in S
  PROVE  IsFiniteSet(T) /\ Cardinality(T) = Cardinality(S)
<1> DEFINE f == [i \in S |-> i - 1]
<1>1. f \in Bijection(S, T)
  <2>1. f \in [S -> T] /\ \A i, j \in S : f[i] = f[j] => i = j
    OBVIOUS
  <2>2. \A j \in T : \E i \in S : f[i] = j
    <3> SUFFICES ASSUME NEW j \in T PROVE \E i \in S : f[i] = j
      OBVIOUS
    <3>1. j + 1 \in S /\ (j + 1) - 1 = j
      OBVIOUS
    <3> QED BY <3>1
  <2> QED BY <2>1, <2>2 DEF Bijection, Injection, Surjection, IsInjective
<1>2. ExistsBijection(S, T)
  BY <1>1 DEF ExistsBijection
<1> QED BY <1>2, FS_Bijection

LEMMA FramesFinite ==
  queue \in Seq(Work) => IsFiniteSet(Frames) /\ FramesUnderWay \in Nat /\ FramesUnderWay = Cardinality(Frames)
<1> SUFFICES ASSUME queue \in Seq(Work)
             PROVE  IsFiniteSet(Frames) /\ FramesUnderWay \in Nat /\ FramesUnderWay = Cardinality(Frames)
  OBVIOUS
<1>1. Frames \subseteq 1 .. Len(queue) /\ Len(queue) \in Nat
  BY Queue
<1>2. IsFiniteSet(1 .. Len(queue))
  BY <1>1, FS_Interval
<1>3. IsFiniteSet(Frames)
  BY <1>1, <1>2, FS_Subset
<1>4. FramesUnderWay = Cardinality(Frames)
  BY DEF FramesUnderWay, Frames
<1> QED BY <1>3, <1>4, FS_CardinalityType

\* A submission adds a frame or none; the GPU takes off a frame or none.
LEMMA CountAppended ==
  ASSUME NEW e, queue \in Seq(Work), queue' = Append(queue, e), queue' \in Seq(Work)
  PROVE  FramesUnderWay' = IF e.kind = "frame" THEN FramesUnderWay + 1 ELSE FramesUnderWay
<1>1. /\ Frames' = IF e.kind = "frame" THEN Frames \cup {Len(queue) + 1} ELSE Frames
      /\ Len(queue) + 1 \notin Frames
  BY Appended DEF Frames
<1>2. IsFiniteSet(Frames) /\ FramesUnderWay = Cardinality(Frames)
  BY FramesFinite
<1>3. FramesUnderWay' = Cardinality(Frames')
  BY FramesFinite DEF FramesUnderWay, Frames
<1> QED BY <1>1, <1>2, <1>3, FS_AddElement

LEMMA CountShifted ==
  ASSUME queue \in Seq(Work), queue # <<>>, queue' = Tail(queue)
  PROVE  FramesUnderWay' = IF Head(queue).kind = "frame" THEN FramesUnderWay - 1 ELSE FramesUnderWay
<1>1. /\ \A i \in Frames' : i + 1 \in Frames /\ i + 1 # 1 /\ i \in Int
      /\ \A i \in Frames : i = 1 \/ i - 1 \in Frames'
      /\ 1 \in Frames <=> Head(queue).kind = "frame"
  <2>1. queue' \in Seq(Work)
    BY HeadTailProperties
  <2>2. \A i \in DOMAIN queue' : i \in Nat /\ i # 0
    <3>1. DOMAIN queue' = 1 .. Len(queue') /\ Len(queue') \in Nat
      BY <2>1, LenProperties
    <3> QED BY <3>1
  <2> QED BY <2>2, Shifted DEF Frames
<1>2. IsFiniteSet(Frames) /\ FramesUnderWay = Cardinality(Frames) /\ FramesUnderWay \in Nat
      /\ Frames \subseteq Int
  BY FramesFinite, Queue
<1>3. FramesUnderWay' = Cardinality(Frames')
  BY DEF FramesUnderWay, Frames
<1> DEFINE S == Frames \ {1}
<1>4. IsFiniteSet(S) /\ Cardinality(S) = IF 1 \in Frames THEN Cardinality(Frames) - 1 ELSE Cardinality(Frames)
  BY <1>2, FS_RemoveElement
<1>5. Cardinality(Frames') = Cardinality(S)
  <2>1. S \subseteq Int /\ Frames' \subseteq Int /\ (\A i \in S : i - 1 \in Frames') /\ \A j \in Frames' : j + 1 \in S
    BY <1>1, <1>2
  <2> HIDE DEF S
  <2> QED BY <1>4, <2>1, ShiftCardinality
<1> QED BY <1>1, <1>2, <1>3, <1>4, <1>5

LEMMA CountInvStep == TypeInv /\ ListInv /\ CountInv /\ Moves => CountInv'
<1> SUFFICES ASSUME TypeInv, stage \in Nat, queue \in Seq(Work), queue' \in Seq(Work), ListInv, CountInv, Moves,
                    begun \in Nat, retired \in Nat, plugin' = plugin, CountersTyped,
                    FramesUnderWay \in Nat
             PROVE  CountInv'
  <2>1. TypeInv /\ Moves => queue' \in Seq(Work) /\ stage \in Nat /\ queue \in Seq(Work) /\ CountersTyped
    BY QueueStep, StageIs DEF TypeInv
  <2> QED BY <2>1, FramesFinite DEF Moves, CountersTyped
<1> USE DEF CountInv, Pending
<1>1. ASSUME Frames' = Frames, UNCHANGED <<begun, retired>>, FramesUnderWay' = FramesUnderWay, stage' = stage
      PROVE  CountInv'
  BY <1>1
<1>2. CASE Quiet
  <2>1. UNCHANGED <<begun, retired, queue>>
    BY <1>2 DEF Quiet, gpu
  <2>2. \/ stage' = stage \/ (stage = 0 /\ stage' = 1) \/ (stage = 1 /\ stage' = 0)
        \/ (stage = 2 /\ stage' = 3)
        \/ plugin = "d3d12" /\ ((stage = 3 /\ stage' = 4) \/ (stage = 8 /\ stage' = 0))
        \/ plugin = "vulkan" /\ ((stage = 7 /\ stage' = 8) \/ (stage = 8 /\ stage' = 0))
        \/ plugin = "metal" /\ ((stage = 5 /\ stage' = 6) \/ (stage = 6 /\ stage' = 7))
    BY <1>2, Same DEF Quiet, Going, Staying
  <2> QED BY <2>1, <2>2, Same
<1>3. CASE Recording
  BY <1>3, Same DEF Recording, gpu
<1>4. CASE VkBegins \/ DxBegins \/ MtlBegins
  BY <1>4, Same DEF VkBegins, DxBegins, MtlBegins, gpu, Going
<1>5. CASE VkRecords \/ MtlRecords \/ Closes \/ DxPresents \/ MtlEnds
  BY <1>5, Same DEF VkRecords, MtlRecords, Closes, DxPresents, MtlEnds, gpu, Going
<1>6. CASE VkSubmits \/ DxSubmits
  <2>1. PICK e : queue' = Append(queue, e) /\ e.kind = "frame"
    BY <1>6 DEF VkSubmits, DxSubmits, Submit
  <2>2. FramesUnderWay' = FramesUnderWay + 1
    BY <2>1, CountAppended
  <2>3. stage = 6 /\ stage' = 7 /\ UNCHANGED <<begun, retired>> /\ plugin # "metal"
    BY <1>6 DEF VkSubmits, DxSubmits, Going
  <2> QED BY <2>2, <2>3
<1>7. CASE MtlPresents
  <2>1. stage = 7 /\ stage' = 8 /\ UNCHANGED <<begun, retired>> /\ plugin = "metal"
    BY <1>7 DEF MtlPresents, Going
  <2>2. cmdBuffer
    BY <2>1 DEF ListInv
  <2>3. PICK e : queue' = Append(queue, e) /\ e.kind = "frame"
    BY <1>7, <2>2 DEF MtlPresents, Submit
  <2>4. FramesUnderWay' = FramesUnderWay + 1
    BY <2>3, CountAppended
  <2> QED BY <2>1, <2>4
<1>8. CASE Makes \/ EndsCopy \/ HandsOut \/ Redraws \/ ShutsDown \/ Resizes \/ DxStages
  BY <1>8, Same DEF Makes, EndsCopy, HandsOut, Redraws, ShutsDown, Resizes, DxStages, Staying, gpu
<1>9. CASE StartsCopy
  <2>1. PICK e : queue' = Append(queue, e) /\ e.kind = "copy"
    BY <1>9 DEF StartsCopy, SubmitCopy, Submit
  <2>2. FramesUnderWay' = FramesUnderWay
    BY <2>1, CountAppended
  <2> QED BY <1>9, <2>2, Same DEF StartsCopy
<1>10. CASE Finishes
  <2>1. /\ queue # <<>> /\ queue' = Tail(queue) /\ begun' = begun
        /\ retired' = IF Head(queue).kind = "frame" THEN retired + 1 ELSE retired
    BY <1>10 DEF Finishes, Finish
  <2>2. FramesUnderWay' = IF Head(queue).kind = "frame" THEN FramesUnderWay - 1 ELSE FramesUnderWay
    BY <2>1, CountShifted
  <2>3. stage' = stage
    BY <1>10, Same DEF Finishes, Finish
  <2> QED BY <2>1, <2>2, <2>3
<1> QED BY <1>2, <1>3, <1>4, <1>5, <1>6, <1>7, <1>8, <1>9, <1>10 DEF Moves, FrameMoves, OtherMoves

\* Contents that are on their way stay so.
LEMMA FillingGrows == TypeInv /\ ListInv /\ Moves => Filling \subseteq Filling'
<1> SUFFICES ASSUME stage \in Nat, queue \in Seq(Work), queue' \in Seq(Work), ListInv, Moves, ListTyped,
                    CountersTyped
             PROVE  Filling \subseteq Filling'
  <2>1. TypeInv /\ Moves => queue' \in Seq(Work) /\ stage \in Nat /\ queue \in Seq(Work) /\ ListTyped
                            /\ CountersTyped
    BY QueueStep, StageIs DEF TypeInv
  <2> QED BY <2>1
<1> USE DEF Filling
<1>1. ASSUME Outstanding' = Outstanding, filled \subseteq filled', list.fills \subseteq list'.fills
      PROVE  Filling \subseteq Filling'
  BY <1>1
<1>2. CASE Quiet \/ Recording
  BY <1>1, <1>2, Same DEF Quiet, Recording, gpu
<1>3. CASE VkBegins \/ MtlBegins \/ DxPresents \/ MtlEnds
  BY <1>1, <1>3, Same DEF VkBegins, MtlBegins, DxPresents, MtlEnds, gpu
<1>4. CASE DxBegins \/ VkRecords \/ MtlRecords
  <2>1. list.fills = {}
    BY <1>4 DEF ListInv, DxBegins, VkRecords, MtlRecords, Going
  <2> QED BY <1>1, <1>4, <2>1, Same DEF DxBegins, VkRecords, MtlRecords, gpu
<1>5. CASE Closes
  <2>1. list'.fills = list.fills
    BY <1>5 DEF Closes
  <2> QED BY <1>1, <1>5, <2>1, Same DEF Closes, gpu
<1>6. CASE VkSubmits \/ DxSubmits \/ MtlPresents
  <2>1. CASE UNCHANGED <<queue, list, filled>>
    BY <1>1, <2>1, Same
  <2>2. CASE \E v : Submit("frame", list, v) /\ filled' = filled
    <3>1. PICK e : queue' = Append(queue, e) /\ e.fills = list.fills
      BY <2>2 DEF Submit
    <3>2. Outstanding' = Outstanding \cup {e}
      BY <3>1, Appended
    <3> QED BY <2>2, <3>1, <3>2
  <2> QED BY <1>6, <2>1, <2>2 DEF VkSubmits, DxSubmits, MtlPresents
<1>7. CASE Makes \/ EndsCopy \/ HandsOut \/ Redraws \/ ShutsDown \/ Resizes
  BY <1>1, <1>7, Same DEF Makes, EndsCopy, HandsOut, Redraws, ShutsDown, Resizes, gpu
<1>8. CASE DxStages
  <2>1. list.fills \subseteq list'.fills
    BY <1>8 DEF DxStages, ListTyped
  <2> QED BY <1>1, <1>8, <2>1, Same DEF DxStages, gpu
<1>9. CASE StartsCopy
  <2>1. PICK e : queue' = Append(queue, e)
    BY <1>9 DEF StartsCopy, SubmitCopy, Submit
  <2>2. Outstanding' = Outstanding \cup {e}
    BY <2>1, Appended
  <2> QED BY <1>9, <2>2 DEF StartsCopy
<1>10. CASE Finishes
  <2>1. /\ queue # <<>> /\ queue' = Tail(queue) /\ list' = list
        /\ filled' = filled \cup Head(queue).fills
    BY <1>10 DEF Finishes, Finish
  <2>2. \A work \in Outstanding : work = Head(queue) \/ work \in Outstanding'
    BY <2>1, Shifted
  <2> QED BY <2>1, <2>2
<1> QED BY <1>2, <1>3, <1>4, <1>5, <1>6, <1>7, <1>8, <1>9, <1>10 DEF Moves, FrameMoves, OtherMoves

LEMMA FilledInvStep == TypeInv /\ ListInv /\ FilledInv /\ Moves => FilledInv'
<1> SUFFICES ASSUME FilledInv, Moves, Filling \subseteq Filling', queue \in Seq(Work), queue' \in Seq(Work),
                    ListTyped
             PROVE  FilledInv'
  BY FillingGrows, QueueStep DEF TypeInv
<1> DEFINE Coming == "texture" \in made \ lost \/ (step # "idle" /\ Resources[creating] = "texture")
<1>0. FilledInv' <=> (Coming' => "texture" \in Filling')
  BY DEF FilledInv
<1>1. ASSUME Coming' => Coming PROVE FilledInv'
  BY <1>1 DEF FilledInv
<1>2. ASSUME UNCHANGED <<creation, lost>> PROVE FilledInv'
  BY <1>1, <1>2 DEF creation
<1>3. CASE Quiet \/ Recording
  BY <1>2, <1>3 DEF Quiet, Recording, counters
<1>4. CASE FrameMoves
  BY <1>2, <1>4 DEF FrameMoves, counters, VkBegins, DxBegins, MtlBegins, VkRecords, MtlRecords, Closes,
     VkSubmits, DxSubmits, DxPresents, MtlPresents, MtlEnds
<1>5. CASE Redraws \/ ShutsDown \/ Resizes \/ Finishes
  BY <1>2, <1>5 DEF Redraws, ShutsDown, Resizes, Finishes, Finish, counters
<1>6. CASE Makes
  <2>1. CASE Made /\ Resources[creating] # "texture" /\ UNCHANGED filled
    BY <1>1, <1>6, <2>1 DEF Makes, Made, counters
  <2>2. CASE filled' = filled \cup {"texture"}
    BY <1>0, <2>2 DEF Filling
  <2>3. CASE UNCHANGED <<made, filled>>
    BY <1>1, <1>6, <2>3 DEF Makes, counters
  <2> QED BY <1>6, <2>1, <2>2, <2>3 DEF Makes
<1>7. CASE StartsCopy
  <2>1. CASE Resources[creating] = "texture"
    <3>1. PICK e : queue' = Append(queue, e) /\ "texture" \in e.fills
      BY <1>7, <2>1 DEF StartsCopy, SubmitCopy, Submit
    <3>2. e \in Outstanding'
      BY <3>1, Appended
    <3> QED BY <1>0, <3>1, <3>2 DEF Filling
  <2>2. CASE Resources[creating] # "texture"
    BY <1>1, <1>7, <2>2 DEF StartsCopy, counters
  <2> QED BY <2>1, <2>2
<1>8. CASE EndsCopy \/ HandsOut
  BY <1>1, <1>8 DEF EndsCopy, HandsOut, Made, counters
<1>9. CASE DxStages
  <2>1. CASE list.open /\ Resources[creating] = "texture"
    <3>1. CASE "texture" \in list'.fills
      BY <1>0, <3>1 DEF Filling
    <3>2. CASE UNCHANGED <<list, lost>> /\ Resources[creating] \in Uniforms
      BY <2>1, <3>2 DEF Uniforms
    <3> QED BY <1>9, <2>1, <3>1, <3>2 DEF DxStages, ListTyped
  <2>2. CASE ~list.open /\ Resources[creating] = "texture"
    <3>1. "texture" \notin (made \ lost)' /\ step' = "idle"
      BY <1>9, <2>2 DEF DxStages, Made, Uniforms
    <3> QED BY <1>0, <3>1
  <2>3. CASE Resources[creating] # "texture"
    BY <1>1, <1>9, <2>3 DEF DxStages, Made
  <2> QED BY <2>1, <2>2, <2>3
<1> QED BY <1>3, <1>4, <1>5, <1>6, <1>7, <1>8, <1>9 DEF Moves, OtherMoves

\* What a present does to the ages.
LEMMA AgeIs ==
  CountersTyped => /\ \A r \in Rings : Age(r) \in 1 .. FrameCount
                   /\ Age(current) = FrameCount
BY RenderThreadAssumption DEF CountersTyped, Rings, Age

LEMMA AgeIsNext ==
  ASSUME CountersTyped'
  PROVE  \A r \in Rings : Age(r)' \in 1 .. FrameCount
<1>1. current' \in Rings
  BY DEF CountersTyped
<1>2. \A r, c \in Rings : (IF r < c THEN c - r ELSE (c - r) + FrameCount) \in 1 .. FrameCount
  BY RenderThreadAssumption DEF Rings
<1> QED BY <1>1, <1>2 DEF Age

LEMMA AgeSteps ==
  CountersTyped /\ current' = (current + 1) % FrameCount =>
    \A r \in Rings : Age(r)' = IF r = current THEN 1 ELSE Age(r) + 1
<1> SUFFICES ASSUME current \in Rings, current' = (current + 1) % FrameCount, NEW r \in Rings
             PROVE  Age(r)' = IF r = current THEN 1 ELSE Age(r) + 1
  BY DEF CountersTyped
<1>1. current' = IF current + 1 = FrameCount THEN 0 ELSE current + 1
  BY Next_Ring
<1> QED BY <1>1, RenderThreadAssumption DEF Rings, Age

\* The conjuncts of ValuesInv
Threshold == IF stage = 7 THEN signalled ELSE signalled + 1
InOrder ==
  /\ \A i \in Frames : completed < queue[i].value /\ queue[i].value <= signalled
  /\ \A i, j \in Frames : i < j => queue[i].value < queue[j].value
  /\ completed = signalled \/ \E i \in Frames : queue[i].value = signalled
  /\ completed <= signalled
  /\ \A r \in Rings : fenceValue[r] <= signalled
InUse ==
  /\ stage \in 2 .. 7 => frameIndex = current
  /\ stage = 7 => fenceValue[current] = signalled
Recent ==
  \A r \in Rings : fenceValue[r] + Age(r) >= Threshold \/ completed + Age(r) >= Threshold

LEMMA ValuesAre == ValuesInv <=> (plugin = "d3d12" => InOrder /\ InUse /\ Recent)
BY DEF ValuesInv, InOrder, InUse, Recent, Threshold

LEMMA InOrderStep == TypeInv /\ InOrder /\ plugin = "d3d12" /\ Moves => InOrder'
<1> SUFFICES ASSUME queue \in Seq(Work), queue' \in Seq(Work), CountersTyped, CountersTyped',
                    InOrder, plugin = "d3d12", Moves
             PROVE  InOrder'
  BY QueueStep, CountersStep DEF TypeInv
<1>0. /\ \A i \in DOMAIN queue : i \in Nat /\ queue[i].value \in Nat
      /\ \A i \in DOMAIN queue' : i \in Nat /\ queue'[i].value \in Nat
  <2>1. DOMAIN queue' = 1 .. Len(queue') /\ Len(queue') \in Nat /\ \A i \in DOMAIN queue' : queue'[i] \in Work
    BY LenProperties, ElementOfSeq
  <2>2. DOMAIN queue = 1 .. Len(queue) /\ Len(queue) \in Nat /\ \A i \in DOMAIN queue : queue[i] \in Work
    BY Queue
  <2> QED BY <2>1, <2>2 DEF Work
<1>1. ASSUME UNCHANGED <<queue, completed, signalled, fenceValue>> PROVE InOrder'
  BY <1>1, Same DEF InOrder
<1>2. CASE Quiet \/ Recording
  BY <1>1, <1>2 DEF Quiet, Recording, counters, gpu
<1>3. CASE DxBegins \/ Closes \/ DxPresents
  BY <1>1, <1>3 DEF DxBegins, Closes, DxPresents, counters, gpu
<1>4. CASE DxSubmits
  <2>1. PICK e : queue' = Append(queue, e) /\ e.kind = "frame" /\ e.value = signalled + 1
    BY <1>4 DEF DxSubmits, Submit
  <2>2. /\ Frames' = Frames \cup {Len(queue) + 1} /\ Len(queue) + 1 \notin DOMAIN queue
        /\ \A i \in Frames : queue'[i] = queue[i] /\ i < Len(queue) + 1 /\ i \in Nat /\ queue[i].value \in Nat
        /\ queue'[Len(queue) + 1].value = signalled + 1 /\ Len(queue) + 1 \in Nat
    BY <1>0, <2>1, Appended, Queue DEF Frames
  <2>3. /\ signalled' = signalled + 1 /\ completed' = completed
        /\ \A r \in Rings : fenceValue'[r] \in {fenceValue[r], signalled + 1}
    BY <1>4 DEF DxSubmits, CountersTyped
  <2>4. \A i \in Frames' : completed' < queue'[i].value /\ queue'[i].value <= signalled'
    <3> SUFFICES ASSUME NEW i \in Frames'
                 PROVE  completed < queue'[i].value /\ queue'[i].value <= signalled + 1
      BY <2>3
    <3>0. signalled \in Nat /\ completed \in Nat /\ completed <= signalled
      BY DEF CountersTyped, InOrder
    <3>1. CASE i \in Frames
      <4>1. completed < queue[i].value /\ queue[i].value <= signalled
        BY <3>1 DEF InOrder
      <4> QED BY <2>2, <3>0, <3>1, <4>1
    <3>2. CASE i = Len(queue) + 1
      <4>1. queue'[i].value = signalled + 1
        BY <2>2, <3>2
      <4> QED BY <3>0, <4>1
    <3> QED BY <2>2, <3>1, <3>2
  <2>5. \A i, j \in Frames' : i < j => queue'[i].value < queue'[j].value
    <3> SUFFICES ASSUME NEW i \in Frames', NEW j \in Frames', i < j
                 PROVE  queue'[i].value < queue'[j].value
      OBVIOUS
    <3>1. i \in Frames /\ queue'[i] = queue[i]
      <4>1. i # Len(queue) + 1
        BY <2>2
      <4> QED BY <2>2, <4>1
    <3>2. CASE j \in Frames
      BY <2>2, <3>1, <3>2 DEF InOrder
    <3>3. CASE j = Len(queue) + 1
      <4>1. queue[i].value <= signalled /\ queue[i].value \in Nat /\ signalled \in Nat
        BY <2>2, <3>1 DEF InOrder, CountersTyped
      <4>2. queue'[j].value = signalled + 1
        BY <2>2, <3>3
      <4> QED BY <3>1, <4>1, <4>2
    <3> QED BY <2>2, <3>2, <3>3
  <2>6. completed' = signalled' \/ \E i \in Frames' : queue'[i].value = signalled'
    BY <2>2, <2>3
  <2>7. completed' <= signalled' /\ \A r \in Rings : fenceValue'[r] <= signalled'
    BY <2>3 DEF InOrder, CountersTyped
  <2> QED BY <2>4, <2>5, <2>6, <2>7 DEF InOrder
<1>5. CASE Makes \/ EndsCopy \/ HandsOut \/ ShutsDown \/ Resizes \/ DxStages
  BY <1>1, <1>5 DEF Makes, EndsCopy, HandsOut, ShutsDown, Resizes, DxStages, gpu, counters
<1>6. CASE StartsCopy
  <2>1. PICK e : queue' = Append(queue, e) /\ e.kind = "copy"
    BY <1>6 DEF StartsCopy, SubmitCopy, Submit
  <2>2. Frames' = Frames /\ \A i \in Frames : queue'[i] = queue[i]
    BY <2>1, Appended DEF Frames
  <2> QED BY <1>6, <2>2 DEF StartsCopy, counters, InOrder
<1>7. CASE Finishes
  <2>1. /\ queue # <<>> /\ queue' = Tail(queue) /\ UNCHANGED <<signalled, fenceValue>>
        /\ completed' = IF Head(queue).kind = "frame" THEN Head(queue).value ELSE completed
    BY <1>7 DEF Finishes, Finish
  <2>2. /\ Head(queue) = queue[1] /\ 1 \in DOMAIN queue
        /\ \A i \in Frames' : i + 1 \in Frames /\ queue'[i] = queue[i + 1] /\ i \in Nat /\ i # 0
        /\ \A i \in Frames : i = 1 \/ (i - 1 \in Frames' /\ queue'[i - 1] = queue[i])
    <3>1. \A i \in Frames' : i \in Nat /\ i # 0
      BY LenProperties DEF Frames
    <3> QED BY <2>1, <3>1, Shifted DEF Frames
  <2>3. \A i \in Frames : queue[i].value \in Nat /\ i \in Nat
    BY <1>0 DEF Frames
  <2>4. \A i, j \in Frames' : i < j => queue'[i].value < queue'[j].value
    <3> SUFFICES ASSUME NEW i \in Frames', NEW j \in Frames', i < j
                 PROVE  queue'[i].value < queue'[j].value
      OBVIOUS
    <3>1. i + 1 \in Frames /\ j + 1 \in Frames /\ i + 1 < j + 1
          /\ queue'[i] = queue[i + 1] /\ queue'[j] = queue[j + 1]
      BY <2>2
    <3> QED BY <3>1 DEF InOrder
  <2>5. CASE Head(queue).kind = "frame"
    <3>1. 1 \in Frames /\ completed' = queue[1].value
      BY <2>1, <2>2, <2>5 DEF Frames
    <3>2. \A i \in Frames' : completed' < queue'[i].value /\ queue'[i].value <= signalled
      BY <2>2, <2>3, <3>1 DEF InOrder
    <3>3. \A i, j \in Frames' : i < j => queue'[i].value < queue'[j].value
      BY <2>4
    <3>4. completed' = signalled \/ \E i \in Frames' : queue'[i].value = signalled
      <4>1. completed # signalled
        BY <2>3, <3>1 DEF InOrder, CountersTyped
      <4>2. PICK i \in Frames : queue[i].value = signalled
        BY <4>1 DEF InOrder
      <4> QED BY <2>2, <3>1, <4>2
    <3>5. completed' <= signalled
      BY <3>1 DEF InOrder
    <3> QED BY <2>1, <3>2, <3>3, <3>4, <3>5 DEF InOrder
  <2>6. CASE Head(queue).kind # "frame"
    <3>1. completed' = completed /\ 1 \notin Frames
      BY <2>1, <2>2, <2>6 DEF Frames
    <3>2. \A i \in Frames' : completed' < queue'[i].value /\ queue'[i].value <= signalled
      BY <2>2, <3>1 DEF InOrder
    <3>3. \A i, j \in Frames' : i < j => queue'[i].value < queue'[j].value
      BY <2>4
    <3>4. completed' = signalled \/ \E i \in Frames' : queue'[i].value = signalled
      BY <2>2, <2>3, <3>1 DEF InOrder
    <3> QED BY <2>1, <3>1, <3>2, <3>3, <3>4 DEF InOrder
  <2> QED BY <2>5, <2>6
<1>8. ~VkBegins /\ ~VkRecords /\ ~VkSubmits /\ ~MtlBegins /\ ~MtlRecords /\ ~MtlPresents /\ ~MtlEnds /\ ~Redraws
  BY DEF VkBegins, VkRecords, VkSubmits, MtlBegins, MtlRecords, MtlPresents, MtlEnds, Redraws
<1> QED BY <1>2, <1>3, <1>4, <1>5, <1>6, <1>7, <1>8 DEF Moves, FrameMoves, OtherMoves

LEMMA ValuesInvStep == TypeInv /\ ValuesInv /\ Moves => ValuesInv'
<1> SUFFICES ASSUME stage \in Nat, CountersTyped, CountersTyped', InOrder, InOrder', InUse, Recent,
                    plugin = "d3d12", Moves, \A r \in Rings : Age(r) \in Nat \ {0}
             PROVE  InUse' /\ Recent'
  <2>1. TypeInv /\ Moves => /\ stage \in Nat /\ CountersTyped /\ CountersTyped' /\ plugin' = plugin
                            /\ \A r \in Rings : Age(r) \in Nat \ {0}
    BY StageIs, AgeIs, CountersStep, RenderThreadAssumption DEF TypeInv, Moves
  <2>2. ValuesInv' <=> (plugin' = "d3d12" => InOrder' /\ InUse' /\ Recent')
    BY ValuesAre DEF ValuesInv, InOrder, InUse, Recent, Threshold
  <2> QED BY <2>1, <2>2, InOrderStep, ValuesAre
<1> USE DEF InUse, Recent, Threshold
<1>1. ASSUME UNCHANGED current PROVE \A r \in Rings : Age(r)' = Age(r)
  BY <1>1 DEF Age
<1>2. ASSUME UNCHANGED <<current, frameIndex, fenceValue, signalled, completed>>,
             stage' = stage \/ (stage # 7 /\ stage' # 7 /\ (stage' \in 2 .. 6 => stage \in 2 .. 6))
      PROVE  InUse' /\ Recent'
  BY <1>1, <1>2
<1>3. CASE Quiet
  <2>1. \/ stage' = stage \/ (stage = 0 /\ stage' = 1) \/ (stage = 2 /\ stage' = 3)
        \/ (stage = 3 /\ stage' = 4) \/ (stage = 8 /\ stage' = 0)
    BY <1>3, Same DEF Quiet, Going, Staying
  <2> QED BY <1>2, <1>3, <2>1 DEF Quiet, counters
<1>4. CASE Recording \/ Closes
  BY <1>2, <1>4 DEF Recording, Closes, Going, counters
<1>5. CASE DxBegins
  BY <1>1, <1>5 DEF DxBegins, Going
<1>6. CASE DxSubmits
  <2>1. /\ stage = 6 /\ stage' = 7 /\ UNCHANGED <<current, frameIndex, completed>>
        /\ signalled' = signalled + 1
        /\ fenceValue' = [fenceValue EXCEPT ![frameIndex] = signalled + 1]
    BY <1>6 DEF DxSubmits, Going
  <2>2. frameIndex = current
    BY <2>1
  <2>3. \A r \in Rings : fenceValue'[r] = IF r = current THEN signalled + 1 ELSE fenceValue[r]
    BY <2>1, <2>2 DEF CountersTyped
  <2>4. InUse'
    BY <2>1, <2>2, <2>3 DEF CountersTyped
  <2>5. Recent'
    <3> SUFFICES ASSUME NEW r \in Rings
                 PROVE  fenceValue'[r] + Age(r)' >= signalled + 1 \/ completed + Age(r)' >= signalled + 1
      BY <2>1
    <3>1. Age(r)' = Age(r) /\ Age(r) \in Nat
      BY <1>1, <2>1
    <3>2. fenceValue[r] + Age(r) >= signalled + 1 \/ completed + Age(r) >= signalled + 1
      BY <2>1
    <3> QED BY <2>3, <3>1, <3>2 DEF CountersTyped
  <2> QED BY <2>4, <2>5
<1>7. CASE DxPresents
  <2>1. /\ stage = 7 /\ stage' = 8 /\ current' = (current + 1) % FrameCount
        /\ UNCHANGED <<frameIndex, fenceValue, signalled, completed>>
    BY <1>7 DEF DxPresents, Going
  <2>2. Recent'
    <3> SUFFICES ASSUME NEW r \in Rings
                 PROVE  fenceValue[r] + Age(r)' >= signalled + 1 \/ completed + Age(r)' >= signalled + 1
      BY <2>1
    <3>1. Age(r)' = IF r = current THEN 1 ELSE Age(r) + 1
      BY <2>1, AgeSteps
    <3>2. fenceValue[current] = signalled
          /\ (fenceValue[r] + Age(r) >= signalled \/ completed + Age(r) >= signalled)
      BY <2>1
    <3> QED BY <3>1, <3>2 DEF CountersTyped
  <2> QED BY <2>1, <2>2
<1>8. CASE Resizes
  <2>1. /\ stage = 0 /\ stage' = 0 /\ Idle /\ UNCHANGED <<fenceValue, signalled, completed>>
        /\ plugin = "d3d12"
    BY <1>8, Same DEF Resizes, Staying
  <2>2. completed = signalled
    BY <2>1 DEF InOrder, Frames, Idle
  <2>3. \A r \in Rings : Age(r)' \in Nat \ {0}
    <3>1. \A r \in Rings : Age(r)' \in 1 .. FrameCount
      BY AgeIsNext
    <3> QED BY <3>1, RenderThreadAssumption
  <2> QED BY <2>1, <2>2, <2>3 DEF CountersTyped
<1>9. CASE Finishes
  <2>1. UNCHANGED <<stage, frameIndex, current, fenceValue, signalled>>
    BY <1>9, Same DEF Finishes, Finish
  <2>2. completed' >= completed
    <3>1. completed' = completed \/ (queue # <<>> /\ Head(queue).kind = "frame" /\ completed' = Head(queue).value)
      BY <1>9 DEF Finishes, Finish
    <3>2. CASE queue # <<>> /\ Head(queue).kind = "frame" /\ completed' = Head(queue).value
      <4>1. 1 \in Frames /\ completed' = queue[1].value
        BY <3>2, Queue, EmptySeq DEF Frames, Finishes
      <4> QED BY <4>1 DEF InOrder, CountersTyped
    <3> QED BY <3>1, <3>2 DEF CountersTyped
  <2>3. \A r \in Rings : Age(r)' = Age(r)
    BY <1>1, <2>1
  <2> QED BY <2>1, <2>2, <2>3 DEF CountersTyped
<1>10. CASE Makes \/ StartsCopy \/ EndsCopy \/ HandsOut \/ ShutsDown \/ DxStages
  BY <1>2, <1>10, Same DEF Makes, StartsCopy, EndsCopy, HandsOut, ShutsDown, Staying, DxStages, counters
<1>11. ~VkBegins /\ ~VkRecords /\ ~VkSubmits /\ ~MtlBegins /\ ~MtlRecords /\ ~MtlPresents /\ ~MtlEnds /\ ~Redraws
  BY DEF VkBegins, VkRecords, VkSubmits, MtlBegins, MtlRecords, MtlPresents, MtlEnds, Redraws
<1> QED BY <1>3, <1>4, <1>5, <1>6, <1>7, <1>8, <1>9, <1>10, <1>11 DEF Moves, FrameMoves, OtherMoves

\* The conjuncts of UsedInv
WorkUse(work, use) ==
  /\ Fresh(use)
  /\ use[1] = <<"oneShot", 0>> => step = "copying"
  /\ work.kind = "copy" => use[1] = <<"oneShot", 0>>
  /\ plugin = "d3d12" =>
       \A r \in Rings : use[1] = <<"commands", r>> => work.value <= fenceValue[r]
ListUse(use) ==
  /\ Fresh(use)
  /\ use[1] # <<"oneShot", 0>>
  /\ plugin = "d3d12" => \A r \in Rings : use[1] = <<"commands", r>> => r = frameIndex

LEMMA UsedAre ==
  UsedInv <=> /\ up # "up" => stage = 0
              /\ plugin = "metal" => \A work \in Outstanding : work.uses = {}
              /\ \A work \in Outstanding : \A use \in work.uses : WorkUse(work, use)
              /\ \A use \in list.uses : ListUse(use)
BY DEF UsedInv, WorkUse, ListUse

\* Nothing begins in shutdown.
LEMMA UpStep == (up # "up" => stage = 0) /\ Moves => (up' # "up" => stage' = 0)
<1> SUFFICES ASSUME up # "up" => stage = 0, Moves, up' # "up" PROVE stage' = 0
  OBVIOUS
<1>1. CASE Quiet
  BY <1>1, Same DEF Quiet, Staying, Going
<1>2. CASE FrameMoves
  BY <1>2 DEF FrameMoves, VkBegins, DxBegins, MtlBegins, VkRecords, MtlRecords, Closes, VkSubmits,
              DxSubmits, DxPresents, MtlPresents, MtlEnds, Going
<1>3. CASE Recording
  BY <1>3 DEF Recording
<1>4. CASE OtherMoves
  BY <1>4, Same DEF OtherMoves, Makes, StartsCopy, EndsCopy, HandsOut, DxStages, Finishes, Finish,
                    Resizes, Redraws, ShutsDown, Staying
<1> QED BY <1>1, <1>2, <1>3, <1>4 DEF Moves

LEMMA OutstandingTyped ==
  TypeInv => /\ \A work \in Outstanding : work \in Work /\ work.uses \subseteq Use
             /\ \A work \in Outstanding : work.kind = "frame" => \E i \in Frames : work = queue[i]
             /\ list.uses \subseteq Use
             /\ \A use \in Use : use[1] \in Objects
             /\ DOMAIN generation = Objects
<1> SUFFICES ASSUME queue \in Seq(Work), ListTyped, ObjectsTyped
             PROVE  /\ \A work \in Outstanding : work \in Work /\ work.uses \subseteq Use
                    /\ \A work \in Outstanding : work.kind = "frame" => \E i \in Frames : work = queue[i]
                    /\ list.uses \subseteq Use
                    /\ \A use \in Use : use[1] \in Objects
                    /\ DOMAIN generation = Objects
  BY DEF TypeInv
<1>1. \A i \in DOMAIN queue : queue[i] \in Work
  BY Queue
<1>2. \A work \in Work : work.uses \subseteq Use
  BY DEF Work
<1>3. list.uses \subseteq Use /\ DOMAIN generation = Objects
  BY DEF ListTyped, ObjectsTyped
<1>4. \A use \in Use : use[1] \in Objects
  BY DEF Use
<1> QED BY <1>1, <1>2, <1>3, <1>4 DEF Outstanding, Frames

LEMMA UsedInvStep ==
  TypeInv /\ ListInv /\ FenceInv /\ ValuesInv /\ UsedInv /\ Moves => UsedInv'
<1> SUFFICES ASSUME TypeInv, ListInv, FenceInv, ValuesInv, UsedInv, Moves, queue \in Seq(Work),
                    queue' \in Seq(Work), CountersTyped, ListTyped, stage \in Nat, plugin' = plugin
             PROVE  UsedInv'
  BY QueueStep, StageIs DEF TypeInv, Moves
<1> DEFINE NoUse == plugin = "metal" => \A work \in Outstanding : work.uses = {}
           WorkUses == \A work \in Outstanding : \A use \in work.uses : WorkUse(work, use)
           ListUses == \A use \in list.uses : ListUse(use)
<1>0. NoUse /\ WorkUses /\ ListUses
  BY UsedAre
<1>1. NoUse' /\ WorkUses' /\ ListUses' => UsedInv'
  <2>1. up' # "up" => stage' = 0
    BY UsedAre, UpStep
  <2> QED BY <2>1 DEF UsedInv, WorkUse, ListUse
<1> HIDE DEF WorkUses, ListUses
\* What a step that does not touch objects keeps
<1>2. ASSUME UNCHANGED objects, up' = up
      PROVE  \A use : Fresh(use) => Fresh(use)'
  BY <1>2 DEF Fresh, Missing, objects
<1>3. ASSUME UNCHANGED objects, up' = up, UNCHANGED <<step, fenceValue>>, Outstanding' \subseteq Outstanding
      PROVE  NoUse' /\ WorkUses'
  BY <1>0, <1>2, <1>3 DEF WorkUses, WorkUse
<1>4. ASSUME UNCHANGED objects, up' = up, UNCHANGED frameIndex, list'.uses = list.uses
      PROVE  ListUses'
  BY <1>0, <1>2, <1>4 DEF ListUses, ListUse
<1>5. CASE Quiet
  BY <1>1, <1>3, <1>4, <1>5, Same DEF Quiet, counters, creation, gpu
<1>6. CASE VkBegins \/ MtlBegins \/ DxPresents \/ MtlEnds
  BY <1>1, <1>3, <1>4, <1>6, Same DEF VkBegins, MtlBegins, DxPresents, MtlEnds, counters, creation, gpu
<1>7. CASE Closes
  <2>1. list'.uses = list.uses
    BY <1>7 DEF Closes
  <2> QED BY <1>1, <1>3, <1>4, <1>7, <2>1, Same DEF Closes, counters, creation, gpu
<1>8. CASE Makes \/ Redraws
  <2>1. UNCHANGED <<objects, up, step, queue, list, frameIndex, fenceValue>>
    BY <1>8 DEF Makes, Redraws, counters, creation, gpu
  <2> QED BY <1>1, <1>3, <1>4, <2>1, Same
<1>9. CASE Finishes
  <2>1. UNCHANGED <<objects, up, step, list, frameIndex, fenceValue>> /\ queue # <<>> /\ queue' = Tail(queue)
    BY <1>9 DEF Finishes, Finish, creation
  <2>2. Outstanding' \subseteq Outstanding
    BY <2>1, Shifted
  <2> QED BY <1>1, <1>3, <1>4, <2>1, <2>2
<1>10. CASE DxStages
  <2>1. UNCHANGED <<objects, up, step, queue, frameIndex, fenceValue>>
    BY <1>10 DEF DxStages, gpu
  <2>2. list'.uses = list.uses
    BY <1>10 DEF DxStages, ListTyped
  <2> QED BY <1>1, <1>3, <1>4, <2>1, <2>2, Same
<1>11. CASE Recording
  <2>1. UNCHANGED <<objects, up, step, queue, frameIndex, fenceValue>>
    BY <1>11 DEF Recording, counters, creation, gpu
  <2>2. \A use \in Targets \cup Using({<<"texture", 0>>}) :
          /\ Fresh(use)' /\ use[1] \in {<<"views", 0>>, <<"depth", 0>>, <<"texture", 0>>}
    BY <2>1 DEF Targets, Using, Fresh, Missing, objects
  <2>3. \A use \in Targets \cup Using({<<"texture", 0>>}) : ListUse(use)'
    BY <2>2, ObjectsDiffer DEF ListUse
  <2>4. \A use \in list.uses : ListUse(use)'
    BY <1>0, <1>2, <2>1 DEF ListUses, ListUse
  <2>5. list'.uses \subseteq list.uses \cup (Targets \cup Using({<<"texture", 0>>}))
    BY <1>11 DEF Recording
  <2>6. ListUses'
    BY <2>3, <2>4, <2>5 DEF ListUses
  <2> QED BY <1>1, <1>3, <2>1, <2>6, Same
<1>12. CASE ShutsDown
  <2>1. UNCHANGED <<torn, step, queue, list, frameIndex, fenceValue>>
    BY <1>12 DEF ShutsDown, counters, creation, gpu
  <2>2. stage = 0
    BY <1>12, UsedAre DEF ShutsDown
  <2>3. list.uses = {}
    <3>1. plugin \in {"vulkan", "d3d12", "metal"}
      BY DEF CountersTyped
    <3> QED BY <2>2, <3>1 DEF ListInv
  <2>4. Outstanding' = Outstanding
    BY <2>1, Same
  <2>5. CASE up' = "down"
    <3>1. plugin # "metal" => Outstanding = {}
      BY <1>12, <2>5 DEF ShutsDown, Idle, Outstanding
    <3> QED BY <1>0, <1>1, <2>1, <2>3, <2>4, <3>1 DEF WorkUses, ListUses
  <2>6. CASE up' = "fonts"
    <3>1. up = "up" /\ generation' = [generation EXCEPT ![<<"texture", 0>>] = @ + 1]
      BY <1>12, <2>6 DEF ShutsDown
    <3>2. WorkUses'
      <4> SUFFICES ASSUME NEW work \in Outstanding, NEW use \in work.uses PROVE WorkUse(work, use)'
        BY <2>4 DEF WorkUses
      <4>1. WorkUse(work, use) /\ use \in Use
        BY <1>0, OutstandingTyped DEF WorkUses
      <4>2. Fresh(use)'
        <5>1. CASE use[1] = <<"texture", 0>>
          BY <2>6, <5>1 DEF Fresh
        <5>2. CASE use[1] # <<"texture", 0>>
          <6>1. generation'[use[1]] = generation[use[1]]
            BY <3>1, <4>1, <5>2, OutstandingTyped
          <6> QED BY <2>1, <3>1, <4>1, <5>2, <6>1 DEF WorkUse, Fresh, Missing
        <5> QED BY <5>1, <5>2
      <4> QED BY <2>1, <4>1, <4>2 DEF WorkUse
    <3>3. ListUses' /\ NoUse'
      BY <1>0, <2>1, <2>3, <2>4 DEF ListUses
    <3> QED BY <1>1, <3>2, <3>3
  <2> QED BY <1>12, <2>5, <2>6 DEF ShutsDown
<1>13. CASE MtlRecords
  <2>1. UNCHANGED <<objects, up, step, queue, frameIndex, fenceValue>> /\ list'.uses = {}
    BY <1>13 DEF MtlRecords, counters, creation, gpu, Empty
  <2>2. ListUses'
    BY <2>1 DEF ListUses
  <2> QED BY <1>1, <1>3, <2>1, <2>2, Same
<1>14. CASE VkSubmits \/ DxSubmits \/ MtlPresents
  <2>1. CASE UNCHANGED <<queue, list>> /\ MtlPresents
    BY <1>1, <1>3, <1>4, <2>1, Same DEF MtlPresents, counters, creation
  <2>2. ASSUME NEW v, Submit("frame", list, v), list' = Empty,
               (v = 0 /\ plugin # "d3d12") \/ (DxSubmits /\ v = signalled + 1)
        PROVE  UsedInv'
    <3>1. PICK e : queue' = Append(queue, e) /\ e.uses = list.uses /\ e.kind = "frame" /\ e.value = v
      BY <2>2 DEF Submit
    <3>2. Outstanding' = Outstanding \cup {e}
      BY <3>1, Appended
    <3>3. /\ UNCHANGED <<objects, up, step, frameIndex>> /\ list'.uses = {}
          /\ plugin = "d3d12" => DxSubmits /\ v = signalled + 1
      BY <1>14, <2>2 DEF VkSubmits, DxSubmits, MtlPresents, Empty, creation, counters
    <3>4. \A r \in Rings : plugin = "d3d12" =>
            fenceValue[r] <= fenceValue'[r] /\ fenceValue'[frameIndex] = signalled + 1
            /\ fenceValue[r] \in Nat /\ fenceValue'[r] \in Nat
      BY <3>3, ValuesAre DEF DxSubmits, CountersTyped, InOrder
    <3>5. NoUse'
      <4>1. plugin = "metal" => list.uses = {}
        BY DEF ListInv
      <4> QED BY <1>0, <3>1, <3>2, <4>1
    <3>6. ASSUME NEW work \in Outstanding, NEW use \in work.uses
          PROVE  WorkUse(work, use)'
      <4>1. WorkUse(work, use)
        BY <1>0 DEF WorkUses
      <4>2. work.value \in Nat
        BY OutstandingTyped DEF Work
      <4>3. plugin = "d3d12" => \A r \in Rings : use[1] = <<"commands", r>> => work.value <= fenceValue'[r]
        BY <3>4, <4>1, <4>2 DEF WorkUse
      <4> QED BY <1>2, <3>3, <4>1, <4>3 DEF WorkUse
    <3>7. ASSUME NEW use \in e.uses
          PROVE  WorkUse(e, use)'
      <4>1. ListUse(use)
        BY <1>0, <3>1 DEF ListUses
      <4>2. plugin = "d3d12" => \A r \in Rings : use[1] = <<"commands", r>> => e.value <= fenceValue'[r]
        <5> SUFFICES ASSUME plugin = "d3d12", NEW r \in Rings, use[1] = <<"commands", r>>
                     PROVE  e.value <= fenceValue'[r]
          OBVIOUS
        <5>1. r = frameIndex /\ e.value = signalled + 1 /\ signalled + 1 \in Nat
          BY <3>1, <3>3, <4>1 DEF ListUse, CountersTyped
        <5> QED BY <3>4, <5>1
      <4> QED BY <1>2, <3>1, <3>3, <4>1, <4>2 DEF WorkUse, ListUse
    <3>8. ListUses'
      BY <3>3 DEF ListUses
    <3> QED BY <1>1, <3>2, <3>5, <3>6, <3>7, <3>8 DEF WorkUses
  <2> QED BY <1>14, <2>1, <2>2 DEF VkSubmits, DxSubmits, MtlPresents
\* The steps that destroy or reuse an object
<1>15. ASSUME NEW o \in Objects, torn' = torn, up' = up, \A x \in Objects \ {o} : generation'[x] = generation[x]
       PROVE  \A use \in Use : use[1] # o => (Fresh(use) => Fresh(use)')
  BY <1>15, OutstandingTyped DEF Fresh, Missing
<1>16. CASE DxBegins
  <2>1. /\ plugin = "d3d12" /\ current \in Rings /\ completed >= fenceValue[current]
        /\ UNCHANGED <<torn, up, step, queue, fenceValue>> /\ frameIndex' = current
        /\ generation' = [generation EXCEPT ![<<"commands", current>>] = @ + 1]
        /\ list'.uses = {<<<<"commands", current>>, generation[<<"commands", current>>] + 1>>}
    BY <1>16 DEF DxBegins, CountersTyped, creation, gpu, Empty
  <2>2. /\ <<"commands", current>> \in Objects
        /\ \A x \in Objects \ {<<"commands", current>>} : generation'[x] = generation[x]
        /\ generation'[<<"commands", current>>] = generation[<<"commands", current>>] + 1
    BY <2>1, ObjectsAre, OutstandingTyped
  <2>3. ASSUME NEW work \in Outstanding, NEW use \in work.uses
        PROVE  use[1] # <<"commands", current>>
    <3> SUFFICES ASSUME use[1] = <<"commands", current>> PROVE FALSE
      OBVIOUS
    <3>1. WorkUse(work, use)
      BY <1>0 DEF WorkUses
    <3>2. work.kind # "copy" /\ work.value <= fenceValue[current]
      BY <2>1, <3>1, ObjectsDiffer DEF WorkUse
    <3>3. work.kind = "frame"
      BY <3>2, OutstandingTyped DEF Work
    <3>4. completed < work.value
      BY <2>1, <3>3, OutstandingTyped, ValuesAre DEF InOrder
    <3>5. completed \in Nat /\ work.value \in Nat /\ fenceValue[current] \in Nat
      BY <2>1, OutstandingTyped DEF CountersTyped, Work
    <3> QED BY <2>1, <3>2, <3>4, <3>5
  <2>4. WorkUses'
    <3> SUFFICES ASSUME NEW work \in Outstanding, NEW use \in work.uses PROVE WorkUse(work, use)'
      BY <2>1, Same DEF WorkUses
    <3>1. WorkUse(work, use) /\ use \in Use
      BY <1>0, OutstandingTyped DEF WorkUses
    <3>2. Fresh(use)'
      BY <1>15, <2>1, <2>2, <2>3, <3>1 DEF WorkUse
    <3> QED BY <2>1, <3>1, <3>2 DEF WorkUse
  <2>5. ListUses'
    <3> SUFFICES ASSUME NEW use \in list'.uses PROVE ListUse(use)'
      BY DEF ListUses
    <3>1. use[1] = <<"commands", current>> /\ use[2] = generation'[<<"commands", current>>]
      <4>1. list'.uses = {<<<<"commands", current>>, generation[<<"commands", current>>] + 1>>}
        BY <2>1
      <4>2. use = <<<<"commands", current>>, generation[<<"commands", current>>] + 1>>
        BY <4>1
      <4>3. use[1] = <<"commands", current>> /\ use[2] = generation[<<"commands", current>>] + 1
        BY <4>2
      <4> QED BY <2>2, <4>3
    <3>2. Fresh(use)'
      BY <3>1 DEF Fresh
    <3>3. use[1] # <<"oneShot", 0>> /\ \A r \in Rings : use[1] = <<"commands", r>> => r = current
      BY <3>1, ObjectsDiffer
    <3> QED BY <2>1, <3>2, <3>3 DEF ListUse
  <2> QED BY <1>0, <1>1, <2>1, <2>4, <2>5, Same
<1>17. CASE VkRecords
  <2>1. /\ plugin = "vulkan" /\ stage = 3
        /\ UNCHANGED <<torn, up, step, queue, fenceValue, frameIndex>>
        /\ generation' = [generation EXCEPT ![<<"commands", 0>>] = @ + 1]
        /\ list'.uses = {<<<<"commands", 0>>, generation[<<"commands", 0>>] + 1>>}
    BY <1>17 DEF VkRecords, Going, counters, creation, gpu, Empty
  <2>2. /\ <<"commands", 0>> \in Objects
        /\ \A x \in Objects \ {<<"commands", 0>>} : generation'[x] = generation[x]
        /\ generation'[<<"commands", 0>>] = generation[<<"commands", 0>>] + 1
    BY <2>1, ObjectsAre, OutstandingTyped, Zero
  <2>3. ASSUME NEW work \in Outstanding, NEW use \in work.uses
        PROVE  use[1] # <<"commands", 0>>
    <3>1. Frames = {}
      BY <2>1 DEF FenceInv
    <3>2. work.kind = "copy"
      BY <3>1, OutstandingTyped DEF Work
    <3> QED BY <1>0, <3>2, ObjectsDiffer DEF WorkUses, WorkUse
  <2>4. WorkUses'
    <3> SUFFICES ASSUME NEW work \in Outstanding, NEW use \in work.uses PROVE WorkUse(work, use)'
      BY <2>1, Same DEF WorkUses
    <3>1. WorkUse(work, use) /\ use \in Use
      BY <1>0, OutstandingTyped DEF WorkUses
    <3>2. Fresh(use)'
      BY <1>15, <2>1, <2>2, <2>3, <3>1 DEF WorkUse
    <3> QED BY <2>1, <3>1, <3>2 DEF WorkUse
  <2>5. ListUses'
    <3> SUFFICES ASSUME NEW use \in list'.uses PROVE ListUse(use)'
      BY DEF ListUses
    <3>1. use[1] = <<"commands", 0>> /\ use[2] = generation'[<<"commands", 0>>]
      <4>1. list'.uses = {<<<<"commands", 0>>, generation[<<"commands", 0>>] + 1>>}
        BY <2>1
      <4>2. use = <<<<"commands", 0>>, generation[<<"commands", 0>>] + 1>>
        BY <4>1
      <4>3. use[1] = <<"commands", 0>> /\ use[2] = generation[<<"commands", 0>>] + 1
        BY <4>2
      <4> QED BY <2>2, <4>3
    <3>2. Fresh(use)'
      BY <3>1 DEF Fresh
    <3>3. use[1] # <<"oneShot", 0>>
      BY <3>1, ObjectsDiffer
    <3> QED BY <2>1, <3>2, <3>3 DEF ListUse
  <2> QED BY <1>0, <1>1, <2>1, <2>4, <2>5, Same
<1>18. CASE StartsCopy
  <2>1. UNCHANGED <<torn, up, list, fenceValue, frameIndex>> /\ step = "idle" /\ step' = "copying"
    BY <1>18 DEF StartsCopy, counters
  <2>2. PICK e : /\ queue' = Append(queue, e) /\ e.kind = "copy"
                 /\ \/ /\ plugin # "metal" /\ e.uses = {<<<<"oneShot", 0>>, creating>>}
                       /\ generation' = [generation EXCEPT ![<<"oneShot", 0>>] = creating]
                    \/ plugin = "metal" /\ e.uses = {} /\ generation' = generation
    BY <1>18 DEF StartsCopy, SubmitCopy, Submit
  <2>3. Outstanding' = Outstanding \cup {e}
    BY <2>2, Appended
  <2>4. /\ <<"oneShot", 0>> \in Objects
        /\ \A x \in Objects \ {<<"oneShot", 0>>} : generation'[x] = generation[x]
        /\ plugin # "metal" => generation'[<<"oneShot", 0>>] = creating
    BY <2>2, ObjectsAre, OutstandingTyped
  <2>5. ASSUME NEW work \in Outstanding, NEW use \in work.uses PROVE WorkUse(work, use)'
    <3>1. WorkUse(work, use) /\ use \in Use
      BY <1>0, OutstandingTyped DEF WorkUses
    <3>2. use[1] # <<"oneShot", 0>>
      BY <2>1, <3>1 DEF WorkUse
    <3>3. Fresh(use)'
      BY <1>15, <2>1, <2>4, <3>1, <3>2 DEF WorkUse
    <3> QED BY <2>1, <3>1, <3>3 DEF WorkUse
  <2>6. ASSUME NEW use \in e.uses PROVE WorkUse(e, use)'
    <3>1. plugin # "metal" /\ use[1] = <<"oneShot", 0>> /\ use[2] = creating
      BY <2>2
    <3>2. Fresh(use)'
      BY <2>4, <3>1 DEF Fresh
    <3>3. \A r \in Rings : use[1] # <<"commands", r>>
      BY <3>1, ObjectsDiffer
    <3> QED BY <2>1, <3>1, <3>2, <3>3 DEF WorkUse
  <2>7. ListUses'
    <3> SUFFICES ASSUME NEW use \in list.uses PROVE ListUse(use)'
      BY <2>1 DEF ListUses
    <3>1. ListUse(use) /\ use \in Use /\ use[1] # <<"oneShot", 0>>
      BY <1>0, OutstandingTyped DEF ListUses, ListUse
    <3>2. Fresh(use)'
      BY <1>15, <2>1, <2>4, <3>1 DEF ListUse
    <3> QED BY <2>1, <3>1, <3>2 DEF ListUse
  <2>8. NoUse'
    BY <1>0, <2>2, <2>3
  <2> QED BY <1>1, <2>3, <2>5, <2>6, <2>7, <2>8 DEF WorkUses
<1>19. CASE EndsCopy
  <2>1. /\ UNCHANGED <<torn, up, list, queue, fenceValue, frameIndex>> /\ queue = <<>>
        /\ generation' = [generation EXCEPT ![<<"oneShot", 0>>] = 0]
    BY <1>19 DEF EndsCopy, counters, gpu, Idle, ReleaseCopy
  <2>2. Outstanding' = {}
    BY <2>1 DEF Outstanding
  <2>3. <<"oneShot", 0>> \in Objects
        /\ \A x \in Objects \ {<<"oneShot", 0>>} : generation'[x] = generation[x]
    BY <2>1, ObjectsAre, OutstandingTyped
  <2>4. ListUses'
    <3> SUFFICES ASSUME NEW use \in list.uses PROVE ListUse(use)'
      BY <2>1 DEF ListUses
    <3>1. ListUse(use) /\ use \in Use /\ use[1] # <<"oneShot", 0>>
      BY <1>0, OutstandingTyped DEF ListUses, ListUse
    <3>2. Fresh(use)'
      BY <1>15, <2>1, <2>3, <3>1 DEF ListUse
    <3> QED BY <2>1, <3>1, <3>2 DEF ListUse
  <2> QED BY <1>1, <2>2, <2>4 DEF WorkUses
<1>20. CASE HandsOut
  <2>1. /\ UNCHANGED <<objects, up, list, queue, fenceValue, frameIndex>>
        /\ plugin = "metal" \/ step = "copied"
    BY <1>20 DEF HandsOut, counters, gpu
  <2>2. WorkUses'
    <3> SUFFICES ASSUME NEW work \in Outstanding, NEW use \in work.uses PROVE WorkUse(work, use)'
      BY <2>1, Same DEF WorkUses
    <3>1. WorkUse(work, use) /\ step = "copied"
      BY <1>0, <2>1 DEF WorkUses
    <3>2. use[1] # <<"oneShot", 0>>
      BY <3>1 DEF WorkUse
    <3> QED BY <1>2, <2>1, <3>1, <3>2 DEF WorkUse
  <2> QED BY <1>0, <1>1, <1>4, <2>1, <2>2, Same
<1>21. CASE Resizes
  <2>1. UNCHANGED <<up, list, queue, fenceValue, frameIndex, step>> /\ stage = 0
        /\ (plugin # "metal" => queue = <<>>)
    BY <1>21 DEF Resizes, gpu, Idle, creation
  <2>2. list'.uses = {}
    <3>1. plugin \in {"vulkan", "d3d12", "metal"}
      BY DEF CountersTyped
    <3> QED BY <2>1, <3>1 DEF ListInv
  <2>3. Outstanding' = Outstanding /\ (plugin # "metal" => Outstanding = {})
    BY <2>1, Same DEF Outstanding
  <2> QED BY <1>0, <1>1, <2>2, <2>3 DEF WorkUses, ListUses
<1> QED BY <1>5, <1>6, <1>7, <1>8, <1>9, <1>10, <1>11, <1>12, <1>13, <1>14, <1>16, <1>17, <1>18, <1>19,
  <1>20, <1>21 DEF Moves, FrameMoves, OtherMoves

-----------------------------------------------------------------------------
(* Correctness *)

FramesInv ==
  TypeInv /\ ListInv /\ FenceInv /\ CountInv /\ ValuesInv /\ UsedInv /\ FilledInv

LEMMA FramesInit == Init => FramesInv
<1> SUFFICES ASSUME Init PROVE FramesInv
  OBVIOUS
<1>1. TypeInv /\ CountersTyped
  BY TypeInit DEF TypeInv
<1>2. /\ stage = 0 /\ list = Empty /\ queue = <<>> /\ made = {} /\ step = "idle"
      /\ begun = 0 /\ retired = 0 /\ torn = {}
      /\ signalled = 1 /\ completed = 1 /\ \A r \in Rings : fenceValue[r] = 0
  BY <1>1, StageIs DEF Init, InitShared, vk_init, dx_init, mtl_init, TypeInv
<1>3. Outstanding = {} /\ Frames = {} /\ FramesUnderWay = 0
  <2>1. Outstanding = {} /\ Frames = {}
    BY <1>2 DEF Outstanding, Frames
  <2> QED BY <2>1, FS_EmptySet DEF FramesUnderWay, Frames
<1>4. ListInv /\ FenceInv /\ CountInv /\ UsedInv /\ FilledInv
  BY <1>2, <1>3 DEF Empty, ListInv, FenceInv, CountInv, Pending, UsedInv, FilledInv
<1>5. ValuesInv
  <2>1. \A r \in Rings : Age(r) \in Nat \ {0}
    BY <1>1, AgeIs, RenderThreadAssumption
  <2> QED BY <1>2, <1>3, <2>1 DEF ValuesInv
<1> QED BY <1>1, <1>4, <1>5 DEF FramesInv

LEMMA FramesStep == FramesInv /\ [Next]_vars => FramesInv'
BY NextMoves, StutterMoves, TypeStep, ListInvStep, FenceInvStep, CountInvStep, ValuesInvStep,
   UsedInvStep, FilledInvStep DEF FramesInv

\* The types of a backend's state, and what makes the frames under way right
\* (FramesInv), hold with every number of frame contexts and ring cells, in all
\* three plugins, through resizes, failed acquisitions and shutdown.
THEOREM FramesCorrect == Spec => []FramesInv
BY FramesInit, FramesStep, PTL DEF Spec

\* No command list, view, depth buffer or staging copy that a submission uses is
\* destroyed, reset or recorded again before the GPU has finished with it, whatever
\* is resized, loaded, begun or shut down meanwhile; but for what a failed resize did
\* not create again, which passes use all the same. The font texture is alive until
\* the font system, in shutdown, destroys it without waiting for the GPU.
THEOREM UsesStayAlive == Spec => []InUseAlive
<1>1. FramesInv => InUseAlive
  BY DEF FramesInv, UsedInv, InUseAlive, Fresh
<1> QED BY <1>1, FramesCorrect, PTL

\* A texture whose handle is out has its contents, or the copy that brings them is
\* in front of every later frame; but for one made while Direct3D's list is closed.
THEOREM TexturesArrive == Spec => []TexturesReady
<1>1. FramesInv => TexturesReady
  BY DEF FramesInv, FilledInv, TexturesReady
<1> QED BY <1>1, FramesCorrect, PTL

\* Direct3D's begin_frame, having waited for the value of the context it takes,
\* finds fewer frames under way than there are contexts.
LEMMA ContextFree ==
  ASSUME TypeInv, ValuesInv, plugin = "d3d12", stage = 1, completed >= fenceValue[current]
  PROVE  FramesUnderWay < FrameCount
<1>1. /\ CountersTyped /\ InOrder /\ current \in Rings /\ Age(current) = FrameCount
      /\ completed \in Nat /\ signalled \in Nat /\ fenceValue[current] \in Nat /\ FrameCount \in Nat
      /\ completed <= signalled
  BY ValuesAre, AgeIs, RenderThreadAssumption DEF TypeInv, CountersTyped, InOrder
<1>2. completed + FrameCount >= signalled + 1
  <2>1. fenceValue[current] + FrameCount >= signalled + 1 \/ completed + FrameCount >= signalled + 1
    BY <1>1 DEF ValuesInv
  <2> QED BY <1>1, <2>1
<1> DEFINE T == completed + 1 .. signalled
           f == [i \in Frames |-> queue[i].value]
<1>3. IsFiniteSet(T) /\ Cardinality(T) = signalled - completed
  <2>1. /\ IsFiniteSet(T)
        /\ Cardinality(T) = IF completed + 1 > signalled THEN 0 ELSE signalled - (completed + 1) + 1
    <3>1. completed + 1 \in Int /\ signalled \in Int
      BY <1>1
    <3> QED BY <3>1, FS_Interval
  <2> QED BY <1>1, <2>1
<1>4. f \in Injection(Frames, T)
  <2>1. \A i \in Frames : i \in Nat /\ queue[i].value \in Nat
    <3>1. \A i \in DOMAIN queue : i \in Nat /\ queue[i] \in Work
      BY Queue DEF TypeInv
    <3> QED BY <3>1 DEF Frames, Work
  <2>2. \A i \in Frames : queue[i].value \in T
    BY <1>1, <2>1 DEF InOrder
  <2>3. \A i, j \in Frames : queue[i].value = queue[j].value => i = j
    <3> SUFFICES ASSUME NEW i \in Frames, NEW j \in Frames, queue[i].value = queue[j].value, i # j
                 PROVE  FALSE
      OBVIOUS
    <3>1. i < j \/ j < i
      BY <2>1
    <3> QED BY <1>1, <2>1, <3>1 DEF InOrder
  <2> HIDE DEF T
  <2> QED BY <2>2, <2>3 DEF Injection, IsInjective
<1>5. Cardinality(Frames) <= Cardinality(T)
  <2> HIDE DEF T, f
  <2> QED BY <1>3, <1>4, FS_Injection
<1>6. FramesUnderWay = Cardinality(Frames) /\ FramesUnderWay \in Nat
  BY FramesFinite DEF TypeInv
<1> HIDE DEF T
<1> QED BY <1>1, <1>2, <1>3, <1>5, <1>6

LEMMA NoFrame == Frames = {} => FramesUnderWay = 0
BY FS_EmptySet DEF FramesUnderWay, Frames

\* What each step is of the pipeline
LEMMA PipelineStep ==
  FramesInv /\ FramesInv' /\ Moves => [Pipeline!Next]_Pipeline!vars
<1> SUFFICES ASSUME TypeInv, ListInv, FenceInv, CountInv, ValuesInv, CountInv', Moves, CountersTyped,
                    CountersTyped', queue \in Seq(Work), queue' \in Seq(Work), stage \in Nat,
                    FramesUnderWay \in Nat, FramesUnderWay' \in Nat, plugin' = plugin
             PROVE  [Pipeline!Next]_Pipeline!vars
  <2>1. TypeInv => CountersTyped /\ queue \in Seq(Work) /\ stage \in Nat /\ FramesUnderWay \in Nat
    BY StageIs, FramesFinite DEF TypeInv
  <2>2. TypeInv' => CountersTyped' /\ queue' \in Seq(Work) /\ FramesUnderWay' \in Nat
    <3>1. queue' \in Seq(Work) => IsFiniteSet(Frames') /\ FramesUnderWay' = Cardinality(Frames')
      <4> SUFFICES ASSUME queue' \in Seq(Work)
                   PROVE  IsFiniteSet(Frames') /\ FramesUnderWay' = Cardinality(Frames')
        OBVIOUS
      <4>1. DOMAIN queue' = 1 .. Len(queue') /\ Len(queue') \in Nat
        BY LenProperties
      <4>2. IsFiniteSet(1 .. Len(queue')) /\ Frames' \subseteq 1 .. Len(queue')
        BY <4>1, FS_Interval DEF Frames
      <4>3. IsFiniteSet(Frames')
        BY <4>2, FS_Subset
      <4> QED BY <4>3 DEF FramesUnderWay, Frames
    <3> QED BY <3>1, FS_CardinalityType DEF TypeInv
  <2> QED BY <2>1, <2>2 DEF FramesInv, Moves
<1>1. limit \in Nat \ {0} /\ limit' \in Nat \ {0}
  <2>1. \/ plugin = "vulkan" /\ limit = 1
        \/ plugin = "d3d12" /\ limit = FrameCount
        \/ plugin = "metal" /\ limit = maxDrawables
    BY DEF limit, CountersTyped
  <2>2. \/ plugin' = "vulkan" /\ limit' = 1
        \/ plugin' = "d3d12" /\ limit' = FrameCount
        \/ plugin' = "metal" /\ limit' = maxDrawables'
    BY DEF limit, CountersTyped
  <2>3. maxDrawables \in {2, 3} /\ maxDrawables' \in {2, 3} /\ FrameCount \in Nat \ {0}
    BY RenderThreadAssumption DEF CountersTyped
  <2>4. 1 \in Nat \ {0} /\ 2 \in Nat \ {0} /\ 3 \in Nat \ {0}
    OBVIOUS
  <2>5. limit \in Nat \ {0}
    BY <2>1, <2>3, <2>4
  <2>6. limit' \in Nat \ {0}
    BY <2>2, <2>3, <2>4
  <2> QED BY <2>5, <2>6
<1>2. begun \in Nat /\ retired \in Nat /\ begun' \in Nat /\ retired' \in Nat
  BY DEF CountersTyped
<1>3. maxDrawables' = maxDrawables => limit' = limit
  BY DEF limit
<1>4. ASSUME UNCHANGED <<begun, retired, queue>> PROVE [Pipeline!Next]_Pipeline!vars
  BY <1>1, <1>4, Same DEF Pipeline!Next, Pipeline!Relimit
<1>5. CASE Quiet \/ Recording \/ Makes \/ EndsCopy \/ HandsOut \/ DxStages \/ Resizes \/ Redraws \/ ShutsDown
  BY <1>4, <1>5 DEF Quiet, Recording, Makes, EndsCopy, HandsOut, DxStages, Resizes, Redraws, ShutsDown, gpu
<1>6. CASE VkRecords \/ MtlRecords \/ Closes \/ DxPresents \/ MtlEnds
  BY <1>4, <1>6 DEF VkRecords, MtlRecords, Closes, DxPresents, MtlEnds, gpu
<1>7. CASE VkBegins \/ DxBegins \/ MtlBegins
  <2>1. stage = 1 /\ begun' = begun + 1 /\ UNCHANGED <<retired, queue, maxDrawables>>
    BY <1>7 DEF VkBegins, DxBegins, MtlBegins, Going, gpu, counters
  <2>2. begun = retired + FramesUnderWay
    <3>1. Pending = 0
      BY <2>1 DEF Pending
    <3> QED BY <1>2, <3>1 DEF CountInv
  <2>3. begun - retired < limit
    <3>1. CASE VkBegins
      <4>1. FramesUnderWay = 0 /\ limit = 1
        BY <3>1, NoFrame DEF VkBegins, FenceInv, limit
      <4> QED BY <1>2, <2>2, <4>1
    <3>2. CASE DxBegins
      <4>1. FramesUnderWay < FrameCount /\ limit = FrameCount /\ FrameCount \in Nat
        BY <2>1, <3>2, ContextFree, RenderThreadAssumption DEF DxBegins, limit
      <4> QED BY <1>2, <2>2, <4>1
    <3>3. CASE MtlBegins
      BY <3>3 DEF MtlBegins, limit
    <3> QED BY <1>7, <3>1, <3>2, <3>3
  <2>4. Pipeline!Begin
    BY <1>3, <2>1, <2>2, <2>3, Same DEF Pipeline!Begin
  <2> QED BY <2>4 DEF Pipeline!Next
<1>8. CASE VkSubmits \/ DxSubmits \/ MtlPresents
  <2>1. UNCHANGED <<begun, retired, maxDrawables>> /\ (stage = 6 \/ (plugin = "metal" /\ stage = 7))
    BY <1>8 DEF VkSubmits, DxSubmits, MtlPresents, Going, counters
  <2>2. begun = retired + FramesUnderWay + 1
    BY <2>1 DEF CountInv, Pending
  <2>3. PICK e : queue' = Append(queue, e) /\ e.kind = "frame"
    <3>1. plugin = "metal" /\ stage = 7 => cmdBuffer
      BY DEF ListInv
    <3> QED BY <1>8, <3>1 DEF VkSubmits, DxSubmits, MtlPresents, Going, Submit
  <2>4. FramesUnderWay' = FramesUnderWay + 1
    BY <2>3, CountAppended
  <2>5. Pipeline!Submit
    BY <1>2, <1>3, <2>1, <2>2, <2>4 DEF Pipeline!Submit
  <2> QED BY <2>5 DEF Pipeline!Next
<1>9. CASE StartsCopy
  <2>1. PICK e : queue' = Append(queue, e) /\ e.kind = "copy"
    BY <1>9 DEF StartsCopy, SubmitCopy, Submit
  <2>2. FramesUnderWay' = FramesUnderWay
    BY <2>1, CountAppended
  <2>3. UNCHANGED <<begun, retired, maxDrawables>>
    BY <1>9 DEF StartsCopy, counters
  <2> QED BY <1>3, <2>2, <2>3 DEF Pipeline!vars
<1>10. CASE Finishes
  <2>1. /\ queue # <<>> /\ queue' = Tail(queue) /\ begun' = begun
        /\ retired' = IF Head(queue).kind = "frame" THEN retired + 1 ELSE retired
    BY <1>10 DEF Finishes, Finish
  <2>2. FramesUnderWay' = IF Head(queue).kind = "frame" THEN FramesUnderWay - 1 ELSE FramesUnderWay
    BY <2>1, CountShifted
  <2>3. limit' = limit \/ plugin = "metal"
    BY DEF limit
  <2>4. maxDrawables' = maxDrawables
    BY <1>10 DEF Finishes
  <2>5. Pipeline!Retire \/ UNCHANGED Pipeline!vars
    BY <1>2, <1>3, <2>1, <2>2, <2>4 DEF Pipeline!Retire, Pipeline!vars
  <2> QED BY <2>5 DEF Pipeline!Next
<1> QED BY <1>5, <1>6, <1>7, <1>8, <1>9, <1>10 DEF Moves, FrameMoves, OtherMoves

\* Frames are begun one at a time, each submitted once and retired in order, and
\* no more are under way than the plugin has fences, frame contexts or drawables
\* for: every step of a backend is one of FramePipeline, or none.
THEOREM BackendsRefinePipeline == Spec => Pipeline!Safety
<1>1. Init => Pipeline!Init
  <2> SUFFICES ASSUME Init PROVE Pipeline!Init
    OBVIOUS
  <2>1. begun = 0 /\ retired = 0 /\ Frames = {} /\ CountersTyped
    BY TypeInit DEF Init, InitShared, Frames, TypeInv
  <2>2. limit \in Nat \ {0}
    BY <2>1, RenderThreadAssumption DEF limit, CountersTyped
  <2> QED BY <2>1, <2>2, NoFrame DEF Pipeline!Init
<1>2. FramesInv /\ FramesInv' /\ [Next]_vars => [Pipeline!Next]_Pipeline!vars
  BY NextMoves, StutterMoves, PipelineStep DEF FramesInv
<1> QED BY <1>1, <1>2, FramesCorrect, PTL DEF Spec, Pipeline!Safety

-----------------------------------------------------------------------------
(* What a store keeps *)

LEMMA RingAfter ==
  ASSUME NEW r \in Rings, NEW c \in Cells, NEW n \in Nat, RingTyped,
         ring' = [ring EXCEPT ![r][c] = n]
  PROVE  \A q \in Rings, x \in Cells : ring'[q][x] = IF q = r /\ x = c THEN n ELSE ring[q][x]
BY DEF RingTyped

\* What is kept of the contents of a place
Keeps(at) ==
  \A value \in Nat : (Held(at, value) => Held(at, value)') /\ (Live(at, value) => Live(at, value)')

LEMMA HeldIs ==
  /\ \A at, value : value = 0 \/ at \notin Addresses => Held(at, value) /\ Live(at, value)
  /\ \A at, value : plugin # "d3d12" => (Live(at, value) <=> Held(at, value))
  /\ \A at, value : Live(at, value) => Held(at, value)
  /\ \A at \in Addresses : at[1] \in Rings /\ at[2] \in Cells
BY DEF Held, Live, Addresses

\* The same primed: a step's conclusions are about the state it leads to.
LEMMA HeldIsNext ==
  /\ \A at, value : value = 0 \/ at \notin Addresses => Held(at, value)' /\ Live(at, value)'
  /\ \A at, value : plugin' # "d3d12" => (Live(at, value)' <=> Held(at, value)')
  /\ \A at, value : Live(at, value)' => Held(at, value)'
BY DEF Held, Live

LEMMA SameKeeps ==
  UNCHANGED <<ring, head, frameIndex, plugin>> =>
    \A at : Keeps(at) /\ \A value : Live(at, value)' <=> Live(at, value)
BY DEF Keeps, Held, Live

\* Vulkan and Metal: a store goes to the head, or to the start of a full ring.
LEMMA StoreKeeps ==
  ASSUME NEW slot \in Slots, NEW n, n = stores + 1, NEW c \in Cells, c = head \/ (c = 0 /\ head = RingCells),
         RingTyped, RingInv, plugin # "d3d12", plugin' = plugin, Store(0, c, slot)
  PROVE  /\ RingInv' /\ \A at : Keeps(at)
         /\ Held(<<0, c>>, n)' /\ n \in Nat \ {0} /\ meant' = [meant EXCEPT ![slot] = n]
<1>1. /\ stores' = stores + 1 /\ ring' = [ring EXCEPT ![0][c] = stores + 1] /\ head' = c + 1
  BY DEF Store
<1>2. /\ stores \in Nat /\ head \in 0 .. RingCells /\ RingCells \in Nat \ {0}
      /\ \A r \in Rings, x \in Cells : ring[r][x] \in Nat
      /\ 0 \in Rings /\ c \in Nat /\ \A x \in Cells : x \in Nat /\ x < RingCells
  BY RenderThreadAssumption, Zero DEF RingTyped, Cells
<1>3. \A q \in Rings, x \in Cells : ring'[q][x] = IF q = 0 /\ x = c THEN stores + 1 ELSE ring[q][x]
  <2>1. stores + 1 \in Nat
    BY <1>2
  <2> QED BY <1>1, <1>2, <2>1, RingAfter
<1>4. ring[0][c] = 0 \/ ring[0][c] + RingCells = stores + 1
  <2>1. CASE c = head
    BY <1>2, <2>1 DEF RingInv
  <2>2. CASE c = 0 /\ head = RingCells
    BY <1>2, <2>2 DEF RingInv
  <2> QED BY <2>1, <2>2
<1>5. RingInv'
  <2> SUFFICES ASSUME NEW x \in Cells
               PROVE  IF x < c + 1 THEN ring'[0][x] + (c + 1) = (stores + 1) + x + 1
                      ELSE ring'[0][x] = 0 \/ ring'[0][x] + (c + 1) + RingCells = (stores + 1) + x + 1
    BY <1>1 DEF RingInv
  <2>1. IF x < head THEN ring[0][x] + head = stores + x + 1
        ELSE ring[0][x] = 0 \/ ring[0][x] + head + RingCells = stores + x + 1
    BY DEF RingInv
  <2>2. ring[0][x] \in Nat /\ x \in Nat /\ x < RingCells
    BY <1>2
  <2>3. CASE x = c
    <3>1. ring'[0][x] = stores + 1
      BY <1>2, <1>3, <2>3
    <3> QED BY <1>2, <2>2, <2>3, <3>1
  <2>4. CASE x # c
    <3>1. ring'[0][x] = ring[0][x]
      BY <1>2, <1>3, <2>4
    <3> QED BY <1>2, <2>1, <2>2, <2>4, <3>1
  <2> QED BY <2>3, <2>4
<1>6. ASSUME NEW at, NEW value \in Nat, Held(at, value)
      PROVE  Held(at, value)'
  <2> SUFFICES ASSUME value # 0, at \in Addresses
               PROVE  ring'[at[1]][at[2]] = value \/ ring'[at[1]][at[2]] >= value + RingCells
    BY DEF Held
  <2>1. at[1] \in Rings /\ at[2] \in Cells
    BY HeldIs
  <2>2. ring[at[1]][at[2]] = value \/ ring[at[1]][at[2]] >= value + RingCells
    BY <1>6 DEF Held
  <2>3. CASE at[1] = 0 /\ at[2] = c
    <3>1. ring'[at[1]][at[2]] = stores + 1 /\ ring[at[1]][at[2]] = ring[0][c] /\ ring[0][c] \in Nat
      BY <1>2, <1>3, <2>1, <2>3
    <3> QED BY <1>2, <1>4, <2>2, <3>1
  <2>4. CASE ~(at[1] = 0 /\ at[2] = c)
    BY <1>3, <2>1, <2>2, <2>4
  <2> QED BY <2>3, <2>4
<1>7. Held(<<0, c>>, n)'
  <2>1. ring'[0][c] = n
    BY <1>2, <1>3
  <2> QED BY <1>1, <2>1 DEF Held
<1>8. n \in Nat \ {0} /\ meant' = [meant EXCEPT ![slot] = n]
  BY <1>2 DEF Store
<1> QED BY <1>5, <1>6, <1>7, <1>8, HeldIs, HeldIsNext DEF Keeps

\* Direct3D: whatever is put at the head of the ring in use, what is below stays.
LEMMA HeadKeeps ==
  ASSUME NEW n \in Nat, NEW r \in Rings, NEW h, r = frameIndex, h = head,
         RingTyped, head < RingCells,
         plugin = "d3d12", UNCHANGED <<plugin, frameIndex>>,
         ring' = [ring EXCEPT ![frameIndex][head] = n], head' = head + 1
  PROVE  /\ \A at, value : Live(at, value) => Live(at, value)'
         /\ \A at, value : Held(at, value) /\ (at[1] = frameIndex => at[2] < head) => Held(at, value)'
         /\ Live(<<r, h>>, n)'
<1>1. head \in Cells /\ head \in Nat
  BY HeadCell DEF RingTyped
<1>2. \A q \in Rings, x \in Cells :
        ring'[q][x] = IF q = frameIndex /\ x = head THEN n ELSE ring[q][x]
  <2>1. h \in Cells /\ ring' = [ring EXCEPT ![r][h] = n]
    BY <1>1
  <2>2. \A q \in Rings, x \in Cells : ring'[q][x] = IF q = r /\ x = h THEN n ELSE ring[q][x]
    BY <2>1 DEF RingTyped
  <2> QED BY <2>2
<1>3. ASSUME NEW at, NEW value, Held(at, value), at[1] = frameIndex => at[2] < head
      PROVE  Held(at, value)'
  <2> SUFFICES ASSUME value # 0, at \in Addresses
               PROVE  ring'[at[1]][at[2]] = value
    BY DEF Held
  <2>1. ring[at[1]][at[2]] = value
    BY <1>3 DEF Held
  <2>2. at[1] \in Rings /\ at[2] \in Cells
    BY HeldIs
  <2>3. ~(at[1] = frameIndex /\ at[2] = head)
    BY <1>1, <1>3
  <2> QED BY <1>2, <2>1, <2>2, <2>3
<1>4. ASSUME NEW at, NEW value, Live(at, value)
      PROVE  Live(at, value)'
  <2>1. CASE value = 0 \/ at \notin Addresses
    BY <2>1, HeldIsNext
  <2>2. CASE value # 0 /\ at \in Addresses
    <3>1. Held(at, value) /\ at[1] = frameIndex /\ at[2] < head
      BY <1>4, <2>2 DEF Live
    <3>2. Held(at, value)'
      BY <1>3, <3>1
    <3>3. at[2] \in Nat /\ at[2] < head + 1
      <4>1. at[2] \in Cells
        BY <2>2, HeldIs
      <4> QED BY <1>1, <3>1, <4>1 DEF Cells
    <3> QED BY <3>1, <3>2, <3>3 DEF Live
  <2> QED BY <2>1, <2>2
<1>5. Live(<<r, h>>, n)'
  <2>1. ring'[r][h] = n /\ h < head' /\ frameIndex' = r
    BY <1>1, <1>2
  <2> QED BY <2>1 DEF Live, Held
<1> QED BY <1>3, <1>4, <1>5

LEMMA PlacesNext ==
  /\ \A b, at, value : Live(at, value)' /\ at = address'[b] /\ value = meant'[b] => SlotLive(b)'
  /\ \A b, at, value : Live(at, value)' /\ at = bound'[b] /\ value = meant'[b] => BoundLive(b)'
  /\ \A s, at, value : Held(at, value)' /\ at = dynamicOffsets'[s] /\ value = meant'[s] => OffsetHeld(s)'
  /\ \A s : meant'[s] = 0 => SlotLive(s)' /\ BoundLive(s)' /\ OffsetHeld(s)'
BY DEF SlotLive, BoundLive, OffsetHeld, Live, Held

\* A step that keeps the contents of every place and what a slot has keeps it intact.
LEMMA IntactNext ==
  ASSUME MeantTyped, \A at : Keeps(at), NEW s \in Slots, meant'[s] = meant[s]
  PROVE  /\ address'[s] = address[s] /\ SlotLive(s) => SlotLive(s)'
         /\ bound'[s] = bound[s] /\ BoundLive(s) => BoundLive(s)'
         /\ dynamicOffsets'[s] = dynamicOffsets[s] /\ OffsetHeld(s) => OffsetHeld(s)'
<1>1. PICK value \in Nat : value = meant[s]
  BY DEF MeantTyped
<1>2. \A at : (Live(at, value) => Live(at, value)') /\ (Held(at, value) => Held(at, value)')
  BY DEF Keeps
<1>3. PICK a : a = address[s]
  OBVIOUS
<1>4. PICK d : d = dynamicOffsets[s]
  OBVIOUS
<1>5. PICK p : p = bound[s]
  OBVIOUS
<1>6. address'[s] = address[s] /\ SlotLive(s) => SlotLive(s)'
  <2> SUFFICES ASSUME address'[s] = address[s], SlotLive(s) PROVE SlotLive(s)'
    OBVIOUS
  <2>1. Live(a, value)
    BY <1>1, <1>3 DEF SlotLive
  <2>2. Live(a, value)'
    BY <1>2, <2>1
  <2> QED BY <1>1, <1>3, <2>2, PlacesNext
<1>7. bound'[s] = bound[s] /\ BoundLive(s) => BoundLive(s)'
  <2> SUFFICES ASSUME bound'[s] = bound[s], BoundLive(s) PROVE BoundLive(s)'
    OBVIOUS
  <2>1. Live(p, value)
    BY <1>1, <1>5 DEF BoundLive
  <2>2. Live(p, value)'
    BY <1>2, <2>1
  <2> QED BY <1>1, <1>5, <2>2, PlacesNext
<1>8. dynamicOffsets'[s] = dynamicOffsets[s] /\ OffsetHeld(s) => OffsetHeld(s)'
  <2> SUFFICES ASSUME dynamicOffsets'[s] = dynamicOffsets[s], OffsetHeld(s) PROVE OffsetHeld(s)'
    OBVIOUS
  <2>1. Held(d, value)
    BY <1>1, <1>4 DEF OffsetHeld
  <2>2. Held(d, value)'
    BY <1>2, <2>1
  <2> QED BY <1>1, <1>4, <2>2, PlacesNext
<1> QED BY <1>6, <1>7, <1>8

LEMMA SlotsAre ==
  /\ \A b \in Uniforms : b \in Slots /\ b # "constants"
  /\ "constants" \in Slots /\ "frame" \in Uniforms /\ "object" \in Uniforms
BY DEF Slots, Uniforms

\* What the calls of a pass do to the slots, Vulkan
LEMMA VkSlots ==
  ASSUME MemoryTyped, CountersTyped, RingInv, SlotsInv, Records, plugin = "vulkan", plugin' = plugin,
         UNCHANGED frameIndex
  PROVE  RingInv' /\ SlotsInv' /\ \A at : Keeps(at)
<1> USE DEF vkVars
<1>0. RingTyped /\ MeantTyped
  BY DEF MemoryTyped
<1>1. ASSUME UNCHANGED <<memory, meant, address>>, dynamicOffsets'["constants"] = dynamicOffsets["constants"]
      PROVE  RingInv' /\ SlotsInv' /\ \A at : Keeps(at)
  <2>1. \A at : Keeps(at)
    BY <1>1, SameKeeps DEF memory
  <2>2. RingInv'
    BY <1>1 DEF RingInv, memory
  <2>3. \A b \in Uniforms : SlotLive(b)'
    BY <1>0, <1>1, <2>1, IntactNext, SlotsAre DEF SlotsInv
  <2>4. OffsetHeld("constants")'
    BY <1>0, <1>1, <2>1, IntactNext, SlotsAre DEF SlotsInv
  <2> QED BY <1>1, <2>1, <2>2, <2>3, <2>4 DEF SlotsInv
<1>2. CASE vk_cmd_push_constants
  <2>1. PICK cell \in Cells :
          /\ cell = head \/ (cell = 0 /\ head = RingCells)
          /\ Store(0, cell, "constants") /\ UNCHANGED address
          /\ dynamicOffsets' = [dynamicOffsets EXCEPT !["constants"] = <<0, cell>>]
    BY <1>0, <1>2, HeadCell DEF vk_cmd_push_constants
  <2>2. PICK n : n = stores + 1
    OBVIOUS
  <2>3. /\ RingInv' /\ \A at : Keeps(at)
        /\ Held(<<0, cell>>, n)' /\ n \in Nat \ {0} /\ meant' = [meant EXCEPT !["constants"] = n]
    BY <1>0, <2>1, <2>2, StoreKeeps, SlotsAre
  <2>4. \A b \in Uniforms : SlotLive(b)' /\ meant'[b] = meant[b]
    <3>1. \A b \in Uniforms : meant'[b] = meant[b] /\ b \in Slots
      BY <1>0, <2>3, SlotsAre DEF MeantTyped
    <3> QED BY <1>0, <2>1, <2>3, <3>1, IntactNext DEF SlotsInv
  <2>5. OffsetHeld("constants")'
    <3>1. dynamicOffsets'["constants"] = <<0, cell>> /\ meant'["constants"] = n
      BY <1>0, <2>1, <2>3, SlotsAre DEF MemoryTyped, OffsetsTyped, MeantTyped
    <3> QED BY <2>3, <3>1, PlacesNext
  <2> QED BY <2>1, <2>3, <2>4, <2>5 DEF SlotsInv
<1>3. ASSUME NEW b \in Uniforms, vk_update_buffer(b)
      PROVE  RingInv' /\ SlotsInv' /\ \A at : Keeps(at)
  <2>0. UNCHANGED dynamicOffsets
    BY <1>3 DEF vk_update_buffer
  <2>1. CASE /\ head < RingCells
             /\ Store(0, head, b) /\ address' = [address EXCEPT ![b] = <<0, head>>]
    <3>1. PICK cell \in Cells : cell = head
      BY <1>0, <2>1, HeadCell
    <3>2. PICK n : n = stores + 1
      OBVIOUS
    <3>3. /\ RingInv' /\ \A at : Keeps(at)
          /\ Held(<<0, cell>>, n)' /\ n \in Nat \ {0} /\ meant' = [meant EXCEPT ![b] = n]
      BY <1>0, <2>1, <3>1, <3>2, StoreKeeps, SlotsAre
    <3>4. \A s \in Slots : /\ meant'[s] = IF s = b THEN n ELSE meant[s]
                           /\ address'[s] = IF s = b THEN <<0, cell>> ELSE address[s]
      BY <1>0, <2>1, <3>1, <3>3 DEF MeantTyped, MemoryTyped, AddressTyped
    <3>5. \A s \in Uniforms : SlotLive(s)'
      <4>1. \A s \in Uniforms : s # b => SlotLive(s)'
        BY <1>0, <3>3, <3>4, IntactNext, SlotsAre DEF SlotsInv
      <4>2. SlotLive(b)'
        <5>1. Live(<<0, cell>>, n)'
          BY <3>3, HeldIsNext
        <5> QED BY <3>4, <5>1, PlacesNext, SlotsAre
      <4> QED BY <4>1, <4>2
    <3>6. OffsetHeld("constants")'
      <4>1. meant'["constants"] = meant["constants"]
        BY <3>4, SlotsAre
      <4> QED BY <1>0, <2>0, <3>3, <4>1, IntactNext, SlotsAre DEF SlotsInv
    <3>7. \A s \in Uniforms : meant'[s] # 0 => address'[s] # None
      BY <3>4, SlotsAre DEF SlotsInv, None
    <3> QED BY <3>3, <3>5, <3>6, <3>7 DEF SlotsInv
  <2>2. CASE Refuse(b)
    <3>1. UNCHANGED <<memory, address>> /\ meant' = [meant EXCEPT ![b] = 0]
      BY <2>2 DEF Refuse
    <3>2. \A at : Keeps(at)
      BY <3>1, SameKeeps DEF memory
    <3>3. \A s \in Slots : meant'[s] = IF s = b THEN 0 ELSE meant[s]
      BY <1>0, <3>1 DEF MeantTyped
    <3>4. \A s \in Uniforms : SlotLive(s)'
      BY <1>0, <3>1, <3>2, <3>3, IntactNext, PlacesNext, SlotsAre DEF SlotsInv
    <3>5. OffsetHeld("constants")'
      BY <1>0, <2>0, <3>2, <3>3, IntactNext, SlotsAre DEF SlotsInv
    <3>6. RingInv'
      BY <3>1 DEF RingInv, memory
    <3> QED BY <3>1, <3>2, <3>3, <3>4, <3>5, <3>6, SlotsAre DEF SlotsInv
  <2> QED BY <1>3, <2>1, <2>2 DEF vk_update_buffer
<1>4. ASSUME NEW b \in Uniforms, vk_cmd_bind_uniform(b)
      PROVE  RingInv' /\ SlotsInv' /\ \A at : Keeps(at)
  BY <1>1, <1>4, SlotsAre DEF vk_cmd_bind_uniform, MemoryTyped, OffsetsTyped
<1>5. CASE vk_cmd_set_vertex_buffer \/ vk_cmd_set_index_buffer \/ vk_unmodelled
  BY <1>1, <1>5 DEF vk_cmd_set_vertex_buffer, vk_cmd_set_index_buffer, vk_unmodelled, slots
<1>6. ASSUME NEW pass \in Passes \cup {"Clear"}, vk_cmd_begin_pass(pass)
      PROVE  RingInv' /\ SlotsInv' /\ \A at : Keeps(at)
  BY <1>1, <1>6 DEF vk_cmd_begin_pass, slots
<1>7. ASSUME NEW pass \in Passes, vk_cmd_set_pipeline(pass) \/ vk_cmd_draw_indexed(pass)
      PROVE  RingInv' /\ SlotsInv' /\ \A at : Keeps(at)
  BY <1>1, <1>7 DEF vk_cmd_set_pipeline, vk_cmd_draw_indexed, slots
<1> QED BY <1>2, <1>3, <1>4, <1>5, <1>6, <1>7 DEF Records

LEMMA LiveNext ==
  ASSUME MeantTyped, \A at : \A value \in Nat : Live(at, value) => Live(at, value)',
         NEW s \in Slots, meant'[s] = meant[s]
  PROVE  /\ address'[s] = address[s] /\ SlotLive(s) => SlotLive(s)'
         /\ bound'[s] = bound[s] /\ BoundLive(s) => BoundLive(s)'
<1>1. PICK value \in Nat : value = meant[s]
  BY DEF MeantTyped
<1>2. PICK a : a = address[s]
  OBVIOUS
<1>3. PICK p : p = bound[s]
  OBVIOUS
<1>4. address'[s] = address[s] /\ SlotLive(s) => SlotLive(s)'
  <2> SUFFICES ASSUME address'[s] = address[s], SlotLive(s) PROVE SlotLive(s)'
    OBVIOUS
  <2>1. Live(a, value)'
    BY <1>1, <1>2 DEF SlotLive
  <2> QED BY <1>1, <1>2, <2>1, PlacesNext
<1>5. bound'[s] = bound[s] /\ BoundLive(s) => BoundLive(s)'
  <2> SUFFICES ASSUME bound'[s] = bound[s], BoundLive(s) PROVE BoundLive(s)'
    OBVIOUS
  <2>1. Live(p, value)'
    BY <1>1, <1>3 DEF BoundLive
  <2> QED BY <1>1, <1>3, <2>1, PlacesNext
<1> QED BY <1>4, <1>5

\* What Direct3D keeps while its frame context is the same
DxKeeps ==
  /\ \A at, value : Live(at, value) => Live(at, value)'
  /\ \A at, value : Held(at, value) /\ (at[1] = frameIndex => at[2] < head) => Held(at, value)'
  /\ head <= head'

LEMMA DxSame == RingTyped /\ UNCHANGED <<ring, head, frameIndex, plugin>> => DxKeeps
BY DEF DxKeeps, Held, Live, RingTyped

LEMMA DxSlots ==
  ASSUME MemoryTyped, CountersTyped, SlotsInv, Records, plugin = "d3d12",
         UNCHANGED <<plugin, frameIndex, made>>,
         \A b \in Uniforms : dx_update_buffer(b) => b \in made
  PROVE  SlotsInv' /\ DxKeeps
<1> USE DEF dxVars
<1>0. RingTyped /\ MeantTyped
  BY DEF MemoryTyped
<1>1. ASSUME UNCHANGED <<memory, meant, address>>
      PROVE  SlotsInv' /\ DxKeeps
  <2>1. DxKeeps
    BY <1>0, <1>1, DxSame DEF memory
  <2>2. \A b \in Uniforms : SlotLive(b)'
    BY <1>0, <1>1, <2>1, LiveNext, SlotsAre DEF SlotsInv, DxKeeps
  <2> QED BY <1>1, <2>1, <2>2 DEF SlotsInv
<1>2. ASSUME NEW b \in Uniforms, dx_update_buffer(b)
      PROVE  SlotsInv' /\ DxKeeps
  <2>1. CASE /\ head < RingCells
             /\ Store(frameIndex, head, b) /\ address' = [address EXCEPT ![b] = <<frameIndex, head>>]
    <3>1. PICK h \in Nat : h = head
      BY <1>0 DEF RingTyped
    <3>2. PICK r \in Rings : r = frameIndex
      BY DEF CountersTyped
    <3>3. PICK n \in Nat \ {0} : n = stores + 1
      BY <1>0 DEF RingTyped
    <3>4. /\ ring' = [ring EXCEPT ![frameIndex][head] = n] /\ head' = head + 1
          /\ meant' = [meant EXCEPT ![b] = n]
      BY <2>1, <3>3 DEF Store
    <3>5. /\ \A at, value : Live(at, value) => Live(at, value)'
          /\ \A at, value : Held(at, value) /\ (at[1] = frameIndex => at[2] < head) => Held(at, value)'
          /\ Live(<<r, h>>, n)'
      BY <1>0, <2>1, <3>1, <3>2, <3>4, HeadKeeps
    <3>6. \A s \in Slots : /\ meant'[s] = IF s = b THEN n ELSE meant[s]
                           /\ address'[s] = IF s = b THEN <<r, h>> ELSE address[s]
      BY <1>0, <2>1, <3>1, <3>2, <3>4 DEF MeantTyped, MemoryTyped, AddressTyped
    <3>7. \A s \in Uniforms : SlotLive(s)'
      <4>1. \A s \in Uniforms : s # b => SlotLive(s)'
        BY <1>0, <3>5, <3>6, LiveNext, SlotsAre DEF SlotsInv
      <4>2. SlotLive(b)'
        BY <3>5, <3>6, PlacesNext, SlotsAre
      <4> QED BY <4>1, <4>2
    <3>8. meant'["constants"] = 0 /\ \A s \in Uniforms : meant'[s] # 0 => s \in made'
      BY <1>2, <3>6, SlotsAre DEF SlotsInv
    <3>9. DxKeeps
      BY <1>0, <3>4, <3>5 DEF DxKeeps, RingTyped
    <3> QED BY <3>7, <3>8, <3>9 DEF SlotsInv
  <2>2. CASE Refuse(b)
    <3>1. UNCHANGED <<memory, address>> /\ meant' = [meant EXCEPT ![b] = 0]
      BY <2>2 DEF Refuse
    <3>2. DxKeeps
      BY <1>0, <3>1, DxSame DEF memory
    <3>3. \A s \in Slots : meant'[s] = IF s = b THEN 0 ELSE meant[s]
      BY <1>0, <3>1 DEF MeantTyped
    <3>4. \A s \in Uniforms : SlotLive(s)'
      BY <1>0, <3>1, <3>2, <3>3, LiveNext, PlacesNext, SlotsAre DEF SlotsInv, DxKeeps
    <3> QED BY <3>2, <3>3, <3>4, SlotsAre DEF SlotsInv
  <2> QED BY <1>2, <2>1, <2>2 DEF dx_update_buffer
<1>3. CASE dx_cmd_push_constants \/ dx_cmd_set_vertex_buffer \/ dx_cmd_set_index_buffer \/ dx_unmodelled
  BY <1>1, <1>3 DEF dx_cmd_push_constants, dx_cmd_set_vertex_buffer, dx_cmd_set_index_buffer, dx_unmodelled, slots
<1>4. ASSUME NEW pass \in Passes \cup {"Clear"}, dx_cmd_begin_pass(pass)
      PROVE  SlotsInv' /\ DxKeeps
  BY <1>1, <1>4 DEF dx_cmd_begin_pass, slots
<1>5. ASSUME NEW pass \in Passes, dx_cmd_set_pipeline(pass) \/ dx_cmd_draw_indexed(pass)
      PROVE  SlotsInv' /\ DxKeeps
  BY <1>1, <1>5 DEF dx_cmd_set_pipeline, dx_cmd_draw_indexed, slots
<1>6. ASSUME NEW b \in Uniforms, dx_cmd_bind_uniform(b)
      PROVE  SlotsInv' /\ DxKeeps
  BY <1>1, <1>6 DEF dx_cmd_bind_uniform
<1> QED BY <1>2, <1>3, <1>4, <1>5, <1>6 DEF Records

LEMMA MtlSlots ==
  ASSUME MemoryTyped, CountersTyped, RingInv, SlotsInv, Records, plugin = "metal", plugin' = plugin,
         UNCHANGED frameIndex
  PROVE  RingInv' /\ SlotsInv' /\ \A at : Keeps(at)
<1> USE DEF mtlVars
<1>0. RingTyped /\ MeantTyped
  BY DEF MemoryTyped
<1>1. ASSUME UNCHANGED <<memory, meant, address>>
      PROVE  RingInv' /\ SlotsInv' /\ \A at : Keeps(at)
  <2>1. \A at : Keeps(at)
    BY <1>1, SameKeeps DEF memory
  <2>2. RingInv'
    BY <1>1 DEF RingInv, memory
  <2>3. \A b \in Uniforms : SlotLive(b)'
    BY <1>0, <1>1, <2>1, IntactNext, SlotsAre DEF SlotsInv
  <2> QED BY <1>1, <2>1, <2>2, <2>3 DEF SlotsInv
<1>2. ASSUME NEW b \in Uniforms, mtl_update_buffer(b)
      PROVE  RingInv' /\ SlotsInv' /\ \A at : Keeps(at)
  <2>1. PICK cell \in Cells : /\ cell = head \/ (cell = 0 /\ head = RingCells)
                              /\ Store(0, cell, b) /\ address' = [address EXCEPT ![b] = <<0, cell>>]
    BY <1>0, <1>2, HeadCell DEF mtl_update_buffer
  <2>2. PICK n : n = stores + 1
    OBVIOUS
  <2>3. /\ RingInv' /\ \A at : Keeps(at)
        /\ Held(<<0, cell>>, n)' /\ n \in Nat \ {0} /\ meant' = [meant EXCEPT ![b] = n]
    BY <1>0, <2>1, <2>2, StoreKeeps, SlotsAre
  <2>4. \A s \in Slots : /\ meant'[s] = IF s = b THEN n ELSE meant[s]
                         /\ address'[s] = IF s = b THEN <<0, cell>> ELSE address[s]
    BY <1>0, <2>1, <2>3 DEF MeantTyped, MemoryTyped, AddressTyped
  <2>5. \A s \in Uniforms : SlotLive(s)'
    <3>1. \A s \in Uniforms : s # b => SlotLive(s)'
      BY <1>0, <2>3, <2>4, IntactNext, SlotsAre DEF SlotsInv
    <3>2. SlotLive(b)'
      <4>1. Live(<<0, cell>>, n)'
        BY <2>3, HeldIsNext
      <4> QED BY <2>4, <4>1, PlacesNext, SlotsAre
    <3> QED BY <3>1, <3>2
  <2>6. meant'["constants"] = 0
    BY <2>4, SlotsAre DEF SlotsInv
  <2> QED BY <2>3, <2>5, <2>6 DEF SlotsInv
<1>3. CASE mtl_cmd_push_constants \/ mtl_cmd_set_vertex_buffer \/ mtl_cmd_set_index_buffer \/ mtl_unmodelled
  BY <1>1, <1>3 DEF mtl_cmd_push_constants, mtl_cmd_set_vertex_buffer, mtl_cmd_set_index_buffer,
                    mtl_unmodelled, slots
<1>4. ASSUME NEW pass \in Passes \cup {"Clear"}, mtl_cmd_begin_pass(pass) \/ mtl_cmd_end_pass(pass)
      PROVE  RingInv' /\ SlotsInv' /\ \A at : Keeps(at)
  BY <1>1, <1>4 DEF mtl_cmd_begin_pass, mtl_cmd_end_pass, slots
<1>5. ASSUME NEW pass \in Passes, mtl_cmd_set_pipeline(pass) \/ mtl_cmd_draw_indexed(pass)
      PROVE  RingInv' /\ SlotsInv' /\ \A at : Keeps(at)
  BY <1>1, <1>5 DEF mtl_cmd_set_pipeline, mtl_cmd_draw_indexed, slots
<1>6. ASSUME NEW b \in Uniforms, mtl_cmd_bind_uniform(b)
      PROVE  RingInv' /\ SlotsInv' /\ \A at : Keeps(at)
  BY <1>1, <1>6 DEF mtl_cmd_bind_uniform
<1> QED BY <1>2, <1>3, <1>4, <1>5, <1>6 DEF Records

\* An iteration that draws nothing updates no buffer.
Undrawn(s) == s \in Seq(Calls) /\ \A i \in DOMAIN s : s[i][1] # "update_buffer"

LEMMA UndrawnConcat ==
  ASSUME NEW s, NEW t, Undrawn(s), Undrawn(t)
  PROVE  Undrawn(s \o t)
<1> DEFINE u == s \o t
<1>1. /\ s \in Seq(Calls) /\ t \in Seq(Calls) /\ u \in Seq(Calls)
      /\ DOMAIN s = 1 .. Len(s) /\ DOMAIN t = 1 .. Len(t) /\ DOMAIN u = 1 .. Len(s) + Len(t)
      /\ \A i \in 1 .. Len(s) : u[i] = s[i]
      /\ \A i \in 1 .. Len(t) : u[Len(s) + i] = t[i]
      /\ \A i \in 1 .. Len(s) + Len(t) :
           i \in 1 .. Len(s) \/ (i - Len(s) \in 1 .. Len(t) /\ i = Len(s) + (i - Len(s)))
  BY ConcatAt DEF Undrawn
<1> HIDE DEF u
<1>2. \A i \in DOMAIN u : u[i][1] # "update_buffer"
  <2> SUFFICES ASSUME NEW i \in DOMAIN u PROVE u[i][1] # "update_buffer"
    OBVIOUS
  <2>1. CASE i \in DOMAIN s
    BY <1>1, <2>1 DEF Undrawn
  <2>2. CASE i - Len(s) \in 1 .. Len(t) /\ i = Len(s) + (i - Len(s))
    <3>1. u[i] = t[i - Len(s)]
      BY <1>1, <2>2
    <3> QED BY <1>1, <2>2, <3>1 DEF Undrawn
  <2> QED BY <1>1, <2>1, <2>2
<1> QED BY <1>1, <1>2 DEF Undrawn, u

LEMMA NothingDrawn == Undrawn(Script[{}])
<1>1. \A c \in Calls : c[1] # "update_buffer" => Undrawn(<<c>>)
  BY DEF Undrawn
<1>2. \A c, e \in Calls : c[1] # "update_buffer" /\ e[1] # "update_buffer" => Undrawn(<<c, e>>)
  BY DEF Undrawn
<1>3. \A op \in Frame : <<op, "none">> \in Calls /\ <<op, "none">>[1] = op /\ op # "update_buffer"
  BY DEF Calls, Args, Frame
<1>4. ASSUME NEW name \in {"Clear", "Forward", "UI_Pass"} PROVE Undrawn(Pass(name, {}))
  <2>1. /\ <<"cmd_begin_pass", name>> \in Calls /\ <<"cmd_end_pass", name>> \in Calls
        /\ <<"cmd_begin_pass", name>>[1] = "cmd_begin_pass" /\ <<"cmd_end_pass", name>>[1] = "cmd_end_pass"
    BY DEF Calls, Recordings, Args
  <2>2. Undrawn(<<<<"cmd_begin_pass", name>>>>) /\ Undrawn(<<<<"cmd_end_pass", name>>>>)
    BY <1>1, <2>1
  <2>3. Undrawn(<<>>)
    BY DEF Undrawn
  <2>4. Pass(name, {}) = (<<<<"cmd_begin_pass", name>>>> \o <<>>) \o <<<<"cmd_end_pass", name>>>>
    BY DEF Pass
  <2> HIDE DEF Pass
  <2>5. Undrawn(<<<<"cmd_begin_pass", name>>>> \o <<>>)
    BY <2>2, <2>3, UndrawnConcat
  <2> QED BY <2>2, <2>4, <2>5, UndrawnConcat
<1> DEFINE a == <<<<"begin_frame", "none">>, <<"buildDrawList", "none">>>>
           c == <<<<"begin_commands", "none">>>>
           e == <<<<"end_commands", "none">>, <<"submit", "none">>>>
           f == <<<<"present", "none">>, <<"end_frame", "none">>>>
<1>5. Undrawn(a) /\ Undrawn(c) /\ Undrawn(e) /\ Undrawn(f)
  <2>1. /\ "begin_frame" \in Frame /\ "buildDrawList" \in Frame /\ "begin_commands" \in Frame
        /\ "end_commands" \in Frame /\ "submit" \in Frame /\ "present" \in Frame /\ "end_frame" \in Frame
    BY DEF Frame
  <2> QED BY <1>1, <1>2, <1>3, <2>1
<1>6. Script[{}] =
        (a \o ((((c \o Pass("Clear", {})) \o Pass("Forward", {})) \o Pass("UI_Pass", {})) \o e)) \o f
  BY DEF Script, Execute
<1> HIDE DEF a, c, e, f
<1>7. Undrawn(Pass("Clear", {})) /\ Undrawn(Pass("Forward", {})) /\ Undrawn(Pass("UI_Pass", {}))
  BY <1>4
<1>8. Undrawn((c \o Pass("Clear", {})) \o Pass("Forward", {}))
  <2>1. Undrawn(c \o Pass("Clear", {}))
    BY <1>5, <1>7, UndrawnConcat
  <2> QED BY <1>7, <2>1, UndrawnConcat
<1>9. Undrawn(((c \o Pass("Clear", {})) \o Pass("Forward", {})) \o Pass("UI_Pass", {}))
  BY <1>7, <1>8, UndrawnConcat
<1>10. Undrawn((((c \o Pass("Clear", {})) \o Pass("Forward", {})) \o Pass("UI_Pass", {})) \o e)
  BY <1>5, <1>9, UndrawnConcat
<1>11. Undrawn(a \o ((((c \o Pass("Clear", {})) \o Pass("Forward", {})) \o Pass("UI_Pass", {})) \o e))
  BY <1>5, <1>10, UndrawnConcat
<1> QED BY <1>5, <1>6, <1>11, UndrawnConcat

LEMMA UpdatesDraw ==
  ASSUME PlaceInv, call > 0, Script[draws][call][1] = "update_buffer"
  PROVE  draws # {}
<1> SUFFICES ASSUME draws = {} PROVE FALSE
  OBVIOUS
<1>1. call \in DOMAIN Script[{}]
  <2>1. Script[{}] \in Seq(Calls) /\ last = Len(Script[{}])
    BY NothingDrawn DEF Undrawn, last
  <2>2. DOMAIN Script[{}] = 1 .. last
    BY <2>1, LenProperties
  <2> QED BY <2>2, ScriptLength DEF PlaceInv
<1> QED BY <1>1, NothingDrawn DEF Undrawn

LEMMA ResourcesAre ==
  /\ Len(Resources) = 6
  /\ \A i, j \in 1 .. Len(Resources) : Resources[i] = Resources[j] => i = j
BY DEF Resources

LEMMA MadeInvStep == TypeInv /\ MadeInv /\ Moves => MadeInv'
<1> SUFFICES ASSUME creating \in Nat \ {0}, MadeInv, Moves PROVE MadeInv'
  BY DEF TypeInv, CountersTyped
<1> DEFINE Old == \A x \in made : \E i \in 1 .. Len(Resources) : i < creating /\ x = Resources[i]
<1>1. ASSUME UNCHANGED creation, draws' = {} \/ UNCHANGED draws \/ (draws' # {} => DrawNeeds \subseteq made)
      PROVE  MadeInv'
  BY <1>1 DEF MadeInv, creation
<1>2. ASSUME UNCHANGED draws, made' = made \/ Made, creating' = creating + 1, creating <= Len(Resources), step' = "idle"
      PROVE  MadeInv'
  <2>1. \A x \in made : \E i \in 1 .. Len(Resources) : i < creating' /\ x = Resources[i]
    BY <1>2, ResourcesAre DEF MadeInv
  <2>2. creating \in 1 .. Len(Resources) /\ creating < creating'
    BY <1>2, ResourcesAre
  <2>3. \A x \in made' : \E i \in 1 .. Len(Resources) : i < creating' /\ x = Resources[i]
    BY <1>2, <2>1, <2>2 DEF Made
  <2> QED BY <1>2, <2>3 DEF MadeInv, Made
<1>3. CASE Quiet
  BY <1>1, <1>3 DEF Quiet, Staying
<1>4. CASE Recording \/ Finishes \/ ShutsDown \/ Redraws \/ Resizes
  BY <1>1, <1>4 DEF Recording, Finishes, Finish, ShutsDown, Redraws, Resizes, Staying
<1>5. CASE FrameMoves
  BY <1>1, <1>5 DEF FrameMoves, VkBegins, DxBegins, MtlBegins, VkRecords, MtlRecords, Closes, VkSubmits,
                    DxSubmits, DxPresents, MtlPresents, MtlEnds
<1>6. CASE Makes \/ DxStages
  BY <1>2, <1>6 DEF Makes, DxStages
<1>7. CASE HandsOut \/ EndsCopy
  <2>1. creating <= Len(Resources)
    BY <1>7 DEF HandsOut, EndsCopy, MadeInv
  <2>2. CASE UNCHANGED <<made, creating, draws>>
    BY <2>1, <2>2 DEF MadeInv
  <2> QED BY <1>2, <1>7, <2>1, <2>2 DEF HandsOut, EndsCopy
<1>8. CASE StartsCopy
  BY <1>8 DEF StartsCopy, MadeInv
<1> QED BY <1>3, <1>4, <1>5, <1>6, <1>7, <1>8 DEF Moves, OtherMoves

-----------------------------------------------------------------------------
(* The calls of a draw *)

\* What call c is, k calls after its pipeline was set.
InBlock(c, k) ==
  /\ k = 0 => c[1] = "cmd_set_pipeline"
  /\ k = 1 => c[1] = "update_buffer" /\ c[2] = "frame"
  /\ k = 2 => c[1] = "cmd_bind_uniform" /\ c[2] = "frame"
  /\ k = 3 => c[1] = "cmd_set_vertex_buffer"
  /\ k = 4 => c[1] = "cmd_set_index_buffer"
  /\ k = 5 => c[1] = "cmd_push_constants"
  /\ k = 6 => c[1] = "update_buffer" /\ c[2] = "object"
  /\ k = 7 => c[1] = "cmd_bind_uniform" /\ c[2] = "object"
  /\ k = 8 => c[1] \in {"cmd_draw_indexed", "cmd_set_scissor"}

\* Each call is the action of its name.
VkIs(c) ==
  /\ c[1] = "cmd_set_pipeline" => \E pass \in Passes : vk_cmd_set_pipeline(pass)
  /\ c[1] = "update_buffer" => \E b \in Uniforms : b = c[2] /\ vk_update_buffer(b)
  /\ c[1] = "cmd_bind_uniform" => \E b \in Uniforms : b = c[2] /\ vk_cmd_bind_uniform(b)
  /\ c[1] = "cmd_set_vertex_buffer" => vk_cmd_set_vertex_buffer
  /\ c[1] = "cmd_set_index_buffer" => vk_cmd_set_index_buffer
  /\ c[1] = "cmd_push_constants" => vk_cmd_push_constants
  /\ c[1] = "cmd_draw_indexed" => \E pass \in Passes : vk_cmd_draw_indexed(pass)
  /\ c[1] = "cmd_set_scissor" => vk_unmodelled
DxIs(c) ==
  /\ c[1] = "cmd_set_pipeline" => \E pass \in Passes : dx_cmd_set_pipeline(pass)
  /\ c[1] = "update_buffer" => \E b \in Uniforms : b = c[2] /\ dx_update_buffer(b)
  /\ c[1] = "cmd_bind_uniform" => \E b \in Uniforms : b = c[2] /\ dx_cmd_bind_uniform(b)
  /\ c[1] = "cmd_set_vertex_buffer" => dx_cmd_set_vertex_buffer
  /\ c[1] = "cmd_set_index_buffer" => dx_cmd_set_index_buffer
  /\ c[1] = "cmd_push_constants" => dx_cmd_push_constants
  /\ c[1] = "cmd_draw_indexed" => \E pass \in Passes : dx_cmd_draw_indexed(pass)
  /\ c[1] = "cmd_set_scissor" => dx_unmodelled
MtlIs(c) ==
  /\ c[1] = "cmd_set_pipeline" => \E pass \in Passes : mtl_cmd_set_pipeline(pass)
  /\ c[1] = "update_buffer" => \E b \in Uniforms : b = c[2] /\ mtl_update_buffer(b)
  /\ c[1] = "cmd_bind_uniform" => \E b \in Uniforms : b = c[2] /\ mtl_cmd_bind_uniform(b)
  /\ c[1] = "cmd_set_vertex_buffer" => mtl_cmd_set_vertex_buffer
  /\ c[1] = "cmd_set_index_buffer" => mtl_cmd_set_index_buffer
  /\ c[1] = "cmd_push_constants" => mtl_cmd_push_constants
  /\ c[1] = "cmd_draw_indexed" => \E pass \in Passes : mtl_cmd_draw_indexed(pass)
  /\ c[1] = "cmd_set_scissor" => mtl_unmodelled

LEMMA VkCallIs == Records /\ plugin = "vulkan" => VkIs(Script[draws][call])
<1> SUFFICES ASSUME Records, plugin = "vulkan", NEW c, c = Script[draws][call]
             PROVE  VkIs(c)
  OBVIOUS
<1>0. \A op, arg : Calling(op, arg) => c[1] = op /\ c[2] = arg
  BY CallIs
<1>1. CASE vk_cmd_push_constants
  <2>1. c[1] = "cmd_push_constants"
    BY <1>0, <1>1 DEF vk_cmd_push_constants
  <2> QED BY <1>1, <2>1 DEF VkIs
<1>2. CASE vk_cmd_set_vertex_buffer
  <2>1. c[1] = "cmd_set_vertex_buffer"
    BY <1>0, <1>2 DEF vk_cmd_set_vertex_buffer
  <2> QED BY <1>2, <2>1 DEF VkIs
<1>3. CASE vk_cmd_set_index_buffer
  <2>1. c[1] = "cmd_set_index_buffer"
    BY <1>0, <1>3 DEF vk_cmd_set_index_buffer
  <2> QED BY <1>3, <2>1 DEF VkIs
<1>4. ASSUME NEW pass, vk_cmd_begin_pass(pass) PROVE VkIs(c)
  <2>1. c[1] = "cmd_begin_pass"
    BY <1>0, <1>4 DEF vk_cmd_begin_pass
  <2> QED BY <2>1 DEF VkIs
<1>5. ASSUME NEW pass \in Passes, vk_cmd_set_pipeline(pass) PROVE VkIs(c)
  <2>1. c[1] = "cmd_set_pipeline"
    BY <1>0, <1>5 DEF vk_cmd_set_pipeline
  <2> QED BY <1>5, <2>1 DEF VkIs
<1>6. ASSUME NEW pass \in Passes, vk_cmd_draw_indexed(pass) PROVE VkIs(c)
  <2>1. c[1] = "cmd_draw_indexed"
    BY <1>0, <1>6 DEF vk_cmd_draw_indexed
  <2> QED BY <1>6, <2>1 DEF VkIs
<1>7. ASSUME NEW b \in Uniforms, vk_update_buffer(b) PROVE VkIs(c)
  <2>1. c[1] = "update_buffer" /\ c[2] = b
    BY <1>0, <1>7 DEF vk_update_buffer
  <2> QED BY <1>7, <2>1 DEF VkIs
<1>8. ASSUME NEW b \in Uniforms, vk_cmd_bind_uniform(b) PROVE VkIs(c)
  <2>1. c[1] = "cmd_bind_uniform" /\ c[2] = b
    BY <1>0, <1>8 DEF vk_cmd_bind_uniform
  <2> QED BY <1>8, <2>1 DEF VkIs
<1>9. CASE vk_unmodelled
  <2>1. c[1] \in {"cmd_set_scissor", "end_frame", "cmd_end_pass"}
    BY <1>0, <1>9 DEF vk_unmodelled
  <2> QED BY <1>9, <2>1 DEF VkIs
<1> QED BY <1>1, <1>2, <1>3, <1>4, <1>5, <1>6, <1>7, <1>8, <1>9 DEF Records

LEMMA DxCallIs == Records /\ plugin = "d3d12" => DxIs(Script[draws][call])
<1> SUFFICES ASSUME Records, plugin = "d3d12", NEW c, c = Script[draws][call]
             PROVE  DxIs(c)
  OBVIOUS
<1>0. \A op, arg : Calling(op, arg) => c[1] = op /\ c[2] = arg
  BY CallIs
<1>1. CASE dx_cmd_push_constants
  <2>1. c[1] = "cmd_push_constants"
    BY <1>0, <1>1 DEF dx_cmd_push_constants
  <2> QED BY <1>1, <2>1 DEF DxIs
<1>2. CASE dx_cmd_set_vertex_buffer
  <2>1. c[1] = "cmd_set_vertex_buffer"
    BY <1>0, <1>2 DEF dx_cmd_set_vertex_buffer
  <2> QED BY <1>2, <2>1 DEF DxIs
<1>3. CASE dx_cmd_set_index_buffer
  <2>1. c[1] = "cmd_set_index_buffer"
    BY <1>0, <1>3 DEF dx_cmd_set_index_buffer
  <2> QED BY <1>3, <2>1 DEF DxIs
<1>4. ASSUME NEW pass, dx_cmd_begin_pass(pass) PROVE DxIs(c)
  <2>1. c[1] = "cmd_begin_pass"
    BY <1>0, <1>4 DEF dx_cmd_begin_pass
  <2> QED BY <2>1 DEF DxIs
<1>5. ASSUME NEW pass \in Passes, dx_cmd_set_pipeline(pass) PROVE DxIs(c)
  <2>1. c[1] = "cmd_set_pipeline"
    BY <1>0, <1>5 DEF dx_cmd_set_pipeline
  <2> QED BY <1>5, <2>1 DEF DxIs
<1>6. ASSUME NEW pass \in Passes, dx_cmd_draw_indexed(pass) PROVE DxIs(c)
  <2>1. c[1] = "cmd_draw_indexed"
    BY <1>0, <1>6 DEF dx_cmd_draw_indexed
  <2> QED BY <1>6, <2>1 DEF DxIs
<1>7. ASSUME NEW b \in Uniforms, dx_update_buffer(b) PROVE DxIs(c)
  <2>1. c[1] = "update_buffer" /\ c[2] = b
    BY <1>0, <1>7 DEF dx_update_buffer
  <2> QED BY <1>7, <2>1 DEF DxIs
<1>8. ASSUME NEW b \in Uniforms, dx_cmd_bind_uniform(b) PROVE DxIs(c)
  <2>1. c[1] = "cmd_bind_uniform" /\ c[2] = b
    BY <1>0, <1>8 DEF dx_cmd_bind_uniform
  <2> QED BY <1>8, <2>1 DEF DxIs
<1>9. CASE dx_unmodelled
  <2>1. c[1] \in {"cmd_set_scissor", "cmd_end_pass"}
    BY <1>0, <1>9 DEF dx_unmodelled
  <2> QED BY <1>9, <2>1 DEF DxIs
<1> QED BY <1>1, <1>2, <1>3, <1>4, <1>5, <1>6, <1>7, <1>8, <1>9 DEF Records

LEMMA MtlCallIs == Records /\ plugin = "metal" => MtlIs(Script[draws][call])
<1> SUFFICES ASSUME Records, plugin = "metal", NEW c, c = Script[draws][call]
             PROVE  MtlIs(c)
  OBVIOUS
<1>0. \A op, arg : Calling(op, arg) => c[1] = op /\ c[2] = arg
  BY CallIs
<1>1. CASE mtl_cmd_push_constants
  <2>1. c[1] = "cmd_push_constants"
    BY <1>0, <1>1 DEF mtl_cmd_push_constants
  <2> QED BY <1>1, <2>1 DEF MtlIs
<1>2. CASE mtl_cmd_set_vertex_buffer
  <2>1. c[1] = "cmd_set_vertex_buffer"
    BY <1>0, <1>2 DEF mtl_cmd_set_vertex_buffer
  <2> QED BY <1>2, <2>1 DEF MtlIs
<1>3. CASE mtl_cmd_set_index_buffer
  <2>1. c[1] = "cmd_set_index_buffer"
    BY <1>0, <1>3 DEF mtl_cmd_set_index_buffer
  <2> QED BY <1>3, <2>1 DEF MtlIs
<1>4. ASSUME NEW pass, mtl_cmd_begin_pass(pass) \/ mtl_cmd_end_pass(pass) PROVE MtlIs(c)
  <2>1. c[1] \in {"cmd_begin_pass", "cmd_end_pass"}
    BY <1>0, <1>4 DEF mtl_cmd_begin_pass, mtl_cmd_end_pass
  <2> QED BY <2>1 DEF MtlIs
<1>5. ASSUME NEW pass \in Passes, mtl_cmd_set_pipeline(pass) PROVE MtlIs(c)
  <2>1. c[1] = "cmd_set_pipeline"
    BY <1>0, <1>5 DEF mtl_cmd_set_pipeline
  <2> QED BY <1>5, <2>1 DEF MtlIs
<1>6. ASSUME NEW pass \in Passes, mtl_cmd_draw_indexed(pass) PROVE MtlIs(c)
  <2>1. c[1] = "cmd_draw_indexed"
    BY <1>0, <1>6 DEF mtl_cmd_draw_indexed
  <2> QED BY <1>6, <2>1 DEF MtlIs
<1>7. ASSUME NEW b \in Uniforms, mtl_update_buffer(b) PROVE MtlIs(c)
  <2>1. c[1] = "update_buffer" /\ c[2] = b
    BY <1>0, <1>7 DEF mtl_update_buffer
  <2> QED BY <1>7, <2>1 DEF MtlIs
<1>8. ASSUME NEW b \in Uniforms, mtl_cmd_bind_uniform(b) PROVE MtlIs(c)
  <2>1. c[1] = "cmd_bind_uniform" /\ c[2] = b
    BY <1>0, <1>8 DEF mtl_cmd_bind_uniform
  <2> QED BY <1>8, <2>1 DEF MtlIs
<1>9. CASE mtl_unmodelled
  <2>1. c[1] \in {"cmd_set_scissor", "end_commands", "submit"}
    BY <1>0, <1>9 DEF mtl_unmodelled
  <2> QED BY <1>9, <2>1 DEF MtlIs
<1> QED BY <1>1, <1>2, <1>3, <1>4, <1>5, <1>6, <1>7, <1>8, <1>9 DEF Records

\* A bind: Set 0 gets the address of the slot's last store, which is what was meant.
LEMMA VkBindHeld ==
  ASSUME MemoryTyped, SlotsInv, plugin = "vulkan", NEW b \in Uniforms, vk_cmd_bind_uniform(b), \A at : Keeps(at)
  PROVE  /\ OffsetHeld(b)' /\ UNCHANGED meant
         /\ \A s \in Slots : bound'[s] = dynamicOffsets'[s] /\ (s # b => dynamicOffsets'[s] = dynamicOffsets[s])
         /\ \A i \in Inputs \ Slots : bound'[i] = bound[i]
<1>1. /\ dynamicOffsets' = [dynamicOffsets EXCEPT ![b] = IF address[b] = None THEN <<0, 0>> ELSE address[b]]
      /\ BindSet /\ UNCHANGED meant
  BY DEF vk_cmd_bind_uniform
<1>2. MeantTyped /\ DOMAIN dynamicOffsets = Slots /\ b \in Slots
  BY SlotsAre DEF MemoryTyped, OffsetsTyped
<1>3. PICK value \in Nat : value = meant[b]
  BY <1>2 DEF MeantTyped
<1>4. OffsetHeld(b)'
  <2>1. CASE value = 0
    BY <1>1, <1>3, <2>1, PlacesNext
  <2>2. CASE value # 0
    <3>1. PICK a : a = address[b]
      OBVIOUS
    <3>2. Live(a, value) /\ a # None
      BY <1>3, <2>2, <3>1 DEF SlotsInv, SlotLive
    <3>3. Held(a, value)'
      BY <3>2, HeldIs DEF Keeps
    <3>4. dynamicOffsets'[b] = a
      BY <1>1, <1>2, <3>1, <3>2
    <3> QED BY <1>1, <1>3, <3>3, <3>4, PlacesNext
  <2> QED BY <2>1, <2>2
<1>5. \A s \in Slots : s # b => dynamicOffsets'[s] = dynamicOffsets[s]
  BY <1>1, <1>2
<1>6. /\ \A s \in Slots : bound'[s] = dynamicOffsets'[s]
      /\ \A i \in Inputs \ Slots : bound'[i] = bound[i]
  BY <1>1 DEF BindSet, Inputs
<1> QED BY <1>1, <1>4, <1>5, <1>6

LEMMA InputsAre ==
  /\ Slots \subseteq Inputs /\ "vertex" \in Inputs \ Slots /\ "index" \in Inputs \ Slots
  /\ "frame" \in Slots /\ "object" \in Slots /\ "constants" \in Slots
BY DEF Inputs, Slots, Uniforms

LEMMA VkBlockStep ==
  ASSUME MemoryTyped, SlotsInv, plugin = "vulkan", \A at : Keeps(at),
         NEW c, VkIs(c), NEW k \in 0 .. 8, InBlock(c, k), k > 0 => VkBound(k)
  PROVE  VkBound(k + 1)'
<1> USE DEF vkVars
<1>0. MeantTyped /\ DOMAIN meant = Slots /\ DOMAIN bound = Inputs /\ DOMAIN dynamicOffsets = Slots
  BY DEF MemoryTyped, MeantTyped, BoundTyped, OffsetsTyped
<1>1. CASE k = 0
  <2>1. PICK pass : vk_cmd_set_pipeline(pass)
    BY <1>1 DEF InBlock, VkIs
  <2>2. \A s \in Slots : bound'[s] = dynamicOffsets'[s]
    BY <2>1 DEF vk_cmd_set_pipeline, BindSet, Inputs
  <2> QED BY <1>1, <2>2 DEF VkBound
<1>2. CASE k \in {1, 6}
  <2>1. PICK b \in Uniforms : b = c[2] /\ vk_update_buffer(b)
    BY <1>2 DEF InBlock, VkIs
  <2>2. UNCHANGED <<bound, dynamicOffsets>>
    BY <2>1 DEF vk_update_buffer
  <2>3. \A s \in Slots : bound'[s] = dynamicOffsets'[s]
    BY <1>2, <2>2 DEF VkBound
  <2>4. CASE k = 6
    <3>1. meant'["frame"] = meant["frame"]
      <4>1. b = "object"
        BY <2>1, <2>4 DEF InBlock
      <4>2. \E n : meant' = [meant EXCEPT !["object"] = n]
        BY <2>1, <4>1 DEF vk_update_buffer, Store, Refuse
      <4> QED BY <1>0, <4>2, InputsAre
    <3>2. OffsetHeld("frame")'
      BY <1>0, <2>2, <2>4, <3>1, IntactNext, InputsAre DEF VkBound
    <3> QED BY <2>2, <2>3, <2>4, <3>2 DEF VkBound
  <2> QED BY <1>2, <2>3, <2>4 DEF VkBound
<1>3. CASE k \in {2, 7}
  <2>1. PICK b \in Uniforms : b = c[2] /\ vk_cmd_bind_uniform(b)
    BY <1>3 DEF InBlock, VkIs
  <2>2. /\ OffsetHeld(b)' /\ UNCHANGED meant
        /\ \A s \in Slots : bound'[s] = dynamicOffsets'[s] /\ (s # b => dynamicOffsets'[s] = dynamicOffsets[s])
        /\ \A i \in Inputs \ Slots : bound'[i] = bound[i]
    BY <2>1, VkBindHeld
  <2>3. CASE k = 2
    <3>1. OffsetHeld("frame")'
      BY <2>1, <2>2, <2>3 DEF InBlock
    <3> QED BY <2>2, <2>3, <3>1 DEF VkBound
  <2>4. CASE k = 7
    <3>1. b = "object"
      BY <2>1, <2>4 DEF InBlock
    <3>2. OffsetHeld("object")'
      BY <2>2, <3>1
    <3>3. OffsetHeld("frame")'
      BY <1>0, <2>2, <2>4, <3>1, IntactNext, InputsAre DEF VkBound
    <3> QED BY <2>2, <2>4, <3>2, <3>3, InputsAre DEF VkBound
  <2> QED BY <1>3, <2>3, <2>4
<1>4. CASE k \in {3, 4}
  <2>1. vk_cmd_set_vertex_buffer \/ vk_cmd_set_index_buffer
    BY <1>4 DEF InBlock, VkIs
  <2>2. UNCHANGED <<meant, dynamicOffsets>>
    BY <2>1 DEF vk_cmd_set_vertex_buffer, vk_cmd_set_index_buffer
  <2>3. \A i \in Slots : bound'[i] = bound[i]
    BY <1>0, <2>1, InputsAre DEF vk_cmd_set_vertex_buffer, vk_cmd_set_index_buffer
  <2>4. OffsetHeld("frame")'
    BY <1>0, <1>4, <2>2, IntactNext, InputsAre DEF VkBound
  <2>5. CASE k = 3
    <3>1. vk_cmd_set_vertex_buffer
      BY <2>5 DEF InBlock, VkIs
    <3>2. bound'["vertex"] = <<"vertex">>
      BY <1>0, <3>1, InputsAre DEF vk_cmd_set_vertex_buffer
    <3> QED BY <2>2, <2>3, <2>4, <2>5, <3>2, PlacesDiffer DEF VkBound
  <2>6. CASE k = 4
    <3>1. vk_cmd_set_index_buffer
      BY <2>6 DEF InBlock, VkIs
    <3>2. bound'["index"] = <<"index">> /\ bound'["vertex"] = bound["vertex"]
      BY <1>0, <3>1, InputsAre DEF vk_cmd_set_index_buffer
    <3> QED BY <2>2, <2>3, <2>4, <2>6, <3>2, PlacesDiffer DEF VkBound
  <2> QED BY <1>4, <2>5, <2>6
<1>5. CASE k = 5
  <2>1. vk_cmd_push_constants
    BY <1>5 DEF InBlock, VkIs
  <2>2. BindSet /\ \E n : meant' = [meant EXCEPT !["constants"] = n]
    BY <2>1 DEF vk_cmd_push_constants, Store
  <2>3. dynamicOffsets'["frame"] = dynamicOffsets["frame"]
    BY <1>0, <2>1, InputsAre DEF vk_cmd_push_constants
  <2>4. meant'["frame"] = meant["frame"]
    BY <1>0, <2>2, InputsAre
  <2>5. OffsetHeld("frame")'
    BY <1>0, <1>5, <2>3, <2>4, IntactNext, InputsAre DEF VkBound
  <2>6. /\ \A s \in Slots : bound'[s] = dynamicOffsets'[s]
        /\ \A i \in Inputs \ Slots : bound'[i] = bound[i]
    BY <2>2, InputsAre DEF BindSet
  <2> QED BY <1>5, <2>5, <2>6, InputsAre DEF VkBound
<1>6. CASE k = 8
  <2>1. vk_unmodelled \/ \E pass \in Passes : vk_cmd_draw_indexed(pass)
    BY <1>6 DEF InBlock, VkIs
  <2>2. UNCHANGED <<slots, dynamicOffsets>>
    BY <2>1 DEF vk_unmodelled, vk_cmd_draw_indexed
  <2>3. OffsetHeld("frame")' /\ OffsetHeld("object")'
    BY <1>0, <1>6, <2>2, IntactNext, InputsAre DEF VkBound, slots
  <2> QED BY <1>6, <2>2, <2>3 DEF VkBound, slots
<1> QED BY <1>1, <1>2, <1>3, <1>4, <1>5, <1>6

\* What the calls of a draw bind, in Direct3D and Metal
BindsUniform(b) == bound' = [bound EXCEPT ![b] = IF address[b] = None THEN <<b>> ELSE address[b]]
Binds(k) ==
  /\ k \in {1, 6, 8} => UNCHANGED bound
  /\ k = 2 => BindsUniform("frame")
  /\ k = 3 => bound' = [bound EXCEPT !["vertex"] = <<"vertex">>]
  /\ k = 4 => bound' = [bound EXCEPT !["index"] = <<"index">>]
  /\ k = 5 => bound' = [bound EXCEPT !["constants"] = <<"inline">>]
  /\ k = 7 => BindsUniform("object")
  /\ k # 1 => meant'["frame"] = meant["frame"]
  /\ k >= 7 => meant'["object"] = meant["object"]

LEMMA BindLive ==
  ASSUME MemoryTyped, SlotsInv, \A at : \A value \in Nat : Live(at, value) => Live(at, value)',
         NEW b \in Uniforms, BindsUniform(b), meant'[b] = meant[b]
  PROVE  /\ bound'[b] # None /\ BoundLive(b)'
         /\ \A i \in Inputs : i # b => bound'[i] = bound[i]
<1>1. MeantTyped /\ DOMAIN bound = Inputs /\ b \in Slots /\ b \in Inputs
  BY SlotsAre, InputsAre DEF MemoryTyped, BoundTyped
<1>2. PICK value \in Nat : value = meant[b]
  BY <1>1 DEF MeantTyped
<1>3. PICK a : a = address[b]
  OBVIOUS
<1>4. \A i \in Inputs : i # b => bound'[i] = bound[i]
  BY <1>1 DEF BindsUniform
<1>5. CASE a = None
  <2>1. bound'[b] = <<b>>
    BY <1>1, <1>3, <1>5 DEF BindsUniform
  <2>2. Live(<<b>>, value)'
    BY PlacesDiffer, HeldIsNext
  <2> QED BY <1>2, <1>4, <2>1, <2>2, PlacesDiffer, PlacesNext
<1>6. CASE a # None
  <2>1. bound'[b] = a
    BY <1>1, <1>3, <1>6 DEF BindsUniform
  <2>2. Live(a, value)
    BY <1>2, <1>3 DEF SlotsInv, SlotLive
  <2>3. Live(a, value)'
    BY <2>2
  <2> QED BY <1>2, <1>4, <1>6, <2>1, <2>3, PlacesNext
<1> QED BY <1>5, <1>6

LEMMA DirectStep ==
  ASSUME MemoryTyped, SlotsInv, \A at : \A value \in Nat : Live(at, value) => Live(at, value)',
         NEW k \in 1 .. 8, Bound(k), Binds(k)
  PROVE  Bound(k + 1)'
<1>0. MeantTyped /\ DOMAIN bound = Inputs
  BY DEF MemoryTyped, BoundTyped
<1>1. ASSUME k # 1, bound'["frame"] = bound["frame"]
      PROVE  BoundLive("frame") => BoundLive("frame")'
  BY <1>0, <1>1, LiveNext, InputsAre DEF Binds
<1>2. CASE k = 1
  BY <1>2 DEF Bound
<1>3. CASE k = 2
  <2>1. bound'["frame"] # None /\ BoundLive("frame")'
    BY <1>3, BindLive, SlotsAre DEF Binds
  <2> QED BY <1>3, <2>1 DEF Bound
<1>4. CASE k \in {3, 4, 5}
  <2>1. /\ k = 3 => bound' = [bound EXCEPT !["vertex"] = <<"vertex">>]
        /\ k = 4 => bound' = [bound EXCEPT !["index"] = <<"index">>]
        /\ k = 5 => bound' = [bound EXCEPT !["constants"] = <<"inline">>]
    BY DEF Binds
  <2>2. /\ bound'["frame"] = bound["frame"]
        /\ bound'["vertex"] = IF k = 3 THEN <<"vertex">> ELSE bound["vertex"]
        /\ bound'["index"] = IF k = 4 THEN <<"index">> ELSE bound["index"]
        /\ bound'["constants"] = IF k = 5 THEN <<"inline">> ELSE bound["constants"]
    BY <1>0, <1>4, <2>1, InputsAre
  <2>3. bound["frame"] # None /\ BoundLive("frame")'
    BY <1>1, <1>4, <2>2 DEF Bound
  <2> QED BY <1>4, <2>2, <2>3, PlacesDiffer DEF Bound
<1>5. CASE k = 6
  <2>1. UNCHANGED bound
    BY <1>5 DEF Binds
  <2>2. BoundLive("frame")'
    BY <1>1, <1>5, <2>1 DEF Bound
  <2> QED BY <1>5, <2>1, <2>2 DEF Bound
<1>6. CASE k = 7
  <2>1. /\ bound'["object"] # None /\ BoundLive("object")'
        /\ \A i \in Inputs : i # "object" => bound'[i] = bound[i]
    BY <1>6, BindLive, SlotsAre DEF Binds
  <2>2. BoundLive("frame")'
    BY <1>1, <1>6, <2>1, InputsAre DEF Bound
  <2> QED BY <1>6, <2>1, <2>2, InputsAre DEF Bound
<1>7. CASE k = 8
  <2>1. UNCHANGED bound
    BY <1>7 DEF Binds
  <2>2. BoundLive("frame")'
    BY <1>1, <1>7, <2>1 DEF Bound
  <2>3. BoundLive("object")'
    BY <1>0, <1>7, <2>1, LiveNext, InputsAre DEF Binds, Bound
  <2> QED BY <1>7, <2>1, <2>2, <2>3 DEF Bound
<1> QED BY <1>2, <1>3, <1>4, <1>5, <1>6, <1>7

LEMMA DxBlockStep ==
  ASSUME MemoryTyped, SlotsInv, \A at, value : Live(at, value) => Live(at, value)',
         NEW c, DxIs(c), NEW k \in 0 .. 8, InBlock(c, k), k > 0 => rootSet /\ Bound(k)
  PROVE  rootSet' /\ Bound(k + 1)'
<1> USE DEF dxVars
<1>0. DOMAIN meant = Slots
  BY DEF MemoryTyped, MeantTyped
<1>1. CASE k = 0
  <2>1. PICK pass : dx_cmd_set_pipeline(pass)
    BY <1>1 DEF InBlock, DxIs
  <2> QED BY <1>1, <2>1 DEF dx_cmd_set_pipeline, Bound
<1>2. CASE k \in {1, 6}
  <2>1. PICK b \in Uniforms : b = c[2] /\ dx_update_buffer(b)
    BY <1>2 DEF InBlock, DxIs
  <2>2. UNCHANGED bound /\ UNCHANGED rootSet
    BY <2>1 DEF dx_update_buffer
  <2>3. \E n : meant' = [meant EXCEPT ![b] = n]
    BY <2>1 DEF dx_update_buffer, Store, Refuse
  <2>4. k = 6 => meant'["frame"] = meant["frame"]
    BY <1>0, <2>1, <2>3, InputsAre DEF InBlock
  <2>5. Binds(k)
    BY <1>2, <2>2, <2>4 DEF Binds
  <2> QED BY <1>2, <2>2, <2>5, DirectStep
<1>3. CASE k \in {2, 7}
  <2>1. PICK b \in Uniforms : b = c[2] /\ dx_cmd_bind_uniform(b)
    BY <1>3 DEF InBlock, DxIs
  <2>2. rootSet /\ UNCHANGED <<meant, rootSet>>
    BY <1>3, <2>1 DEF dx_cmd_bind_uniform
  <2>5. BindsUniform(b)
    <3>1. bound' = [bound EXCEPT ![b] = IF rootSet THEN IF address[b] = None THEN <<b>> ELSE address[b]
                                       ELSE None]
      BY <2>1 DEF dx_cmd_bind_uniform
    <3> QED BY <2>2, <3>1 DEF BindsUniform
  <2>3. Binds(k)
    BY <1>3, <2>1, <2>2, <2>5 DEF Binds, InBlock
  <2> QED BY <1>3, <2>2, <2>3, DirectStep
<1>4. CASE k = 3
  <2>1. dx_cmd_set_vertex_buffer
    BY <1>4 DEF InBlock, DxIs
  <2>2. Binds(k) /\ UNCHANGED rootSet
    BY <1>4, <2>1 DEF dx_cmd_set_vertex_buffer, Binds
  <2> QED BY <1>4, <2>2, DirectStep
<1>5. CASE k = 4
  <2>1. dx_cmd_set_index_buffer
    BY <1>5 DEF InBlock, DxIs
  <2>2. Binds(k) /\ UNCHANGED rootSet
    BY <1>5, <2>1 DEF dx_cmd_set_index_buffer, Binds
  <2> QED BY <1>5, <2>2, DirectStep
<1>6. CASE k = 5
  <2>1. dx_cmd_push_constants
    BY <1>6 DEF InBlock, DxIs
  <2>2. Binds(k) /\ UNCHANGED rootSet
    BY <1>6, <2>1 DEF dx_cmd_push_constants, Binds
  <2> QED BY <1>6, <2>2, DirectStep
<1>7. CASE k = 8
  <2>1. dx_unmodelled \/ \E pass \in Passes : dx_cmd_draw_indexed(pass)
    BY <1>7 DEF InBlock, DxIs
  <2>2. UNCHANGED <<slots, rootSet>>
    BY <2>1 DEF dx_unmodelled, dx_cmd_draw_indexed
  <2>3. Binds(k)
    BY <1>7, <2>2 DEF Binds, slots
  <2> QED BY <1>7, <2>2, <2>3, DirectStep
<1> QED BY <1>1, <1>2, <1>3, <1>4, <1>5, <1>6, <1>7

LEMMA MtlBlockStep ==
  ASSUME MemoryTyped, SlotsInv, \A at : \A value \in Nat : Live(at, value) => Live(at, value)',
         NEW c, MtlIs(c), NEW k \in 0 .. 8, InBlock(c, k), k > 0 /\ encoder => Bound(k), encoder'
  PROVE  Bound(k + 1)'
<1> USE DEF mtlVars
<1>0. DOMAIN meant = Slots
  BY DEF MemoryTyped, MeantTyped
<1>1. CASE k = 0
  BY <1>1 DEF Bound
<1>2. CASE k \in {1, 6}
  <2>1. PICK b \in Uniforms : b = c[2] /\ mtl_update_buffer(b)
    BY <1>2 DEF InBlock, MtlIs
  <2>2. UNCHANGED bound /\ UNCHANGED encoder
    BY <2>1 DEF mtl_update_buffer
  <2>3. \E n : meant' = [meant EXCEPT ![b] = n]
    BY <2>1 DEF mtl_update_buffer, Store
  <2>4. k = 6 => meant'["frame"] = meant["frame"]
    BY <1>0, <2>1, <2>3, InputsAre DEF InBlock
  <2>5. Binds(k)
    BY <1>2, <2>2, <2>4 DEF Binds
  <2> QED BY <1>2, <2>2, <2>5, DirectStep
<1>3. CASE k \in {2, 7}
  <2>1. PICK b \in Uniforms : b = c[2] /\ mtl_cmd_bind_uniform(b)
    BY <1>3 DEF InBlock, MtlIs
  <2>2. encoder
    BY <2>1 DEF mtl_cmd_bind_uniform
  <2>3. BindsUniform(b) /\ UNCHANGED meant
    BY <2>1, <2>2 DEF mtl_cmd_bind_uniform, BindsUniform
  <2>4. Binds(k)
    BY <1>3, <2>1, <2>3 DEF Binds, InBlock
  <2> QED BY <1>3, <2>2, <2>4, DirectStep
<1>4. CASE k = 3
  <2>1. mtl_cmd_set_vertex_buffer
    BY <1>4 DEF InBlock, MtlIs
  <2>2. encoder
    BY <2>1 DEF mtl_cmd_set_vertex_buffer
  <2>3. Binds(k)
    BY <1>4, <2>1, <2>2 DEF mtl_cmd_set_vertex_buffer, Binds
  <2> QED BY <1>4, <2>2, <2>3, DirectStep
<1>5. CASE k = 4
  <2>1. mtl_cmd_set_index_buffer
    BY <1>5 DEF InBlock, MtlIs
  <2>2. Binds(k) /\ encoder
    BY <1>5, <2>1 DEF mtl_cmd_set_index_buffer, Binds
  <2> QED BY <1>5, <2>2, DirectStep
<1>6. CASE k = 5
  <2>1. mtl_cmd_push_constants
    BY <1>6 DEF InBlock, MtlIs
  <2>2. encoder
    BY <2>1 DEF mtl_cmd_push_constants
  <2>3. Binds(k)
    BY <1>6, <2>1, <2>2 DEF mtl_cmd_push_constants, Binds
  <2> QED BY <1>6, <2>2, <2>3, DirectStep
<1>7. CASE k = 8
  <2>1. mtl_unmodelled \/ \E pass \in Passes : mtl_cmd_draw_indexed(pass)
    BY <1>7 DEF InBlock, MtlIs
  <2>2. UNCHANGED <<slots, encoder>>
    BY <2>1 DEF mtl_unmodelled, mtl_cmd_draw_indexed
  <2>3. Binds(k) /\ encoder
    BY <1>7, <2>2 DEF Binds, slots
  <2> QED BY <1>7, <2>3, DirectStep
<1> QED BY <1>1, <1>2, <1>3, <1>4, <1>5, <1>6, <1>7

-----------------------------------------------------------------------------
(* The rings, step by step *)

\* The steps that touch no ring and no slot, and where they leave the script.
Still ==
  /\ UNCHANGED <<memory, slots, dynamicOffsets, frameIndex>>
  /\ \/ stage' # 4
     \/ UNCHANGED <<draws, call, encoder, rootSet>>
     \/ PlaceInv' /\ call' = 4 /\ UNCHANGED draws

LEMMA MemoryMoves ==
  Moves => \/ Recording \/ VkBegins \/ DxBegins \/ MtlBegins \/ VkRecords \/ DxStages
           \/ Still
<1> SUFFICES ASSUME Moves, ~Recording, ~VkBegins, ~DxBegins, ~MtlBegins, ~VkRecords, ~DxStages
             PROVE  Still
  OBVIOUS
<1> USE DEF bindings, counters
<1>1. ASSUME UNCHANGED <<memory, bindings, frameIndex>>, Staying
      PROVE  Still
  BY <1>1 DEF Still, Staying
<1>2. CASE Quiet
  <2>1. UNCHANGED <<memory, bindings, frameIndex>>
    BY <1>2 DEF Quiet
  <2>2. \/ Staying
        \/ stage' # 4
        \/ PlaceInv' /\ call' = 4 /\ draws' = draws
    BY <1>2 DEF Quiet, Going
  <2> QED BY <1>1, <2>1, <2>2 DEF Still
<1>3. CASE MtlRecords
  BY <1>3 DEF MtlRecords, Still, Going
<1>4. CASE Closes \/ VkSubmits \/ DxSubmits \/ DxPresents \/ MtlPresents
  BY <1>4 DEF Closes, VkSubmits, DxSubmits, DxPresents, MtlPresents, Still, Going
<1>5. CASE MtlEnds
  BY <1>5 DEF MtlEnds, Still, Going
<1>6. CASE Makes
  BY <1>1, <1>6 DEF Makes, Staying
<1>7. CASE StartsCopy
  BY <1>1, <1>7 DEF StartsCopy, Staying
<1>8. CASE EndsCopy
  BY <1>1, <1>8 DEF EndsCopy, Staying
<1>9. CASE HandsOut
  BY <1>1, <1>9 DEF HandsOut, Staying
<1>10. CASE Finishes
  BY <1>1, <1>10 DEF Finishes, Finish, Staying
<1>11. CASE Resizes \/ Redraws \/ ShutsDown
  BY <1>1, <1>11 DEF Resizes, Redraws, ShutsDown
<1> QED BY <1>2, <1>3, <1>4, <1>5, <1>6, <1>7, <1>8, <1>9, <1>10, <1>11
        DEF Moves, FrameMoves, OtherMoves

LEMMA MadeGrows == Moves => made \subseteq made'
<1> SUFFICES ASSUME Moves PROVE made \subseteq made'
  OBVIOUS
<1>1. Made => made \subseteq made'
  BY DEF Made
<1>2. UNCHANGED creation => made \subseteq made'
  BY DEF creation
<1>3. CASE Quiet \/ Recording
  BY <1>2, <1>3 DEF Quiet, Recording
<1>4. CASE FrameMoves
  BY <1>2, <1>4 DEF FrameMoves, VkBegins, DxBegins, MtlBegins, VkRecords, MtlRecords, Closes, VkSubmits,
                    DxSubmits, DxPresents, MtlPresents, MtlEnds
<1>5. CASE Makes \/ StartsCopy \/ EndsCopy \/ HandsOut \/ DxStages
  BY <1>1, <1>5 DEF Makes, StartsCopy, EndsCopy, HandsOut, DxStages
<1>6. CASE Finishes \/ Resizes \/ Redraws \/ ShutsDown
  BY <1>2, <1>6 DEF Finishes, Finish, Resizes, Redraws, ShutsDown
<1> QED BY <1>3, <1>4, <1>5, <1>6 DEF Moves, OtherMoves

LEMMA RecordsReturn == Records => Return
BY DEF Records, vk_cmd_push_constants, vk_cmd_set_vertex_buffer, vk_cmd_set_index_buffer,
   vk_cmd_begin_pass, vk_cmd_set_pipeline, vk_cmd_draw_indexed, vk_update_buffer,
   vk_cmd_bind_uniform, vk_unmodelled,
   dx_cmd_push_constants, dx_cmd_set_vertex_buffer, dx_cmd_set_index_buffer,
   dx_cmd_begin_pass, dx_cmd_set_pipeline, dx_cmd_draw_indexed, dx_update_buffer,
   dx_cmd_bind_uniform, dx_unmodelled,
   mtl_cmd_push_constants, mtl_cmd_set_vertex_buffer, mtl_cmd_set_index_buffer,
   mtl_cmd_begin_pass, mtl_cmd_end_pass, mtl_cmd_set_pipeline, mtl_cmd_draw_indexed,
   mtl_update_buffer, mtl_cmd_bind_uniform, mtl_unmodelled

\* What the calls of a pass do to the slots and to what the rings hold
LEMMA RecordsKeep ==
  ASSUME TypeInv, RingInv, SlotsInv, MadeInv, Recording, plugin' = plugin
  PROVE  /\ RingInv' /\ SlotsInv'
         /\ plugin # "d3d12" => \A at : Keeps(at)
         /\ plugin = "d3d12" => DxKeeps
<1>1. MemoryTyped /\ CountersTyped /\ PlaceInv /\ plugin \in {"vulkan", "d3d12", "metal"}
  BY DEF TypeInv, CountersTyped
<1>2. Records /\ UNCHANGED <<frameIndex, made>>
  BY DEF Recording, counters, creation
<1>3. CASE plugin = "vulkan"
  BY <1>1, <1>2, <1>3, VkSlots
<1>4. CASE plugin = "metal"
  BY <1>1, <1>2, <1>4, MtlSlots
<1>5. CASE plugin = "d3d12"
  <2>1. ASSUME NEW b \in Uniforms, dx_update_buffer(b) PROVE b \in made
    <3>1. call > 0 /\ Script[draws][call][1] = "update_buffer"
      BY <2>1, CallIs DEF dx_update_buffer
    <3>2. DrawNeeds \subseteq made
      BY <1>1, <3>1, UpdatesDraw DEF MadeInv
    <3> QED BY <3>2 DEF DrawNeeds, Uniforms
  <2>2. SlotsInv' /\ DxKeeps
    BY <1>1, <1>2, <1>5, <2>1, DxSlots
  <2> QED BY <1>5, <2>2 DEF RingInv
<1> QED BY <1>1, <1>3, <1>4, <1>5

LEMMA RingInvStep == TypeInv /\ RingInv /\ SlotsInv /\ MadeInv /\ Moves => RingInv'
<1> SUFFICES ASSUME TypeInv, RingInv, SlotsInv, MadeInv, Moves PROVE RingInv'
  OBVIOUS
<1>1. plugin' = plugin /\ RingTyped
  BY DEF Moves, TypeInv, MemoryTyped
<1>2. UNCHANGED memory => RingInv'
  BY <1>1 DEF memory, RingInv
<1>3. CASE Recording
  BY <1>1, <1>3, RecordsKeep
<1>4. CASE VkBegins
  <2>1. ring' = [ring EXCEPT ![0] = [c \in Cells |-> 0]] /\ head' = 0 /\ stores' = 0
    BY <1>4 DEF VkBegins, ResetRing
  <2>2. \A c \in Cells : ring'[0][c] = 0 /\ c \in Nat
    BY <1>1, <2>1, Zero DEF RingTyped, Cells
  <2> QED BY <2>1, <2>2 DEF RingInv
<1>5. CASE MtlBegins \/ VkRecords \/ Still
  BY <1>2, <1>5 DEF MtlBegins, VkRecords, Still
<1>6. CASE DxBegins \/ DxStages
  BY <1>1, <1>6 DEF DxBegins, DxStages, RingInv
<1> QED BY <1>3, <1>4, <1>5, <1>6, MemoryMoves

LEMMA SlotsInvStep == TypeInv /\ RingInv /\ SlotsInv /\ MadeInv /\ Moves => SlotsInv'
<1> SUFFICES ASSUME TypeInv, RingInv, SlotsInv, MadeInv, Moves PROVE SlotsInv'
  OBVIOUS
<1>1. plugin' = plugin /\ MemoryTyped /\ RingTyped /\ MeantTyped /\ CountersTyped /\ AddressTyped
  BY DEF Moves, TypeInv, MemoryTyped
<1>2. made \subseteq made'
  BY MadeGrows
<1>3. CASE Recording
  BY <1>1, <1>3, RecordsKeep
<1>4. ASSUME \A s \in Slots : meant'[s] = 0 PROVE SlotsInv'
  BY <1>4, PlacesNext, SlotsAre DEF SlotsInv
<1>5. CASE VkBegins
  BY <1>4, <1>5 DEF VkBegins, ResetRing
<1>6. CASE DxBegins
  BY <1>4, <1>6 DEF DxBegins, ResetRing
<1>7. CASE MtlBegins
  <2>1. plugin = "metal" /\ UNCHANGED meant /\ address' = [s \in Slots |-> None]
    BY <1>7 DEF MtlBegins
  <2>2. ASSUME NEW b \in Uniforms PROVE SlotLive(b)'
    <3>1. PICK value : value = meant[b]
      OBVIOUS
    <3>2. address'[b] = None
      BY <2>1, SlotsAre
    <3>3. Live(None, value)'
      BY PlacesDiffer, HeldIsNext
    <3> QED BY <2>1, <3>1, <3>2, <3>3, PlacesNext
  <2> QED BY <1>1, <2>1, <2>2 DEF SlotsInv
<1>8. CASE VkRecords \/ Still
  <2>1. UNCHANGED <<memory, meant, address, dynamicOffsets, frameIndex>>
    BY <1>8 DEF VkRecords, Still, counters, slots
  <2>2. \A at : Keeps(at)
    BY <1>1, <2>1, SameKeeps DEF memory
  <2>3. \A b \in Uniforms : SlotLive(b)'
    BY <1>1, <2>1, <2>2, IntactNext, SlotsAre DEF SlotsInv
  <2>4. plugin = "vulkan" => OffsetHeld("constants")'
    BY <1>1, <2>1, <2>2, IntactNext, SlotsAre DEF SlotsInv
  <2> QED BY <1>1, <1>2, <2>1, <2>3, <2>4 DEF SlotsInv
<1>9. CASE DxStages
  <2>1. /\ plugin = "d3d12" /\ UNCHANGED <<meant, frameIndex>>
        /\ creating \in 1 .. Len(Resources) /\ head < RingCells
    BY <1>1, <1>9, ResourcesAre DEF DxStages, CountersTyped
  <2>2. \A at, value : Live(at, value) => Live(at, value)'
    <3>1. PICK h : h = head
      OBVIOUS
    <3>2. PICK r \in Rings : r = frameIndex
      BY <1>1 DEF CountersTyped
    <3>3. PICK n \in Nat : Stage(n)
      BY <1>1, <1>9 DEF DxStages, RingTyped
    <3> QED BY <1>1, <2>1, <3>1, <3>2, <3>3, HeadKeeps DEF Stage
  <2>3. ASSUME NEW b \in Uniforms PROVE SlotLive(b)'
    <3>1. CASE address'[b] = address[b]
      BY <1>1, <2>1, <2>2, <3>1, LiveNext, SlotsAre DEF SlotsInv
    <3>2. CASE address'[b] # address[b]
      <4>1. Resources[creating] = b
        <5>1. \/ \E a \in Uniforms : /\ Resources[creating] = a
                                    /\ address' = [address EXCEPT ![a] = <<frameIndex, head>>]
              \/ UNCHANGED address
          BY <1>9 DEF DxStages
        <5>2. PICK a \in Uniforms : /\ Resources[creating] = a
                                    /\ address' = [address EXCEPT ![a] = <<frameIndex, head>>]
          BY <3>2, <5>1
        <5>3. a = b
          BY <1>1, <3>2, <5>2, SlotsAre DEF AddressTyped
        <5> QED BY <5>2, <5>3
      <4>2. b \notin made
        BY <2>1, <4>1, ResourcesAre DEF MadeInv
      <4>3. meant'[b] = 0
        BY <2>1, <4>2 DEF SlotsInv
      <4> QED BY <4>3, PlacesNext
    <3> QED BY <3>1, <3>2
  <2> QED BY <1>1, <1>2, <2>1, <2>3 DEF SlotsInv
<1> QED BY <1>3, <1>5, <1>6, <1>7, <1>8, <1>9, MemoryMoves

\* Where a call is in the draw whose pipeline is at p
LEMMA BlockPlace ==
  ASSUME PlaceInv, call > 0, NEW p \in DOMAIN Script[draws], Script[draws][p][1] = "cmd_set_pipeline",
         NEW k \in 0 .. 8, call = p + k
  PROVE  InBlock(Script[draws][call], k)
<1>1. Block(Script[draws], p)
  BY ScriptShape DEF PlaceInv, Blocked
<1>2. CASE k = 0
  <2>1. Script[draws] \in Seq(Calls)
    BY ScriptShape DEF PlaceInv, Blocked
  <2>2. call = p
    BY <1>2, <2>1, LenProperties
  <2> QED BY <1>2, <2>2 DEF InBlock
<1>3. CASE k \in 1 .. 7
  BY <1>1, <1>3 DEF InBlock, Block
<1>4. CASE k = 8
  BY <1>1, <1>4 DEF InBlock, Block
<1> QED BY <1>2, <1>3, <1>4

\* What is bound stays bound while the list and the slots are left alone.
LEMMA ReadyStays ==
  ASSUME MemoryTyped, UNCHANGED <<plugin, meant, bound, dynamicOffsets, encoder, rootSet>>,
         \A at : \A value \in Nat : Live(at, value) => Live(at, value)',
         plugin = "vulkan" => \A at : Keeps(at), NEW k, Ready(k)
  PROVE  Ready(k)'
<1>1. MeantTyped
  BY DEF MemoryTyped
<1>2. ASSUME NEW b \in Uniforms PROVE /\ BoundLive(b) => BoundLive(b)'
                                      /\ plugin = "vulkan" /\ OffsetHeld(b) => OffsetHeld(b)'
  BY <1>1, LiveNext, IntactNext, SlotsAre
<1>3. VkBound(k) /\ plugin = "vulkan" => VkBound(k)'
  BY <1>2, SlotsAre DEF VkBound
<1>4. Bound(k) => Bound(k)'
  BY <1>2, SlotsAre DEF Bound
<1> QED BY <1>3, <1>4 DEF Ready

LEMMA StageStays == UNCHANGED <<draws, call>> => stage' = stage
BY DEF stage, last

LEMMA BlockRecording ==
  ASSUME TypeInv, RingInv, SlotsInv, MadeInv, BlockInv, Recording, plugin' = plugin, stage' = 4
  PROVE  BlockInv'
<1>1. MemoryTyped /\ CountersTyped /\ PlaceInv /\ plugin \in {"vulkan", "d3d12", "metal"}
  BY DEF TypeInv, CountersTyped
<1>2. Records /\ stage = 4 /\ PlaceInv' /\ UNCHANGED draws
  BY DEF Recording
<1>3. call > 0 /\ call \in Nat /\ call' = call + 1
  <2>1. call > 0 /\ call \in Nat /\ call # last
    BY <1>1, <1>2, StageIs, ScriptLength
  <2> QED BY <1>2, <2>1, RecordsReturn DEF Return, last
<1> SUFFICES ASSUME NEW p \in DOMAIN Script[draws], Script[draws][p][1] = "cmd_set_pipeline",
                    p < call', call' <= p + 9, NEW n, n = call' - p
             PROVE  Ready(n)'
  BY <1>2 DEF BlockInv, Ready, VkBound, Bound
<1>4. p \in Nat
  <2>1. Script[draws] \in Seq(Calls)
    BY <1>1, ScriptShape DEF PlaceInv, Blocked
  <2> QED BY <2>1, LenProperties
<1>5. PICK k \in 0 .. 8 : call = p + k /\ n = k + 1
  BY <1>3, <1>4
<1>6. PICK c : c = Script[draws][call]
  OBVIOUS
<1>7. InBlock(c, k)
  BY <1>1, <1>3, <1>5, <1>6, BlockPlace
<1>8. k > 0 => Ready(k)
  <2> SUFFICES ASSUME k > 0 PROVE Ready(k)
    OBVIOUS
  <2>1. p < call /\ call <= p + 9 /\ call - p = k
    BY <1>4, <1>5
  <2> QED BY <1>2, <2>1 DEF BlockInv
<1>9. /\ plugin # "d3d12" => \A at : Keeps(at)
      /\ plugin = "d3d12" => DxKeeps
  BY RecordsKeep
<1>10. CASE plugin = "vulkan"
  <2>1. VkIs(c) /\ (k > 0 => VkBound(k))
    BY <1>2, <1>6, <1>8, <1>10, VkCallIs DEF Ready
  <2>2. VkBound(k + 1)'
    BY <1>1, <1>7, <1>9, <1>10, <2>1, VkBlockStep
  <2> QED BY <1>5, <1>10, <2>2 DEF Ready
<1>11. CASE plugin = "d3d12"
  <2>1. DxIs(c) /\ (k > 0 => rootSet /\ Bound(k))
    BY <1>2, <1>6, <1>8, <1>11, DxCallIs DEF Ready
  <2>2. rootSet' /\ Bound(k + 1)'
    BY <1>1, <1>7, <1>9, <1>11, <2>1, DxBlockStep DEF DxKeeps
  <2> QED BY <1>5, <1>11, <2>2 DEF Ready
<1>12. CASE plugin = "metal"
  <2>1. MtlIs(c) /\ (k > 0 /\ encoder => Bound(k))
    BY <1>2, <1>6, <1>8, <1>12, MtlCallIs DEF Ready
  <2>2. encoder' => Bound(k + 1)'
    BY <1>1, <1>7, <1>9, <1>12, <2>1, MtlBlockStep DEF Keeps
  <2> QED BY <1>5, <1>12, <2>2 DEF Ready
<1> QED BY <1>1, <1>10, <1>11, <1>12

LEMMA BlockInvStep == TypeInv /\ RingInv /\ SlotsInv /\ MadeInv /\ BlockInv /\ Moves => BlockInv'
<1> SUFFICES ASSUME TypeInv, RingInv, SlotsInv, MadeInv, BlockInv, Moves, stage' = 4 PROVE BlockInv'
  BY DEF BlockInv
<1>1. plugin' = plugin /\ MemoryTyped /\ RingTyped /\ CountersTyped /\ PlaceInv
  BY DEF Moves, TypeInv, MemoryTyped
<1>2. CASE Recording
  BY <1>1, <1>2, BlockRecording
<1>3. ASSUME PlaceInv', call' = 4, UNCHANGED draws PROVE BlockInv'
  <2>1. \A p \in DOMAIN Script[draws] : p < 4 => Script[draws][p][1] # "cmd_set_pipeline"
    <3>1. /\ Script[draws] \in Seq(Calls)
          /\ Script[draws][1] = <<"begin_frame", "none">>
          /\ Script[draws][2] = <<"buildDrawList", "none">>
          /\ Script[draws][3] = <<"begin_commands", "none">>
      BY <1>1, ScriptShape DEF PlaceInv, Blocked
    <3>2. \A p \in DOMAIN Script[draws] : p < 4 => p \in {1, 2, 3}
      BY <3>1, LenProperties
    <3>3. Script[draws][1][1] = "begin_frame" /\ Script[draws][2][1] = "buildDrawList" /\ Script[draws][3][1] = "begin_commands"
      BY <3>1
    <3> QED BY <3>2, <3>3
  <2> QED BY <1>3, <2>1 DEF BlockInv
<1>4. ASSUME stage = 4, UNCHANGED <<draws, call>>,
             UNCHANGED <<meant, bound, dynamicOffsets, encoder, rootSet>>,
             \A at : \A value \in Nat : Live(at, value) => Live(at, value)',
             plugin = "vulkan" => \A at : Keeps(at)
      PROVE  BlockInv'
  <2> SUFFICES ASSUME NEW p \in DOMAIN Script[draws], Script[draws][p][1] = "cmd_set_pipeline",
                      p < call, call <= p + 9, NEW n, n = call - p
               PROVE  Ready(n)'
    BY <1>4 DEF BlockInv, Ready, VkBound, Bound
  <2>1. Ready(n)
    BY <1>4 DEF BlockInv
  <2> QED BY <1>1, <1>4, <2>1, ReadyStays
<1>5. CASE VkRecords
  BY <1>3, <1>5 DEF VkRecords, Going
<1>6. CASE VkBegins \/ DxBegins \/ MtlBegins
  BY <1>6 DEF VkBegins, DxBegins, MtlBegins, Going
<1>7. CASE DxStages
  <2>1. /\ plugin = "d3d12" /\ head < RingCells
        /\ UNCHANGED <<draws, call, meant, bound, dynamicOffsets, encoder, rootSet, frameIndex>>
    BY <1>7 DEF DxStages
  <2>2. \A at, value : Live(at, value) => Live(at, value)'
    <3>1. PICK h : h = head
      OBVIOUS
    <3>2. PICK r \in Rings : r = frameIndex
      BY <1>1 DEF CountersTyped
    <3>3. PICK n \in Nat : Stage(n)
      BY <1>1, <1>7 DEF DxStages, RingTyped
    <3> QED BY <1>1, <2>1, <3>1, <3>2, <3>3, HeadKeeps DEF Stage
  <2> QED BY <1>4, <2>1, <2>2, StageStays
<1>8. CASE Still
  <2>1. UNCHANGED <<ring, head, meant, bound, dynamicOffsets, frameIndex>>
    BY <1>8 DEF Still, memory, slots
  <2>2. \A at : Keeps(at)
    BY <1>1, <2>1, SameKeeps
  <2>3. \/ UNCHANGED <<draws, call, encoder, rootSet>>
        \/ PlaceInv' /\ call' = 4 /\ UNCHANGED draws
    BY <1>8 DEF Still
  <2> QED BY <1>3, <1>4, <2>1, <2>2, <2>3, StageStays DEF Keeps
<1> QED BY <1>2, <1>5, <1>6, <1>7, <1>8, MemoryMoves

\* A draw that is ready reads what was meant for it.
LEMMA ReadyReads ==
  ASSUME TypeInv, SlotsInv, NEW k \in {8, 9}, Ready(k), plugin = "metal" => encoder
  PROVE  \A read \in Reads : ListRead(read)
<1> SUFFICES ASSUME NEW i \in Inputs
             PROVE  bound[i] # None /\ Live(bound[i], IF i \in Slots THEN meant[i] ELSE 0)
  BY DEF Reads, ListRead
<1>1. /\ plugin \in {"vulkan", "d3d12", "metal"}
      /\ i \in {"frame", "object", "constants", "vertex", "index"}
      /\ "vertex" \notin Slots /\ "index" \notin Slots
      /\ i \in {"vertex", "index"} \/ i \in Slots
  BY InputsAre DEF TypeInv, CountersTyped, Inputs, Slots, Uniforms
<1>2. CASE i \in {"vertex", "index"}
  <2>1. bound[i] # None
    BY <1>1, <1>2 DEF Ready, VkBound, Bound
  <2>2. i \notin Slots
    BY <1>1, <1>2
  <2> QED BY <2>1, <2>2, HeldIs
<1>3. CASE i \in Slots /\ plugin = "vulkan"
  <2>1. /\ bound[i] = dynamicOffsets[i] /\ OffsetHeld("frame") /\ OffsetHeld("object")
        /\ OffsetHeld("constants")
    BY <1>3 DEF Ready, VkBound, SlotsInv
  <2>2. OffsetHeld(i)
    BY <1>1, <1>3, <2>1
  <2>3. dynamicOffsets[i] \in Addresses
    BY <1>3 DEF TypeInv, MemoryTyped, OffsetsTyped
  <2>4. Live(bound[i], meant[i])
    BY <1>3, <2>1, <2>2, HeldIs DEF OffsetHeld
  <2> QED BY <1>3, <2>1, <2>3, <2>4, PlacesDiffer
<1>4. CASE i \in Slots /\ plugin # "vulkan"
  <2>1. Bound(k)
    BY <1>1, <1>4 DEF Ready
  <2>2. bound[i] # None
    BY <1>1, <1>4, <2>1 DEF Bound
  <2>3. Live(bound[i], meant[i])
    <3>1. CASE i = "constants"
      BY <1>4, <3>1, HeldIs DEF SlotsInv
    <3>2. CASE i # "constants"
      BY <1>1, <1>4, <2>1, <3>2 DEF Bound, BoundLive
    <3> QED BY <3>1, <3>2
  <2> QED BY <1>4, <2>2, <2>3
<1> QED BY <1>1, <1>2, <1>3, <1>4

\* Only a draw adds reads, and it leaves the rings and the slots alone.
LEMMA RecordsReads ==
  ASSUME ListTyped, Records
  PROVE  \/ list'.reads = list.reads
         \/ /\ list'.reads = list.reads \cup Reads /\ UNCHANGED <<memory, slots>>
            /\ call > 0 /\ Script[draws][call][1] = "cmd_draw_indexed"
            /\ plugin = "metal" => encoder
<1> DEFINE Drawn == /\ list'.reads = list.reads \cup Reads /\ UNCHANGED <<memory, slots>>
                    /\ call > 0 /\ Script[draws][call][1] = "cmd_draw_indexed"
                    /\ plugin = "metal" => encoder
<1>1. ASSUME NEW pass, vk_cmd_draw_indexed(pass) \/ dx_cmd_draw_indexed(pass), plugin # "metal"
      PROVE  Drawn
  <2>1. Calling("cmd_draw_indexed", pass) /\ UNCHANGED <<memory, slots>>
    BY <1>1 DEF vk_cmd_draw_indexed, dx_cmd_draw_indexed
  <2>2. list'.reads = list.reads \cup Reads
    BY <1>1 DEF vk_cmd_draw_indexed, dx_cmd_draw_indexed, ListTyped
  <2> QED BY <1>1, <2>1, <2>2, CallIs
<1>2. ASSUME NEW pass, mtl_cmd_draw_indexed(pass)
      PROVE  Drawn \/ list'.reads = list.reads
  <2>1. Calling("cmd_draw_indexed", pass) /\ UNCHANGED <<memory, slots>>
    BY <1>2 DEF mtl_cmd_draw_indexed
  <2>2. CASE ~encoder
    BY <1>2, <2>2 DEF mtl_cmd_draw_indexed
  <2>3. CASE encoder
    <3>1. list'.reads = list.reads \cup Reads
      BY <1>2, <2>3 DEF mtl_cmd_draw_indexed, ListTyped
    <3> QED BY <2>1, <2>3, <3>1, CallIs
  <2> QED BY <2>2, <2>3
<1>3. ASSUME NEW pass, vk_cmd_begin_pass(pass) \/ dx_cmd_begin_pass(pass)
      PROVE  list'.reads = list.reads
  BY <1>3 DEF vk_cmd_begin_pass, dx_cmd_begin_pass, ListTyped
<1>4. list' = list => list'.reads = list.reads
  OBVIOUS
<1> HIDE DEF Drawn
<1> SUFFICES Drawn \/ list'.reads = list.reads
  BY DEF Drawn
<1>5. CASE plugin = "vulkan"
  <2>1. /\ vk_cmd_push_constants \/ vk_cmd_set_vertex_buffer \/ vk_cmd_set_index_buffer => list' = list
        /\ vk_unmodelled => list' = list
        /\ \A pass : vk_cmd_set_pipeline(pass) => list' = list
        /\ \A b : vk_update_buffer(b) \/ vk_cmd_bind_uniform(b) => list' = list
    BY DEF vk_cmd_push_constants, vk_cmd_set_vertex_buffer, vk_cmd_set_index_buffer,
           vk_cmd_set_pipeline, vk_update_buffer, vk_cmd_bind_uniform, vk_unmodelled
  <2> QED BY <1>1, <1>3, <1>4, <1>5, <2>1 DEF Records
<1>6. CASE plugin = "d3d12"
  <2>1. /\ dx_cmd_push_constants \/ dx_cmd_set_vertex_buffer \/ dx_cmd_set_index_buffer => list' = list
        /\ dx_unmodelled => list' = list
        /\ \A pass : dx_cmd_set_pipeline(pass) => list' = list
        /\ \A b : dx_update_buffer(b) \/ dx_cmd_bind_uniform(b) => list' = list
    BY DEF dx_cmd_push_constants, dx_cmd_set_vertex_buffer, dx_cmd_set_index_buffer,
           dx_cmd_set_pipeline, dx_update_buffer, dx_cmd_bind_uniform, dx_unmodelled
  <2> QED BY <1>1, <1>3, <1>4, <1>6, <2>1 DEF Records
<1>7. CASE plugin = "metal"
  <2>1. /\ mtl_cmd_push_constants \/ mtl_cmd_set_vertex_buffer \/ mtl_cmd_set_index_buffer => list' = list
        /\ mtl_unmodelled => list' = list
        /\ \A pass : mtl_cmd_set_pipeline(pass) \/ mtl_cmd_begin_pass(pass) \/ mtl_cmd_end_pass(pass) => list' = list
        /\ \A b : mtl_update_buffer(b) \/ mtl_cmd_bind_uniform(b) => list' = list
    BY DEF mtl_cmd_push_constants, mtl_cmd_set_vertex_buffer, mtl_cmd_set_index_buffer,
           mtl_cmd_begin_pass, mtl_cmd_end_pass, mtl_cmd_set_pipeline, mtl_update_buffer,
           mtl_cmd_bind_uniform, mtl_unmodelled
  <2> QED BY <1>2, <1>4, <1>7, <2>1 DEF Records
<1> QED BY <1>5, <1>6, <1>7 DEF Records

LEMMA RecordingReads ==
  ASSUME TypeInv, SlotsInv, BlockInv, Recording, plugin' = plugin
  PROVE  \A read \in list'.reads : read \in list.reads \/ ListRead(read)'
<1>1. Records /\ stage = 4 /\ ListTyped /\ PlaceInv /\ UNCHANGED frameIndex
  BY DEF TypeInv, Recording, counters
<1>2. CASE list'.reads = list.reads
  BY <1>2
<1>3. CASE /\ list'.reads = list.reads \cup Reads /\ UNCHANGED <<memory, slots>>
           /\ call > 0 /\ Script[draws][call][1] = "cmd_draw_indexed"
           /\ plugin = "metal" => encoder
  <2>1. Blocked(Script[draws]) /\ call \in DOMAIN Script[draws] /\ call \in Nat
    <3>1. Blocked(Script[draws]) /\ last = Len(Script[draws])
      BY <1>1, ScriptShape DEF PlaceInv, last
    <3>2. DOMAIN Script[draws] = 1 .. last
      BY <3>1, LenProperties DEF Blocked
    <3> QED BY <1>1, <1>3, <3>1, <3>2, ScriptLength DEF PlaceInv
  <2>2. PICK p \in DOMAIN Script[draws] :
          Script[draws][p][1] = "cmd_set_pipeline" /\ (call = p + 8 \/ call = p + 9)
    BY <1>3, <2>1 DEF Blocked
  <2>3. p \in Nat
    BY <2>1, LenProperties DEF Blocked
  <2>4. PICK k \in {8, 9} : call = p + k
    BY <2>2
  <2>5. p < call /\ call <= p + 9 /\ call - p = k
    BY <2>3, <2>4
  <2>6. Ready(k)
    BY <1>1, <2>2, <2>5 DEF BlockInv
  <2>7. \A read \in Reads : ListRead(read)
    BY <1>3, <2>6, ReadyReads
  <2>8. \A at, value : Live(at, value)' <=> Live(at, value)
    BY <1>1, <1>3, SameKeeps DEF memory
  <2>9. \A read \in Reads : ListRead(read)'
    BY <2>7, <2>8 DEF ListRead
  <2> QED BY <1>3, <2>9
<1> QED BY <1>1, <1>2, <1>3, RecordsReads

\* Every step but the beginning of a frame keeps what can still be read.
Kept ==
  /\ UNCHANGED <<plugin, frameIndex>>
  /\ plugin # "d3d12" => \A at : Keeps(at)
  /\ plugin = "d3d12" => DxKeeps /\ \A r \in Rings : fenceValue[r] <= fenceValue'[r]

LEMMA FenceGrows ==
  TypeInv /\ ValuesInv /\ Moves /\ plugin = "d3d12" =>
    \A r \in Rings : fenceValue[r] <= fenceValue'[r]
<1> SUFFICES ASSUME CountersTyped, ValuesInv, Moves, plugin = "d3d12"
             PROVE  \A r \in Rings : fenceValue[r] <= fenceValue'[r]
  BY DEF TypeInv
<1>1. UNCHANGED fenceValue => \A r \in Rings : fenceValue[r] <= fenceValue'[r]
  BY DEF CountersTyped
<1>2. CASE DxSubmits
  <2>1. fenceValue' = [fenceValue EXCEPT ![frameIndex] = signalled + 1]
    BY <1>2 DEF DxSubmits
  <2>2. \A r \in Rings : fenceValue[r] <= signalled /\ fenceValue[r] \in Nat /\ signalled \in Nat
    BY ValuesAre DEF InOrder, CountersTyped
  <2> QED BY <2>1, <2>2 DEF CountersTyped
<1>3. CASE Quiet \/ Recording
  BY <1>1, <1>3 DEF Quiet, Recording, counters
<1>4. CASE FrameMoves
  BY <1>1, <1>2, <1>4 DEF FrameMoves, VkBegins, DxBegins, MtlBegins, VkRecords, MtlRecords, Closes,
     VkSubmits, DxPresents, MtlPresents, MtlEnds, counters
<1>5. CASE OtherMoves
  BY <1>1, <1>5 DEF OtherMoves, Makes, StartsCopy, EndsCopy, HandsOut, DxStages, Finishes, Resizes,
     Redraws, ShutsDown, counters
<1> QED BY <1>3, <1>4, <1>5 DEF Moves

LEMMA MovesKeep ==
  TypeInv /\ ValuesInv /\ RingInv /\ SlotsInv /\ MadeInv /\ Moves => VkBegins \/ DxBegins \/ Kept
<1> SUFFICES ASSUME TypeInv, ValuesInv, RingInv, SlotsInv, MadeInv, Moves
             PROVE  VkBegins \/ DxBegins \/ Kept
  OBVIOUS
<1>0. plugin = "d3d12" => \A r \in Rings : fenceValue[r] <= fenceValue'[r]
  BY FenceGrows
<1>1. plugin' = plugin /\ RingTyped /\ CountersTyped
  BY DEF Moves, TypeInv, MemoryTyped
<1>2. CASE Recording
  BY <1>0, <1>1, <1>2, RecordsKeep DEF Recording, counters, Kept
<1>3. CASE DxStages
  <2>1. plugin = "d3d12" /\ UNCHANGED frameIndex /\ head < RingCells
    BY <1>3 DEF DxStages
  <2>2. PICK h : h = head
    OBVIOUS
  <2>3. PICK r \in Rings : r = frameIndex
    BY <1>1 DEF CountersTyped
  <2>4. PICK n \in Nat : Stage(n)
    BY <1>1, <1>3 DEF DxStages, RingTyped
  <2>5. /\ \A at, value : Live(at, value) => Live(at, value)'
        /\ \A at, value : Held(at, value) /\ (at[1] = frameIndex => at[2] < head) => Held(at, value)'
    BY <1>1, <2>1, <2>2, <2>3, <2>4, HeadKeeps DEF Stage
  <2>6. head <= head'
    BY <1>1, <2>4 DEF Stage, RingTyped
  <2> QED BY <1>0, <1>1, <2>1, <2>5, <2>6 DEF DxKeeps, Kept
<1>4. CASE MtlBegins \/ VkRecords \/ Still
  <2>1. UNCHANGED <<ring, head, frameIndex>>
    BY <1>4 DEF MtlBegins, VkRecords, Still, memory, counters
  <2> QED BY <1>0, <1>1, <2>1, SameKeeps, DxSame DEF Kept
<1> QED BY <1>2, <1>3, <1>4, MemoryMoves

\* What a read is to find is kept with it.
LEMMA ReadStays ==
  ASSUME RingTyped, RingTyped', CountersTyped, CountersTyped', Kept, NEW read \in Reading
  PROVE  /\ ListRead(read) => ListRead(read)'
         /\ \A work \in Work : QueueRead(work, read) => QueueRead(work, read)'
<1>0. UNCHANGED <<plugin, frameIndex>>
  BY DEF Kept
<1>1. read.value \in Nat
  BY DEF Reading
<1>2. PICK at : at = read.at
  OBVIOUS
<1>3. PICK value \in Nat : value = read.value
  BY <1>1
<1>4. ListRead(read) => ListRead(read)'
  <2>1. Live(at, value) => Live(at, value)'
    BY DEF Keeps, DxKeeps, Kept
  <2> QED BY <1>2, <1>3, <2>1 DEF ListRead
<1>5. ASSUME NEW work \in Work, QueueRead(work, read)
      PROVE  QueueRead(work, read)'
  <2>1. at # None /\ Held(at, value)
    BY <1>2, <1>3, <1>5 DEF QueueRead
  <2>2. CASE plugin # "d3d12"
    <3>1. Held(at, value)'
      BY <2>1, <2>2 DEF Keeps, Kept
    <3> QED BY <1>0, <1>2, <1>3, <2>1, <2>2, <3>1 DEF QueueRead
  <2>3. CASE plugin = "d3d12" /\ (value = 0 \/ at \notin Addresses)
    <3>1. Held(at, value)'
      BY <2>3, HeldIsNext
    <3> QED BY <1>0, <1>2, <1>3, <2>1, <2>3, <3>1 DEF QueueRead
  <2>4. CASE plugin = "d3d12" /\ value # 0 /\ at \in Addresses
    <3>1. work.value <= fenceValue[at[1]] /\ (at[1] = frameIndex => at[2] < head)
      BY <1>2, <1>3, <1>5, <2>4 DEF QueueRead
    <3>2. Held(at, value)'
      BY <2>1, <2>4, <3>1 DEF DxKeeps, Kept
    <3>3. at[1] \in Rings /\ at[2] \in Nat
      BY <2>4, HeldIs DEF Cells
    <3>4. work.value <= fenceValue'[at[1]]
      <4>1. work.value \in Nat /\ fenceValue[at[1]] \in Nat /\ fenceValue'[at[1]] \in Nat
        BY <3>3 DEF Work, CountersTyped
      <4> QED BY <2>4, <3>1, <3>3, <4>1 DEF Kept
    <3>5. at[1] = frameIndex' => at[2] < head'
      <4>1. head \in Nat /\ head' \in Nat /\ head <= head'
        BY <2>4 DEF RingTyped, DxKeeps, Kept
      <4> QED BY <1>0, <3>1, <3>3, <4>1
    <3> QED BY <1>0, <1>2, <1>3, <2>1, <3>2, <3>4, <3>5 DEF QueueRead
  <2> QED BY <2>2, <2>3, <2>4
<1> QED BY <1>4, <1>5

\* Where the reads of the list come from, and those of the submissions.
LEMMA ListReads ==
  TypeInv /\ SlotsInv /\ BlockInv /\ Moves =>
    \A read \in list'.reads : read \in list.reads \/ ListRead(read)'
<1> SUFFICES ASSUME TypeInv, SlotsInv, BlockInv, Moves
             PROVE  \A read \in list'.reads : read \in list.reads \/ ListRead(read)'
  OBVIOUS
<1>1. plugin' = plugin /\ RingTyped /\ CountersTyped /\ ListTyped
  BY DEF Moves, TypeInv, MemoryTyped
<1>2. CASE Recording
  BY <1>1, <1>2, RecordingReads
<1>3. CASE DxStages
  <2>1. PICK h : h = head
    OBVIOUS
  <2>2. PICK r \in Rings : r = frameIndex
    BY <1>1 DEF CountersTyped
  <2>3. h \in Cells
    BY <1>1, <1>3, <2>1, HeadCell DEF DxStages
  <2>4. CASE UNCHANGED list
    BY <2>4
  <2>5. ASSUME NEW n \in Nat, n = stores + 1, Stage(n),
               list' = [list EXCEPT !.fills = @ \cup {"texture"},
                          !.reads = @ \cup {[input |-> "staged", at |-> <<frameIndex, head>>, value |-> stores + 1]}]
        PROVE  \A read \in list'.reads : read \in list.reads \/ ListRead(read)'
    <3>1. Live(<<r, h>>, n)'
      BY <1>1, <1>3, <2>1, <2>2, <2>5, HeadKeeps DEF Stage, DxStages
    <3>2. <<r, h>> # None
      BY <2>3, PlacesDiffer DEF Addresses
    <3>3. \A read \in list'.reads : read \in list.reads \/ (read.at = <<r, h>> /\ read.value = n)
      BY <1>1, <2>1, <2>2, <2>5 DEF ListTyped
    <3>4. ASSUME NEW read, read.at = <<r, h>>, read.value = n PROVE ListRead(read)'
      BY <3>1, <3>2, <3>4 DEF ListRead
    <3> QED BY <3>3, <3>4
  <2>6. stores + 1 \in Nat
    BY <1>1 DEF RingTyped
  <2> QED BY <1>3, <2>4, <2>5, <2>6 DEF DxStages
<1>4. CASE Quiet
  BY <1>4 DEF Quiet
<1>5. CASE VkBegins \/ MtlBegins \/ DxPresents \/ MtlEnds
  BY <1>5 DEF VkBegins, MtlBegins, DxPresents, MtlEnds
<1>6. Empty.reads = {} /\ [Empty EXCEPT !.open = TRUE].reads = {}
  BY DEF Empty
<1>7. CASE DxBegins \/ VkRecords \/ MtlRecords
  <2>1. list'.reads = {}
    BY <1>7 DEF DxBegins, VkRecords, MtlRecords, Empty
  <2> QED BY <2>1
<1>8. CASE Closes
  BY <1>1, <1>8 DEF Closes, ListTyped
<1>9. CASE VkSubmits \/ DxSubmits \/ MtlPresents
  <2>1. list'.reads = {} \/ list' = list
    BY <1>6, <1>9 DEF VkSubmits, DxSubmits, MtlPresents
  <2> QED BY <2>1
<1>10. CASE Makes \/ StartsCopy \/ EndsCopy \/ HandsOut
  BY <1>10 DEF Makes, StartsCopy, EndsCopy, HandsOut
<1>11. CASE Finishes \/ Resizes \/ Redraws \/ ShutsDown
  BY <1>11 DEF Finishes, Finish, Resizes, Redraws, ShutsDown
<1> QED BY <1>2, <1>3, <1>4, <1>5, <1>7, <1>8, <1>9, <1>10, <1>11 DEF Moves, FrameMoves, OtherMoves

LEMMA QueueReads ==
  TypeInv /\ Moves =>
    \A work \in Outstanding' :
      \/ work \in Outstanding
      \/ work.reads = {}
      \/ /\ work.kind = "frame" /\ work.reads = list.reads
         /\ plugin' = "d3d12" => work.value <= fenceValue'[frameIndex']
<1> SUFFICES ASSUME TypeInv, Moves, NEW work \in Outstanding', work \notin Outstanding
             PROVE  \/ work.reads = {}
                    \/ /\ work.kind = "frame" /\ work.reads = list.reads
                       /\ plugin' = "d3d12" => work.value <= fenceValue'[frameIndex']
  OBVIOUS
<1>1. /\ plugin' = plugin /\ CountersTyped /\ queue \in Seq(Work) /\ queue' \in Seq(Work)
  BY QueueStep DEF Moves, TypeInv
<1>2. ASSUME UNCHANGED queue PROVE FALSE
  BY <1>2, Same
<1>3. ASSUME NEW kind, NEW w, NEW v, Submit(kind, w, v)
      PROVE  work.kind = kind /\ work.reads = w.reads /\ work.value = v
  <2>1. PICK e : /\ queue' = Append(queue, e) /\ e.kind = kind /\ e.reads = w.reads /\ e.value = v
    BY <1>3 DEF Submit
  <2>2. Outstanding' = Outstanding \cup {e}
    BY <1>1, <2>1, Appended
  <2> QED BY <2>1, <2>2
<1>4. CASE Quiet
  BY <1>2, <1>4 DEF Quiet, gpu
<1>5. CASE Recording
  BY <1>2, <1>5 DEF Recording, gpu
<1>6. CASE VkBegins \/ MtlBegins \/ DxPresents \/ MtlEnds \/ DxBegins \/ VkRecords \/ MtlRecords \/ Closes
  BY <1>2, <1>6 DEF VkBegins, MtlBegins, DxPresents, MtlEnds, DxBegins, VkRecords, MtlRecords, Closes, gpu
<1>7. CASE VkSubmits
  <2>1. plugin' # "d3d12" /\ Submit("frame", list, 0)
    BY <1>1, <1>7 DEF VkSubmits
  <2> QED BY <1>3, <2>1
<1>8. CASE MtlPresents
  <2>1. plugin' # "d3d12" /\ (Submit("frame", list, 0) \/ UNCHANGED queue)
    BY <1>1, <1>8 DEF MtlPresents
  <2> QED BY <1>2, <1>3, <2>1
<1>9. CASE DxSubmits
  <2>0. PICK v \in Nat : v = signalled + 1
    BY <1>1 DEF CountersTyped
  <2>1. /\ Submit("frame", list, v) /\ UNCHANGED frameIndex
        /\ fenceValue' = [fenceValue EXCEPT ![frameIndex] = v]
    BY <1>9, <2>0 DEF DxSubmits
  <2>2. fenceValue'[frameIndex'] = v
    BY <1>1, <2>1 DEF CountersTyped
  <2>3. work.kind = "frame" /\ work.reads = list.reads /\ work.value = v
    BY <1>3, <2>1
  <2> QED BY <2>1, <2>2, <2>3
<1>10. CASE StartsCopy
  <2>1. PICK w, v : Submit("copy", w, v) /\ w.reads = {}
    BY <1>10 DEF StartsCopy, SubmitCopy
  <2> QED BY <1>3, <2>1
<1>11. CASE Finishes
  BY <1>1, <1>11, Shifted DEF Finishes, Finish
<1>12. CASE Makes \/ EndsCopy \/ HandsOut \/ DxStages \/ Resizes \/ Redraws \/ ShutsDown
  BY <1>2, <1>12 DEF Makes, EndsCopy, HandsOut, DxStages, Resizes, Redraws, ShutsDown, gpu
<1> QED BY <1>4, <1>5, <1>6, <1>7, <1>8, <1>9, <1>10, <1>11, <1>12 DEF Moves, FrameMoves, OtherMoves

LEMMA ReadsInvStep ==
  /\ TypeInv /\ ListInv /\ FenceInv /\ ValuesInv
  /\ RingInv /\ SlotsInv /\ MadeInv /\ BlockInv /\ ReadsInv /\ Moves
  => ReadsInv'
<1> SUFFICES ASSUME TypeInv, ListInv, FenceInv, ValuesInv, RingInv, SlotsInv, MadeInv, BlockInv,
                    ReadsInv, Moves
             PROVE  ReadsInv'
  OBVIOUS
<1>1. /\ plugin' = plugin /\ RingTyped /\ CountersTyped /\ ListTyped
      /\ RingTyped' /\ CountersTyped'
  BY TypeStep DEF Moves, TypeInv, MemoryTyped
<1>2. /\ \A read \in list'.reads : read \in list.reads \/ ListRead(read)'
      /\ \A work \in Outstanding' :
           \/ work \in Outstanding
           \/ work.reads = {}
           \/ /\ work.kind = "frame" /\ work.reads = list.reads
              /\ plugin' = "d3d12" => work.value <= fenceValue'[frameIndex']
  BY ListReads, QueueReads
<1>3. /\ \A work \in Outstanding : work \in Work /\ work.reads \subseteq Reading
      /\ list.reads \subseteq Reading
      /\ \A work \in Outstanding : work.kind = "frame" => \E i \in Frames : work = queue[i]
  BY <1>1, OutstandingTyped DEF Work, ListTyped
<1>4. \A work \in Outstanding : work.kind # "frame" => work.reads = {}
  BY <1>3 DEF ReadsInv, Work
<1>5. CASE Kept
  <2>1. \A read \in list.reads : ListRead(read)'
    BY <1>1, <1>3, <1>5, ReadStays DEF ReadsInv
  <2>2. \A work \in Outstanding : \A read \in work.reads : QueueRead(work, read)'
    BY <1>1, <1>3, <1>5, ReadStays DEF ReadsInv
  <2>3. ASSUME NEW work, plugin' = "d3d12" => work.value <= fenceValue'[frameIndex'], NEW read \in list.reads
        PROVE  QueueRead(work, read)'
    BY <2>1, <2>3 DEF ListRead, QueueRead, Live
  <2>4. \A work \in Outstanding' : \A read \in work.reads : QueueRead(work, read)'
    BY <1>2, <2>2, <2>3
  <2>5. \A work \in Outstanding' : work.kind = "copy" => work.reads = {}
    BY <1>2, <1>4
  <2> QED BY <1>2, <2>1, <2>4, <2>5 DEF ReadsInv
<1>6. CASE VkBegins
  <2>1. plugin = "vulkan" /\ fence /\ stage = 1 /\ UNCHANGED <<list, queue>>
    BY <1>6 DEF VkBegins, Going, gpu
  <2>2. list'.reads = {}
    BY <2>1 DEF ListInv
  <2>3. Frames = {} /\ Outstanding' = Outstanding
    BY <2>1, Same DEF FenceInv
  <2>4. \A work \in Outstanding : work.reads = {}
    BY <1>3, <1>4, <2>3
  <2> QED BY <2>2, <2>3, <2>4 DEF ReadsInv
<1>7. CASE DxBegins
  <2>1. /\ plugin = "d3d12" /\ completed >= fenceValue[current] /\ frameIndex' = current
        /\ UNCHANGED <<queue, fenceValue>> /\ current \in Rings
        /\ ring' = [ring EXCEPT ![current] = [c \in Cells |-> 0]]
    BY <1>1, <1>7 DEF DxBegins, ResetRing, gpu, CountersTyped
  <2>2. list'.reads = {} /\ Outstanding' = Outstanding
    BY <1>7, <2>1, Same DEF DxBegins, Empty
  <2>3. ASSUME NEW work \in Outstanding, NEW read \in work.reads PROVE QueueRead(work, read)'
    <3>1. QueueRead(work, read) /\ work.kind = "frame"
      BY <1>4 DEF ReadsInv
    <3>2. CASE read.value = 0 \/ read.at \notin Addresses
      <4>1. Held(read.at, read.value)'
        BY <3>2, HeldIsNext
      <4> QED BY <3>1, <3>2, <4>1 DEF QueueRead
    <3>3. CASE read.value # 0 /\ read.at \in Addresses
      <4>1. work.value <= fenceValue[read.at[1]] /\ Held(read.at, read.value) /\ read.at # None
        BY <2>1, <3>1, <3>3 DEF QueueRead
      <4>2. read.at[1] \in Rings
        BY <3>3, HeldIs
      <4>3. read.at[1] # current
        <5>1. completed < work.value
          BY <1>3, <2>1, <3>1, ValuesAre DEF InOrder
        <5>2. completed \in Nat /\ work.value \in Nat /\ fenceValue[current] \in Nat
          BY <1>1, <1>3, <2>1 DEF CountersTyped, Work
        <5> QED BY <2>1, <4>1, <5>1, <5>2
      <4>4. ring'[read.at[1]] = ring[read.at[1]]
        BY <1>1, <2>1, <4>2, <4>3 DEF RingTyped
      <4>5. Held(read.at, read.value)'
        BY <1>1, <4>1, <4>4 DEF Held
      <4> QED BY <2>1, <4>1, <4>3, <4>5 DEF QueueRead
    <3> QED BY <3>2, <3>3
  <2> QED BY <1>4, <2>2, <2>3 DEF ReadsInv
<1> QED BY <1>5, <1>6, <1>7, MovesKeep

MemoryInv == RingInv /\ SlotsInv /\ ReadsInv /\ MadeInv /\ BlockInv

LEMMA MemoryInit == Init => MemoryInv
<1> SUFFICES ASSUME Init PROVE MemoryInv
  OBVIOUS
<1>1. /\ \A c \in Cells : ring[0][c] = 0
      /\ head = 0 /\ \A s \in Slots : meant[s] = 0
      /\ list.reads = {} /\ queue = <<>> /\ draws = {} /\ step = "idle" /\ made = {} /\ call = 0
  BY Zero DEF Init, InitShared, Empty
<1>2. stage = 0
  BY <1>1, TypeInit, StageIs DEF TypeInv
<1>3. RingInv
  BY <1>1 DEF RingInv, Cells
<1>4. SlotsInv
  <2>1. \A b \in Uniforms : SlotLive(b)
    BY <1>1, HeldIs, SlotsAre DEF SlotLive
  <2>2. OffsetHeld("constants")
    BY <1>1, HeldIs, SlotsAre DEF OffsetHeld
  <2> QED BY <1>1, <2>1, <2>2, SlotsAre DEF SlotsInv
<1>5. ReadsInv
  BY <1>1 DEF ReadsInv, Outstanding
<1>6. MadeInv /\ BlockInv
  BY <1>1, <1>2 DEF MadeInv, BlockInv
<1> QED BY <1>3, <1>4, <1>5, <1>6 DEF MemoryInv

LEMMA MemoryInvStep == FramesInv /\ MemoryInv /\ [Next]_vars => MemoryInv'
<1> SUFFICES ASSUME FramesInv, MemoryInv, Moves PROVE MemoryInv'
  BY NextMoves, StutterMoves DEF FramesInv
<1>1. /\ TypeInv /\ ListInv /\ FenceInv /\ ValuesInv
      /\ RingInv /\ SlotsInv /\ ReadsInv /\ MadeInv /\ BlockInv
  BY DEF FramesInv, MemoryInv
<1> QED BY <1>1, RingInvStep, SlotsInvStep, ReadsInvStep, MadeInvStep, BlockInvStep DEF MemoryInv

\* What a recorded or submitted draw will read is still there when the GPU reads
\* it, and was bound: update_buffer, push_constants, the wrap of a full ring and
\* the reset of a frame's ring overwrite nothing that is yet to be read, with every
\* number of frame contexts and of ring cells, in all three plugins.
THEOREM ReadsStayIntact == Spec => []ReadsIntact
<1>1. MemoryInv => ReadsIntact
  <2> SUFFICES ASSUME MemoryInv, NEW work \in Outstanding \cup {list}, NEW read \in work.reads
               PROVE  Intact(read)
    BY DEF ReadsIntact
  <2>1. read.at # None /\ Held(read.at, read.value)
    BY HeldIs DEF MemoryInv, ReadsInv, ListRead, QueueRead
  <2> QED BY <2>1 DEF Intact, Held, Addresses
<1>2. Spec => []MemoryInv
  BY MemoryInit, MemoryInvStep, FramesCorrect, PTL DEF Spec
<1> QED BY <1>1, <1>2, PTL
=============================================================================

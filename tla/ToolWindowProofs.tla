-------------------------- MODULE ToolWindowProofs --------------------------
(***************************************************************************)
(* Theorems about ToolWindow, for any tools, threads, rules, window and    *)
(* threshold: its type, that no sweep goes without the alarm, and that     *)
(* every alarm is a sweep.                                                 *)
(***************************************************************************)
EXTENDS ToolWindow, FiniteSetTheorems, TLAPS

(***************************************************************************)
(* The strengthening: what a window and the calls made say of each other.  *)
(***************************************************************************)

\* A call that is recent in real time is in the window, with a time at least
\* its own less what the clock has lost.
Covered(t) ==
    \A m \in made[t] : m.at >= ticks - Window =>
        \E i \in 1 .. Len(windows[t]) :
            windows[t][i].tool = m.tool /\ windows[t][i].at >= m.at - skew

\* The entries are in the order of the calls: each is a call made no earlier
\* than any entry before it says.
Backed(t) ==
    \A i, j \in 1 .. Len(windows[t]) : i <= j =>
        \E m \in made[t] : m.tool = windows[t][j].tool /\ m.at >= windows[t][i].at

\* The first entry had not expired at the latest scan, which raised the alarm
\* just when the window holds a sweep.
Headed(t) ==
    /\ Len(windows[t]) > 0 => windows[t][1].at >= latest[t].at - Window - skew
    /\ latest[t].alarm <=> Sweeps(windows[t])

IInv == TypeOK /\ \A t \in Threads : Covered(t) /\ Backed(t) /\ Headed(t)

Entries == [at : Int, tool : Tools]

-----------------------------------------------------------------------------
(* What a scan does to a window.                                           *)

\* Popping k entries.
LEMMA PoppedFacts ==
    ASSUME NEW w \in Seq(Entries), NEW k \in Nat, k < Len(w)
    PROVE  /\ SubSeq(w, k + 1, Len(w)) \in Seq(Entries)
           /\ Len(SubSeq(w, k + 1, Len(w))) = Len(w) - k
           /\ \A i \in 1 .. Len(w) - k : SubSeq(w, k + 1, Len(w))[i] = w[i + k]
    OBVIOUS

\* Appending one.
LEMMA AppendedFacts ==
    ASSUME NEW w \in Seq(Entries), NEW e \in Entries
    PROVE  /\ Append(w, e) \in Seq(Entries)
           /\ Len(Append(w, e)) = Len(w) + 1
           /\ Append(w, e)[Len(w) + 1] = e
           /\ \A i \in 1 .. Len(w) : Append(w, e)[i] = w[i]
    OBVIOUS

\* What a window holds.
LEMMA WindowTypes ==
    ASSUME TypeOK, NEW t \in Threads
    PROVE  /\ windows[t] \in Seq(Entries) /\ Len(windows[t]) \in Nat
           /\ \A i \in 1 .. Len(windows[t]) :
                 windows[t][i].at \in Int /\ windows[t][i].tool \in Tools
<1>1. windows \in [Threads -> Seq(Entries)]
    BY DEF TypeOK, Entries
<1>2. windows[t] \in Seq(Entries)
    BY <1>1
<1>3. \A i \in 1 .. Len(windows[t]) : windows[t][i] \in Entries
    BY <1>2
<1>4. \A e \in Entries : e.at \in Int /\ e.tool \in Tools
    BY DEF Entries
<1>5. QED
    BY <1>2, <1>3, <1>4

\* What the new window of a thread holds: its old entries in their order but
\* for some that have expired, and the call.
Slides(t, tool) ==
    \E w \in Seq(Entries), k \in Nat :
        /\ Len(w) = Len(windows[t]) + 1 /\ k < Len(w)
        /\ \A i \in 1 .. Len(windows[t]) : w[i] = windows[t][i]
        /\ w[Len(w)] = Entry(tool)
        /\ \A i \in 1 .. k : w[i].at < ticks - skew - Window
        /\ w[k + 1].at >= ticks - skew - Window
        /\ windows'[t] \in Seq(Entries)
        /\ Len(windows'[t]) = Len(w) - k
        /\ \A i \in 1 .. Len(w) - k : windows'[t][i] = w[i + k]

LEMMA SlideFacts ==
    ASSUME TypeOK, NEW m \in Calls, Slide(m.thread, m.tool)
    PROVE  \/ /\ m.thread = NoThread \/ "enumeration" \notin Rules
              /\ UNCHANGED <<windows, made, latest>>
           \/ /\ m.thread \in Threads /\ m.tool \in Tools
              /\ Slides(m.thread, m.tool)
              /\ \A t \in Threads \ {m.thread} :
                    /\ windows'[t] = windows[t]
                    /\ made'[t] = made[t]
                    /\ latest'[t] = latest[t]
              /\ made'[m.thread] = made[m.thread] \cup {[at |-> ticks, tool |-> m.tool]}
              /\ latest'[m.thread] = [at |-> ticks, alarm |-> Sweeps(windows'[m.thread])]
              /\ windows' \in [Threads -> Seq(Entries)]
              /\ made' \in [Threads -> SUBSET [at : Nat, tool : Tools]]
              /\ latest' \in [Threads -> [at : Nat, alarm : BOOLEAN]]
<1> DEFINE t == m.thread
           e == Entry(m.tool)
           w == Append(windows[t], e)
<1>1. SUFFICES ASSUME ~(t = NoThread \/ "enumeration" \notin Rules)
               PROVE  /\ m.thread \in Threads /\ m.tool \in Tools
                      /\ Slides(m.thread, m.tool)
                      /\ \A d \in Threads \ {m.thread} :
                            /\ windows'[d] = windows[d]
                            /\ made'[d] = made[d]
                            /\ latest'[d] = latest[d]
                      /\ made'[m.thread] = made[m.thread] \cup {[at |-> ticks, tool |-> m.tool]}
                      /\ latest'[m.thread] = [at |-> ticks, alarm |-> Sweeps(windows'[m.thread])]
                      /\ windows' \in [Threads -> Seq(Entries)]
                      /\ made' \in [Threads -> SUBSET [at : Nat, tool : Tools]]
                      /\ latest' \in [Threads -> [at : Nat, alarm : BOOLEAN]]
    BY DEF Slide
<1>2. t \in Threads /\ m.tool \in Tools
    BY <1>1, ToolsAssumption
<1>3. ticks \in Nat /\ skew \in Nat /\ Window \in Nat
    BY ToolsAssumption DEF TypeOK
<1>4. e \in Entries /\ e.at = ticks - skew
    BY <1>2, <1>3 DEF Entry, Entries, now
<1>5. windows[t] \in Seq(Entries) /\ Len(windows[t]) \in Nat
  <2>1. windows \in [Threads -> Seq(Entries)]
    BY DEF TypeOK, Entries
  <2>2. windows[t] \in Seq(Entries)
    BY <1>2, <2>1
  <2>3. QED
    BY <2>2
<1>6. /\ w \in Seq(Entries) /\ Len(w) = Len(windows[t]) + 1 /\ w[Len(windows[t]) + 1] = e
      /\ \A i \in 1 .. Len(windows[t]) : w[i] = windows[t][i]
    BY <1>4, <1>5, AppendedFacts
<1>7. PICK k \in 0 .. Len(windows[t]) :
          /\ Drops(w, k)
          /\ windows' = [windows EXCEPT ![t] = SubSeq(w, k + 1, Len(w))]
    BY <1>1 DEF Slide
<1>8. k \in Nat /\ k < Len(w)
    BY <1>5, <1>6
<1>9. /\ SubSeq(w, k + 1, Len(w)) \in Seq(Entries)
      /\ Len(SubSeq(w, k + 1, Len(w))) = Len(w) - k
      /\ \A i \in 1 .. Len(w) - k : SubSeq(w, k + 1, Len(w))[i] = w[i + k]
    BY <1>6, <1>8, PoppedFacts
<1>10. windows' \in [Threads -> Seq(Entries)] /\ windows'[t] = SubSeq(w, k + 1, Len(w))
    BY <1>2, <1>7, <1>9 DEF TypeOK, Entries
<1>11. /\ \A i \in 1 .. k : w[i].at < ticks - skew - Window
       /\ w[k + 1].at >= ticks - skew - Window
  <2>1. k + 1 \in 1 .. Len(w)
    BY <1>5, <1>6, <1>8
  <2>2. w[k + 1].at \in Int
    <3>1. w[k + 1] \in Entries
      BY <1>6, <2>1
    <3>2. QED
      BY <3>1 DEF Entries
  <2>3. (\A i \in 1 .. k : w[i].at < now - Window) /\ ~(w[k + 1].at < now - Window)
    BY <1>7 DEF Drops, Expired
  <2>4. QED
    BY <1>3, <2>2, <2>3 DEF now
<1>12. Slides(t, m.tool)
  <2>1. w[Len(w)] = e
    BY <1>5, <1>6
  <2>2. /\ Len(w) = Len(windows[t]) + 1 /\ k < Len(w)
        /\ \A i \in 1 .. Len(windows[t]) : w[i] = windows[t][i]
        /\ \A i \in 1 .. k : w[i].at < ticks - skew - Window
        /\ w[k + 1].at >= ticks - skew - Window
        /\ windows'[t] \in Seq(Entries)
        /\ Len(windows'[t]) = Len(w) - k
        /\ \A i \in 1 .. Len(w) - k : windows'[t][i] = w[i + k]
    BY <1>6, <1>8, <1>9, <1>10, <1>11
  <2>3. w \in Seq(Entries) /\ k \in Nat
    BY <1>6, <1>8
  <2> HIDE DEF w, e, t
  <2>4. QED
    BY <2>1, <2>2, <2>3 DEF Slides, e
<1>13. /\ made' = [made EXCEPT ![t] = @ \cup {[at |-> ticks, tool |-> m.tool]}]
       /\ latest' = [latest EXCEPT ![t] = [at |-> ticks, alarm |-> Sweeps(windows'[t])]]
    BY <1>1 DEF Slide
<1>14. Sweeps(windows'[t]) \in BOOLEAN
    BY DEF Sweeps
<1>15. latest' \in [Threads -> [at : Nat, alarm : BOOLEAN]]
    BY <1>2, <1>3, <1>13, <1>14 DEF TypeOK
<1>16. made' \in [Threads -> SUBSET [at : Nat, tool : Tools]]
    BY <1>2, <1>3, <1>13 DEF TypeOK
<1>17. QED
    BY <1>2, <1>7, <1>10, <1>12, <1>13, <1>15, <1>16 DEF TypeOK

-----------------------------------------------------------------------------
(* The invariant holds, and every step keeps it.                           *)

LEMMA InitIInv == ASSUME Init PROVE IInv
<1>1. TypeOK
    BY ToolsAssumption DEF Init, TypeOK, now
<1>2. ASSUME NEW t \in Threads PROVE Covered(t) /\ Backed(t) /\ Headed(t)
  <2>1. windows[t] = << >> /\ made[t] = {} /\ latest[t].alarm = FALSE
    BY DEF Init
  <2>2. ~Sweeps(<< >>)
    <3>1. InWindow(<< >>) = {}
      BY DEF InWindow
    <3>2. Cardinality({}) = 0
      BY FS_EmptySet
    <3>3. ~(0 >= Threshold)
      BY ToolsAssumption
    <3>4. QED
      BY <3>1, <3>2, <3>3 DEF Sweeps
  <2>3. QED
    BY <2>1, <2>2 DEF Covered, Backed, Headed
<1>3. QED
    BY <1>1, <1>2 DEF IInv

\* A scan of a thread, for the window of that thread.
LEMMA SlidesKeep ==
    ASSUME IInv, NEW t \in Threads, NEW tool \in Tools, Slides(t, tool), UNCHANGED clock,
           made'[t] = made[t] \cup {[at |-> ticks, tool |-> tool]},
           latest'[t] = [at |-> ticks, alarm |-> Sweeps(windows'[t])]
    PROVE  /\ Covered(t)' /\ Backed(t)' /\ Headed(t)'
           /\ \A i \in 1 .. Len(windows'[t]) : windows'[t][i].at <= ticks
<1> DEFINE old == windows[t]
           new == windows'[t]
<1>0. TypeOK /\ Covered(t) /\ Backed(t)
    BY DEF IInv
<1>1. PICK w \in Seq(Entries), k \in Nat :
          /\ Len(w) = Len(old) + 1 /\ k < Len(w)
          /\ \A i \in 1 .. Len(old) : w[i] = old[i]
          /\ w[Len(w)] = Entry(tool)
          /\ \A i \in 1 .. k : w[i].at < ticks - skew - Window
          /\ w[k + 1].at >= ticks - skew - Window
          /\ new \in Seq(Entries)
          /\ Len(new) = Len(w) - k
          /\ \A i \in 1 .. Len(w) - k : new[i] = w[i + k]
    BY DEF Slides
<1>2. /\ ticks \in Nat /\ skew \in Nat /\ Window \in Nat
      /\ ticks' = ticks /\ skew' = skew
    BY <1>0, ToolsAssumption DEF TypeOK, clock
<1>3. /\ old \in Seq(Entries) /\ Len(old) \in Nat /\ Len(w) \in Nat /\ Len(new) \in Nat
      /\ \A i \in 1 .. Len(old) : old[i].at \in Int /\ old[i].at <= ticks
  <2>1. windows \in [Threads -> Seq(Entries)]
    BY <1>0 DEF TypeOK, Entries
  <2>2. old \in Seq(Entries)
    BY <2>1
  <2>3. \A i \in 1 .. Len(old) : old[i] \in Entries /\ old[i].at <= ticks
    BY <1>0, <2>2 DEF TypeOK
  <2>4. \A i \in 1 .. Len(old) : old[i].at \in Int /\ old[i].at <= ticks
    BY <2>3 DEF Entries
  <2>5. Len(old) \in Nat /\ Len(w) \in Nat /\ Len(new) \in Nat
    BY <1>1, <2>2
  <2>6. QED
    BY <2>2, <2>4, <2>5
<1>4. Entry(tool).at = ticks - skew /\ Entry(tool).tool = tool
    BY DEF Entry, now
<1>5. \A m \in made[t] : m.at \in Nat /\ m.tool \in Tools
    BY <1>0 DEF TypeOK
<1>6. \A i \in 1 .. Len(new) : i + k \in 1 .. Len(w) /\ new[i] = w[i + k]
  <2>1. Len(new) = Len(w) - k /\ k \in Nat /\ k < Len(w) /\ Len(w) \in Nat
    BY <1>1, <1>3
  <2>2. \A i \in 1 .. Len(new) : i + k \in 1 .. Len(w) /\ i \in 1 .. Len(w) - k
    BY <2>1
  <2>3. QED
    BY <1>1, <2>2
<1>7. \A i \in 1 .. Len(w) : w[i].at \in Int /\ w[i].at <= ticks
  <2>1. ASSUME NEW i \in 1 .. Len(w) PROVE w[i].at \in Int /\ w[i].at <= ticks
    <3>1. CASE i = Len(w)
      <4>1. w[i].at = ticks - skew
        BY <1>1, <1>4, <3>1
      <4>2. QED
        BY <1>2, <4>1
    <3>2. CASE i # Len(w)
      <4>1. i \in 1 .. Len(old)
        <5>1. Len(w) = Len(old) + 1 /\ Len(old) \in Nat
          BY <1>1, <1>3
        <5>2. QED
          BY <3>2, <5>1
      <4>2. QED
        BY <1>1, <1>3, <4>1
    <3>3. QED
      BY <3>1, <3>2
  <2>2. QED
    BY <2>1
<1>8. Covered(t)'
  <2>1. SUFFICES ASSUME NEW m \in made'[t], m.at >= ticks - Window
                 PROVE  \E i \in 1 .. Len(new) : new[i].tool = m.tool /\ new[i].at >= m.at - skew
    BY <1>2 DEF Covered
  <2>2. PICK i \in 1 .. Len(w) : w[i].tool = m.tool /\ w[i].at >= m.at - skew
    <3>1. CASE m \in made[t]
      <4>1. PICK i \in 1 .. Len(old) : old[i].tool = m.tool /\ old[i].at >= m.at - skew
        BY <1>0, <2>1, <3>1 DEF Covered
      <4>2. i \in 1 .. Len(w) /\ w[i] = old[i]
        <5>1. Len(w) = Len(old) + 1 /\ Len(old) \in Nat
          BY <1>1, <1>3
        <5>2. i \in 1 .. Len(w)
          BY <5>1
        <5>3. QED
          BY <1>1, <5>2
      <4>3. QED
        BY <4>1, <4>2
    <3>2. CASE m = [at |-> ticks, tool |-> tool]
      <4>1. Len(w) \in 1 .. Len(w)
        BY <1>1, <1>3
      <4>2. w[Len(w)].tool = m.tool /\ w[Len(w)].at >= m.at - skew
        BY <1>1, <1>2, <1>4, <3>2
      <4>3. QED
        BY <4>1, <4>2
    <3>3. QED
      BY <2>1, <3>1, <3>2
  <2>3. m.at \in Nat
    BY <1>2, <1>5, <2>1
  <2>4. w[i].at >= ticks - skew - Window
    BY <1>2, <1>7, <2>1, <2>2, <2>3
  <2>5. i > k
    <3>1. ~(w[i].at < ticks - skew - Window)
      BY <1>2, <1>7, <2>4
    <3>2. i \notin 1 .. k
      BY <1>1, <3>1
    <3>3. i \in Nat /\ i >= 1
      BY <1>3, <2>2
    <3>4. QED
      BY <3>2, <3>3
  <2>6. i - k \in 1 .. Len(new) /\ (i - k) + k = i
    BY <1>1, <1>3, <2>5
  <2>7. new[i - k] = w[i]
    BY <1>6, <2>6
  <2>8. QED
    BY <2>2, <2>6, <2>7
<1>9. Backed(t)'
  <2>1. SUFFICES ASSUME NEW i \in 1 .. Len(new), NEW j \in 1 .. Len(new), i <= j
                 PROVE  \E m \in made'[t] : m.tool = new[j].tool /\ m.at >= new[i].at
    BY DEF Backed
  <2>2. /\ i + k \in 1 .. Len(w) /\ j + k \in 1 .. Len(w) /\ i + k <= j + k
        /\ new[i] = w[i + k] /\ new[j] = w[j + k]
    BY <1>1, <1>6, <2>1
  <2>3. CASE j + k = Len(w)
    <3>1. [at |-> ticks, tool |-> tool] \in made'[t]
      OBVIOUS
    <3>2. new[j].tool = tool /\ ticks >= new[i].at
      BY <1>1, <1>2, <1>4, <1>7, <2>2, <2>3
    <3>3. QED
      BY <3>1, <3>2
  <2>4. CASE j + k # Len(w)
    <3>1. /\ i + k \in 1 .. Len(old) /\ j + k \in 1 .. Len(old)
          /\ new[i] = old[i + k] /\ new[j] = old[j + k]
      <4>1. Len(w) = Len(old) + 1 /\ Len(old) \in Nat /\ i \in Int /\ j \in Int
        BY <1>1, <1>3, <2>1
      <4>2. i + k \in 1 .. Len(old) /\ j + k \in 1 .. Len(old)
        BY <2>2, <2>4, <4>1
      <4>3. w[i + k] = old[i + k] /\ w[j + k] = old[j + k]
        BY <1>1, <4>2
      <4>4. QED
        BY <2>2, <4>2, <4>3
    <3>2. PICK m \in made[t] : m.tool = old[j + k].tool /\ m.at >= old[i + k].at
      BY <1>0, <2>2, <3>1 DEF Backed
    <3>3. QED
      BY <3>1, <3>2
  <2>5. QED
    BY <2>3, <2>4
<1>10. Headed(t)'
  <2>1. 1 \in 1 .. Len(new) /\ new[1] = w[k + 1]
    BY <1>1, <1>3, <1>6
  <2>2. latest'[t].at = ticks /\ latest'[t].alarm = Sweeps(new)
    OBVIOUS
  <2>3. k + 1 \in 1 .. Len(w)
    BY <1>1, <1>3
  <2>4. new[1].at >= ticks - Window - skew
    BY <1>1, <1>2, <1>7, <2>1, <2>3
  <2>5. QED
    BY <1>2, <2>2, <2>4 DEF Headed, Sweeps, InWindow
<1>11. \A i \in 1 .. Len(new) : new[i].at <= ticks
    BY <1>6, <1>7
<1>12. QED
    BY <1>8, <1>9, <1>10, <1>11

\* A scan of one thread leaves the windows of the others.
LEMMA ScanKeeps ==
    ASSUME IInv, NEW m \in Calls, Slide(m.thread, m.tool), UNCHANGED clock
    PROVE  /\ \A t \in Threads : Covered(t)' /\ Backed(t)' /\ Headed(t)'
           /\ windows' \in [Threads -> Seq([at : Int, tool : Tools])]
           /\ \A t \in Threads : \A i \in 1 .. Len(windows'[t]) : windows'[t][i].at <= ticks
           /\ made' \in [Threads -> SUBSET [at : Nat, tool : Tools]]
           /\ latest' \in [Threads -> [at : Nat, alarm : BOOLEAN]]
<1>0. TypeOK /\ \A t \in Threads : Covered(t) /\ Backed(t) /\ Headed(t)
    BY DEF IInv
<1>1. ASSUME NEW t \in Threads,
             windows'[t] = windows[t], made'[t] = made[t], latest'[t] = latest[t]
      PROVE  /\ Covered(t)' /\ Backed(t)' /\ Headed(t)'
             /\ \A i \in 1 .. Len(windows'[t]) : windows'[t][i].at <= ticks
  <2>1. ticks' = ticks /\ skew' = skew
    BY DEF clock
  <2>2. Covered(t)'
    BY <1>0, <1>1, <2>1 DEF Covered
  <2>3. Backed(t)'
    BY <1>0, <1>1 DEF Backed
  <2>4. Headed(t)'
    BY <1>0, <1>1, <2>1 DEF Headed, Sweeps, InWindow
  <2>5. \A i \in 1 .. Len(windows'[t]) : windows'[t][i].at <= ticks
    BY <1>0, <1>1 DEF TypeOK
  <2>6. QED
    BY <2>2, <2>3, <2>4, <2>5
<1>2. CASE UNCHANGED <<windows, made, latest>>
    BY <1>0, <1>1, <1>2 DEF TypeOK
<1>3. CASE ~UNCHANGED <<windows, made, latest>>
  <2>1. /\ m.thread \in Threads /\ m.tool \in Tools
        /\ Slides(m.thread, m.tool)
        /\ \A t \in Threads \ {m.thread} :
              windows'[t] = windows[t] /\ made'[t] = made[t] /\ latest'[t] = latest[t]
        /\ made'[m.thread] = made[m.thread] \cup {[at |-> ticks, tool |-> m.tool]}
        /\ latest'[m.thread] = [at |-> ticks, alarm |-> Sweeps(windows'[m.thread])]
        /\ windows' \in [Threads -> Seq(Entries)]
        /\ made' \in [Threads -> SUBSET [at : Nat, tool : Tools]]
        /\ latest' \in [Threads -> [at : Nat, alarm : BOOLEAN]]
    BY <1>0, <1>3, SlideFacts
  <2>2. /\ Covered(m.thread)' /\ Backed(m.thread)' /\ Headed(m.thread)'
        /\ \A i \in 1 .. Len(windows'[m.thread]) : windows'[m.thread][i].at <= ticks
    BY <2>1, SlidesKeep
  <2>3. ASSUME NEW t \in Threads
        PROVE  /\ Covered(t)' /\ Backed(t)' /\ Headed(t)'
               /\ \A i \in 1 .. Len(windows'[t]) : windows'[t][i].at <= ticks
    <3>1. CASE t = m.thread
      BY <2>2, <3>1 DEF Covered, Backed, Headed, Sweeps, InWindow
    <3>2. CASE t # m.thread
      BY <1>1, <2>1, <3>2
    <3>3. QED
      BY <3>1, <3>2
  <2>4. QED
    BY <2>1, <2>3 DEF Entries
<1>4. QED
    BY <1>2, <1>3

\* The callers' own variables keep their types, and so does the rest in a scan.
LEMMA TypeStep == ASSUME IInv, Next PROVE TypeOK'
<1>0. TypeOK
    BY DEF IInv
<1>1. /\ "idle" \in {"idle", "decide", "event", "done"}
      /\ {} \in SUBSET Reasons /\ {"circuit_breaker"} \in SUBSET Reasons
    BY DEF Reasons
<1>2. ASSUME NEW c \in Clients, Begin(c) PROVE TypeOK'
    BY <1>0, <1>1, <1>2 DEF Begin, TypeOK, clock
<1>3. ASSUME NEW c \in Clients, Pass(c) PROVE TypeOK'
  <2>1. /\ verdict' \in [Clients -> SUBSET Reasons]
        /\ at' \in [Clients -> {"idle", "decide", "event", "done"}]
    BY <1>0, <1>1, <1>3 DEF Pass, TypeOK
  <2>2. UNCHANGED <<ticks, skew, windows, call, found, hurried, made, latest>>
    BY <1>3 DEF Pass, clock
  <2>3. QED
    BY <1>0, <2>1, <2>2 DEF TypeOK
<1>4. ASSUME NEW c \in Clients, Evaluate(c) \/ Inspect(c) PROVE TypeOK'
  <2>1. call[c] \in Calls /\ Slide(call[c].thread, call[c].tool) /\ UNCHANGED clock
    BY <1>0, <1>4 DEF Evaluate, Inspect, TypeOK
  <2>2. /\ windows' \in [Threads -> Seq([at : Int, tool : Tools])]
        /\ \A t \in Threads : \A i \in 1 .. Len(windows'[t]) : windows'[t][i].at <= ticks
        /\ made' \in [Threads -> SUBSET [at : Nat, tool : Tools]]
        /\ latest' \in [Threads -> [at : Nat, alarm : BOOLEAN]]
    BY <2>1, ScanKeeps
  <2>3. Matched(call[c]) \in SUBSET AllRules
    BY ToolsAssumption DEF Matched, AllRules
  <2>4. (Matched(call[c]) \cap BlockOn) \cup
        (IF call[c].tool \in Allowed THEN {} ELSE {"out_of_allowlist"}) \in SUBSET Reasons
    BY <2>3 DEF Reasons, AllRules
  <2>5. /\ at' \in [Clients -> {"idle", "decide", "event", "done"}]
        /\ verdict' \in [Clients -> SUBSET Reasons]
        /\ found' \in [Clients -> SUBSET AllRules]
        /\ call' = call /\ hurried' = hurried
    BY <1>0, <1>4, <2>3, <2>4 DEF Evaluate, Inspect, TypeOK
  <2>6. ticks' = ticks /\ skew' = skew
    BY <2>1 DEF clock
  <2>7. QED
    BY <1>0, <2>2, <2>5, <2>6 DEF TypeOK
<1>5. CASE Tick
  <2>1. \A t \in Threads : \A i \in 1 .. Len(windows[t]) : windows[t][i].at <= ticks + 1
    <3>1. ASSUME NEW t \in Threads, NEW i \in 1 .. Len(windows[t])
          PROVE  windows[t][i].at <= ticks + 1
      <4>1. windows[t][i].at \in Int
        BY <1>0, WindowTypes
      <4>2. windows[t][i].at <= ticks /\ ticks \in Nat
        BY <1>0 DEF TypeOK
      <4>3. QED
        BY <4>1, <4>2
    <3>2. QED
      BY <3>1
  <2>2. hurried' \in [Clients -> BOOLEAN]
    BY <1>0, <1>5 DEF Tick, TypeOK
  <2>3. /\ ticks' = ticks + 1 /\ ticks' \in Nat
        /\ UNCHANGED <<skew, windows, at, call, verdict, found, made, latest>>
    BY <1>0, <1>5 DEF Tick, TypeOK
  <2>4. QED
    BY <1>0, <2>1, <2>2, <2>3 DEF TypeOK
<1>6. CASE StepBack
  <2>1. /\ skew' \in Nat
        /\ UNCHANGED <<ticks, windows, at, call, verdict, found, hurried, made, latest>>
    BY <1>0, <1>6 DEF StepBack, TypeOK
  <2>2. QED
    BY <1>0, <2>1 DEF TypeOK
<1>7. QED
    BY <1>2, <1>3, <1>4, <1>5, <1>6 DEF Next

LEMMA WindowsStep ==
    ASSUME IInv, Next, NEW t \in Threads
    PROVE  Covered(t)' /\ Backed(t)' /\ Headed(t)'
<1>0. TypeOK /\ Covered(t) /\ Backed(t) /\ Headed(t)
    BY DEF IInv
<1>1. ASSUME NEW c \in Clients, Begin(c) \/ Pass(c)
      PROVE  Covered(t)' /\ Backed(t)' /\ Headed(t)'
  <2>1. UNCHANGED <<ticks, skew, windows, made, latest>>
    BY <1>1 DEF Begin, Pass, clock
  <2>2. Covered(t)'
    BY <1>0, <2>1 DEF Covered
  <2>3. Backed(t)'
    BY <1>0, <2>1 DEF Backed
  <2>4. Headed(t)'
    BY <1>0, <2>1 DEF Headed, Sweeps, InWindow
  <2>5. QED
    BY <2>2, <2>3, <2>4
<1>2. ASSUME NEW c \in Clients, Evaluate(c) \/ Inspect(c)
      PROVE  Covered(t)' /\ Backed(t)' /\ Headed(t)'
  <2>1. call[c] \in Calls /\ Slide(call[c].thread, call[c].tool) /\ UNCHANGED clock
    BY <1>0, <1>2 DEF Evaluate, Inspect, TypeOK
  <2>2. QED
    BY <2>1, ScanKeeps
<1>3. CASE Tick \/ StepBack
  <2>1. /\ windows' = windows /\ made' = made /\ latest' = latest
        /\ ticks' \in Nat /\ skew' \in Nat /\ ticks' >= ticks /\ skew' >= skew
        /\ ticks \in Nat /\ skew \in Nat /\ Window \in Nat
    BY <1>0, <1>3, ToolsAssumption DEF Tick, StepBack, TypeOK
  <2>2. \A i \in 1 .. Len(windows[t]) : windows[t][i].at \in Int
    BY <1>0, WindowTypes
  <2>3. latest[t].at \in Nat /\ \A m \in made[t] : m.at \in Nat
    BY <1>0 DEF TypeOK
  <2>4. Covered(t)'
    <3>1. SUFFICES ASSUME NEW m \in made[t], m.at >= ticks' - Window
                   PROVE  \E i \in 1 .. Len(windows[t]) :
                             windows[t][i].tool = m.tool /\ windows[t][i].at >= m.at - skew'
      BY <2>1 DEF Covered
    <3>2. m.at \in Nat /\ m.at >= ticks - Window
      BY <2>1, <2>3, <3>1
    <3>3. PICK i \in 1 .. Len(windows[t]) :
              windows[t][i].tool = m.tool /\ windows[t][i].at >= m.at - skew
      BY <1>0, <3>2 DEF Covered
    <3>4. windows[t][i].at >= m.at - skew'
      BY <2>1, <2>2, <3>2, <3>3
    <3>5. QED
      BY <3>3, <3>4
  <2>5. Backed(t)'
    BY <1>0, <2>1 DEF Backed
  <2>6. Headed(t)'
    <3>1. Len(windows[t]) > 0 => 1 \in 1 .. Len(windows[t])
      <4>1. Len(windows[t]) \in Nat
        BY <1>0 DEF TypeOK
      <4>2. QED
        BY <4>1
    <3>2. Len(windows[t]) > 0 => windows[t][1].at >= latest[t].at - Window - skew'
      BY <1>0, <2>1, <2>2, <2>3, <3>1 DEF Headed
    <3>3. latest[t].alarm <=> Sweeps(windows[t])
      BY <1>0 DEF Headed
    <3>4. QED
      BY <2>1, <3>2, <3>3 DEF Headed, Sweeps, InWindow
  <2>7. QED
    BY <2>4, <2>5, <2>6
<1>4. QED
    BY <1>1, <1>2, <1>3 DEF Next

LEMMA NextIInv == ASSUME IInv, [Next]_vars PROVE IInv'
<1>1. CASE Next
    BY <1>1, TypeStep, WindowsStep DEF IInv
<1>2. CASE UNCHANGED vars
  <2>1. UNCHANGED <<ticks, skew, windows, at, call, verdict, found, hurried, made, latest>>
    BY <1>2 DEF vars
  <2>2. TypeOK'
    BY <2>1 DEF IInv, TypeOK
  <2>3. ASSUME NEW t \in Threads PROVE Covered(t)' /\ Backed(t)' /\ Headed(t)'
    <3>1. Covered(t) /\ Backed(t) /\ Headed(t)
      BY DEF IInv
    <3>2. Covered(t)'
      BY <2>1, <3>1 DEF Covered
    <3>3. Backed(t)'
      BY <2>1, <3>1 DEF Backed
    <3>4. Headed(t)'
      BY <2>1, <3>1 DEF Headed, Sweeps, InWindow
    <3>5. QED
      BY <3>2, <3>3, <3>4
  <2>4. QED
    BY <2>2, <2>3 DEF IInv
<1>3. QED
    BY <1>1, <1>2

-----------------------------------------------------------------------------
(* The theorems.                                                           *)

\* The variables keep their types; in particular no entry of a window is later
\* than the time that has really passed.
THEOREM TypeCorrect == Spec => []TypeOK
<1>1. IInv => TypeOK
    BY DEF IInv
<1>2. QED
    BY <1>1, InitIInv, NextIInv, PTL DEF Spec

\* The tools of a window, and those called since a time, are finitely many.
LEMMA FewTools ==
    ASSUME TypeOK, NEW t \in Threads, NEW time \in Int
    PROVE  /\ IsFiniteSet(InWindow(windows[t])) /\ Cardinality(InWindow(windows[t])) \in Nat
           /\ IsFiniteSet(Since(t, time)) /\ Cardinality(Since(t, time)) \in Nat
<1>1. InWindow(windows[t]) \subseteq Tools
    BY WindowTypes DEF InWindow
<1>2. Since(t, time) \subseteq Tools
    BY DEF Since, TypeOK
<1>3. IsFiniteSet(InWindow(windows[t])) /\ IsFiniteSet(Since(t, time))
    BY <1>1, <1>2, FS_Subset, ToolsAssumption
<1>4. QED
    BY <1>3, FS_CardinalityType

\* Whoever calls Threshold distinct tools within the window gets the alarm,
\* whatever was blocked, scanned twice or called at a clock set back.
THEOREM SweepsAlarm == Spec => []NoSweepMissed
<1>1. ASSUME IInv PROVE NoSweepMissed
  <2>1. SUFFICES ASSUME NEW t \in Threads,
                        Cardinality(Since(t, ticks - Window)) >= Threshold
                 PROVE  latest[t].alarm
    BY DEF NoSweepMissed
  <2>2. TypeOK /\ Covered(t) /\ Headed(t)
    BY <1>1 DEF IInv
  <2>3. ticks - Window \in Int /\ Threshold \in Nat
    BY <2>2, ToolsAssumption DEF TypeOK
  <2>4. Since(t, ticks - Window) \subseteq InWindow(windows[t])
    BY <2>2 DEF Since, Covered, InWindow
  <2>5. Cardinality(Since(t, ticks - Window)) <= Cardinality(InWindow(windows[t]))
    BY <2>2, <2>3, <2>4, FewTools, FS_Subset
  <2>6. Cardinality(InWindow(windows[t])) >= Threshold
    BY <2>1, <2>2, <2>3, <2>5, FewTools
  <2>7. QED
    BY <2>2, <2>6 DEF Headed, Sweeps
<1>2. QED
    BY <1>1, InitIInv, NextIInv, PTL DEF Spec

\* An alarm means Threshold distinct tools called within the window and the time
\* the clock lost: the double scan of a call, and old entries, add none.
THEOREM AlarmsAreSweeps == Spec => []AlarmsBounded
<1>1. ASSUME IInv PROVE AlarmsBounded
  <2>1. SUFFICES ASSUME NEW t \in Threads, latest[t].alarm
                 PROVE  Cardinality(Since(t, latest[t].at - Window - skew)) >= Threshold
    BY DEF AlarmsBounded
  <2> DEFINE time == latest[t].at - Window - skew
             w == windows[t]
  <2>2. TypeOK /\ Backed(t) /\ Headed(t)
    BY <1>1 DEF IInv
  <2>3. time \in Int /\ Threshold \in Nat
    BY <2>2, ToolsAssumption DEF TypeOK
  <2>4. Len(w) \in Nat /\ \A i \in 1 .. Len(w) : w[i].at \in Int
    BY <2>2, WindowTypes
  <2>5. ASSUME NEW j \in 1 .. Len(w) PROVE w[j].tool \in Since(t, time)
    <3>1. 1 \in 1 .. Len(w) /\ 1 <= j /\ Len(w) > 0
      BY <2>4
    <3>2. PICK m \in made[t] : m.tool = w[j].tool /\ m.at >= w[1].at
      BY <2>2, <3>1 DEF Backed
    <3>3. w[1].at \in Int /\ m.at \in Nat
      BY <2>2, <2>4, <3>1 DEF TypeOK
    <3>4. w[1].at >= time
      BY <2>2, <3>1 DEF Headed
    <3>5. m.at >= time
      BY <2>3, <3>2, <3>3, <3>4
    <3>6. QED
      BY <3>2, <3>5 DEF Since
  <2>6. InWindow(w) \subseteq Since(t, time)
    BY <2>5 DEF InWindow
  <2>7. Cardinality(InWindow(w)) <= Cardinality(Since(t, time))
    BY <2>2, <2>3, <2>6, FewTools, FS_Subset
  <2>8. Cardinality(InWindow(w)) >= Threshold
    BY <2>1, <2>2 DEF Headed, Sweeps
  <2>9. QED
    BY <2>2, <2>3, <2>7, <2>8, FewTools
<1>2. QED
    BY <1>1, InitIInv, NextIInv, PTL DEF Spec

-----------------------------------------------------------------------------
(* The verdict and the event.                                              *)

\* A sweep none of which the next scan at this time pops.
Held(t) ==
    /\ "enumeration" \in Rules /\ t \in Threads
    /\ Len(windows[t]) > 0
    /\ windows[t][1].at >= ticks - skew - Window
    /\ Sweeps(windows[t])

\* What the event's scan is still to find of a verdict.
Pending(c) ==
    at[c] = "event" =>
        /\ verdict[c] \ {"circuit_breaker", "out_of_allowlist"}
              \subseteq (call[c].misuse \cap Rules) \cup {"enumeration"}
        /\ hurried[c] /\ "enumeration" \in verdict[c] => Held(call[c].thread)

Explained(c) ==
    at[c] = "done" =>
        verdict[c] \ {"circuit_breaker", "out_of_allowlist"}
            \subseteq found[c] \cup (IF hurried[c] THEN {} ELSE {"enumeration"})

JInv == IInv /\ \A c \in Clients : Pending(c) /\ Explained(c)

\* A scan at the same time pops nothing of it.
LEMMA HeldKept ==
    ASSUME IInv, NEW m \in Calls, Slide(m.thread, m.tool), UNCHANGED clock,
           NEW t, Held(t)
    PROVE  Held(t)' /\ (m.thread = t => latest'[t].alarm)
<1>0. TypeOK /\ t \in Threads /\ "enumeration" \in Rules
    BY DEF IInv, Held
<1>1. ticks' = ticks /\ skew' = skew /\ ticks \in Nat /\ skew \in Nat /\ Window \in Nat
    BY <1>0, ToolsAssumption DEF clock, TypeOK
<1>2. CASE m.thread = t
  <2>1. m.thread # NoThread
    BY <1>0, <1>2, ToolsAssumption
  <2>2. /\ Slides(t, m.tool)
        /\ latest'[t] = [at |-> ticks, alarm |-> Sweeps(windows'[t])]
        /\ windows' \in [Threads -> Seq(Entries)]
    BY <1>0, <1>2, <2>1, SlideFacts
  <2>3. PICK w \in Seq(Entries), k \in Nat :
            /\ Len(w) = Len(windows[t]) + 1 /\ k < Len(w)
            /\ \A i \in 1 .. Len(windows[t]) : w[i] = windows[t][i]
            /\ \A i \in 1 .. k : w[i].at < ticks - skew - Window
            /\ Len(windows'[t]) = Len(w) - k
            /\ \A i \in 1 .. Len(w) - k : windows'[t][i] = w[i + k]
    BY <2>2 DEF Slides
  <2>4. Len(windows[t]) \in Nat /\ Len(windows[t]) > 0 /\ windows[t][1].at >= ticks - skew - Window
    BY <1>0, WindowTypes DEF Held
  <2>5. 1 \in 1 .. Len(windows[t]) /\ windows[t][1].at \in Int
    BY <1>0, <2>4, WindowTypes
  <2>6. k = 0
    <3>1. w[1].at = windows[t][1].at
      BY <2>3, <2>5
    <3>2. ~(w[1].at < ticks - skew - Window)
      BY <1>1, <2>4, <2>5, <3>1
    <3>3. 1 \notin 1 .. k
      BY <2>3, <3>2
    <3>4. QED
      BY <3>3
  <2>7. /\ Len(windows'[t]) = Len(windows[t]) + 1
        /\ \A i \in 1 .. Len(windows[t]) :
              i \in 1 .. Len(windows'[t]) /\ windows'[t][i] = windows[t][i]
    <3>1. Len(w) - k = Len(windows[t]) + 1 /\ \A i \in Nat : i + k = i
      BY <2>3, <2>4, <2>6
    <3>2. \A i \in 1 .. Len(windows[t]) : i \in 1 .. Len(windows[t]) + 1 /\ i \in Nat
      BY <2>4
    <3>3. QED
      BY <2>3, <3>1, <3>2
  <2>8. InWindow(windows[t]) \subseteq InWindow(windows'[t])
    BY <2>7 DEF InWindow
  <2>9. InWindow(windows'[t]) \subseteq Tools
    <3>1. windows'[t] \in Seq(Entries)
      BY <1>0, <2>2
    <3>2. \A i \in 1 .. Len(windows'[t]) : windows'[t][i] \in Entries
      BY <3>1
    <3>3. QED
      BY <3>2 DEF InWindow, Entries
  <2>10. IsFiniteSet(InWindow(windows'[t]))
    BY <2>9, FS_Subset, ToolsAssumption
  <2>11. IsFiniteSet(InWindow(windows[t]))
    BY <2>8, <2>10, FS_Subset
  <2>12. Cardinality(InWindow(windows[t])) <= Cardinality(InWindow(windows'[t]))
    BY <2>8, <2>10, FS_Subset
  <2>13. /\ Cardinality(InWindow(windows[t])) \in Nat /\ Cardinality(InWindow(windows'[t])) \in Nat
         /\ Threshold \in Nat
    BY <2>10, <2>11, FS_CardinalityType, ToolsAssumption
  <2>14. Cardinality(InWindow(windows'[t])) >= Threshold
    BY <2>12, <2>13 DEF Held, Sweeps
  <2>15. Sweeps(windows'[t]) /\ latest'[t].alarm
    <3>1. Sweeps(windows'[t])
      BY <2>14 DEF Sweeps
    <3>2. latest'[t].alarm = Sweeps(windows'[t])
      BY <2>2
    <3>3. QED
      BY <3>1, <3>2
  <2>16. Len(windows'[t]) > 0 /\ windows'[t][1].at >= ticks' - skew' - Window
    BY <1>1, <2>4, <2>5, <2>7
  <2>17. QED
    BY <1>0, <2>15, <2>16 DEF Held, Sweeps, InWindow
<1>3. CASE m.thread # t
  <2>1. windows'[t] = windows[t]
    BY <1>0, <1>3, SlideFacts
  <2>2. QED
    BY <1>1, <1>3, <2>1 DEF Held, Sweeps, InWindow
<1>4. QED
    BY <1>2, <1>3

\* A scan that raises the alarm leaves a sweep behind that is not popped yet.
LEMMA HeldMade ==
    ASSUME IInv, NEW m \in Calls, Slide(m.thread, m.tool), UNCHANGED clock,
           "enumeration" \in Matched(m)
    PROVE  Held(m.thread)'
<1>0. TypeOK
    BY DEF IInv
<1>1. /\ m.thread # NoThread /\ "enumeration" \in Rules /\ latest'[m.thread].alarm
  <2>1. m.misuse \subseteq Misuse
    BY ToolsAssumption
  <2>2. QED
    BY <2>1 DEF Matched, Misuse
<1>2. /\ m.thread \in Threads
      /\ Slides(m.thread, m.tool)
      /\ latest'[m.thread] = [at |-> ticks, alarm |-> Sweeps(windows'[m.thread])]
    BY <1>0, <1>1, SlideFacts
<1>3. PICK w \in Seq(Entries), k \in Nat :
          /\ k < Len(w) /\ w[k + 1].at >= ticks - skew - Window
          /\ Len(windows'[m.thread]) = Len(w) - k
          /\ \A i \in 1 .. Len(w) - k : windows'[m.thread][i] = w[i + k]
    BY <1>2 DEF Slides
<1>4. Len(w) \in Nat
    OBVIOUS
<1>5. 1 \in 1 .. Len(w) - k /\ Len(windows'[m.thread]) > 0 /\ 1 + k = k + 1
    BY <1>3, <1>4
<1>6. windows'[m.thread][1].at >= ticks' - skew' - Window
    BY <1>3, <1>5 DEF clock
<1>7. Sweeps(windows'[m.thread])
    BY <1>1, <1>2
<1>8. QED
    BY <1>1, <1>2, <1>5, <1>6, <1>7 DEF Held, Sweeps, InWindow

\* A step of the clock, or of another client.
LEMMA OthersKeep ==
    ASSUME JInv, Next, NEW c \in Clients,
           at'[c] = at[c], verdict'[c] = verdict[c], found'[c] = found[c], call'[c] = call[c],
           hurried'[c] => hurried[c], at[c] = "done" => hurried'[c] = hurried[c],
           \A t : hurried'[c] /\ at[c] = "event" /\ Held(t) => Held(t)'
    PROVE  Pending(c)' /\ Explained(c)'
<1>1. Pending(c) /\ Explained(c)
    BY DEF JInv
<1>2. Explained(c)'
    BY <1>1 DEF Explained
<1>3. SUFFICES ASSUME at[c] = "event", hurried'[c], "enumeration" \in verdict[c]
               PROVE  Held(call[c].thread)'
    BY <1>1, <1>2 DEF Pending, Held
<1>4. Held(call[c].thread)
    BY <1>1, <1>3 DEF Pending
<1>5. QED
    BY <1>3, <1>4

LEMMA NextJInv == ASSUME JInv, [Next]_vars PROVE JInv'
<1>0. IInv /\ TypeOK /\ IInv'
    BY NextIInv DEF JInv, IInv
<1>1. ASSUME NEW c \in Clients, NEW d \in Clients, Begin(d) \/ Pass(d)
      PROVE  Pending(c)' /\ Explained(c)'
  <2>1. UNCHANGED <<ticks, skew, windows>>
    BY <1>1 DEF Begin, Pass, clock
  <2>2. \A t : Held(t) => Held(t)'
    BY <2>1 DEF Held, Sweeps, InWindow
  <2>3. CASE c = d
    BY <1>0, <1>1, <2>3 DEF Begin, Pass, TypeOK, Pending, Explained
  <2>4. CASE c # d
    BY <1>0, <1>1, <2>2, <2>4, OthersKeep DEF Begin, Pass, TypeOK, Next
  <2>5. QED
    BY <2>3, <2>4
<1>2. ASSUME NEW c \in Clients, NEW d \in Clients, Evaluate(d) \/ Inspect(d)
      PROVE  Pending(c)' /\ Explained(c)'
  <2>1. call[d] \in Calls /\ Slide(call[d].thread, call[d].tool) /\ UNCHANGED clock
    BY <1>0, <1>2 DEF Evaluate, Inspect, TypeOK
  <2>2. \A t : Held(t) => Held(t)' /\ (call[d].thread = t => latest'[t].alarm)
    BY <1>0, <2>1, HeldKept
  <2>3. CASE c # d
    BY <1>0, <1>2, <2>2, <2>3, OthersKeep DEF Evaluate, Inspect, TypeOK, Next
  <2>4. CASE c = d /\ Evaluate(c)
    <3>1. /\ at'[c] = "event" /\ call'[c] = call[c]
          /\ verdict'[c] = (Matched(call[c]) \cap BlockOn) \cup
                (IF call[c].tool \in Allowed THEN {} ELSE {"out_of_allowlist"})
      BY <1>0, <2>4 DEF Evaluate, TypeOK
    <3>2. Matched(call[c]) \subseteq (call[c].misuse \cap Rules) \cup {"enumeration"}
      BY DEF Matched
    <3>3. "enumeration" \in verdict'[c] => Held(call[c].thread)'
      BY <1>0, <2>1, <2>4, <3>1, HeldMade
    <3>4. Explained(c)'
      BY <3>1 DEF Explained
    <3>5. QED
      BY <3>1, <3>2, <3>3, <3>4 DEF Pending, Held
  <2>5. CASE c = d /\ Inspect(c)
    <3>1. /\ at[c] = "event" /\ at'[c] = "done" /\ verdict' = verdict /\ hurried' = hurried
          /\ found'[c] = Matched(call[c])
      BY <1>0, <2>5 DEF Inspect, TypeOK
    <3>2. /\ verdict[c] \ {"circuit_breaker", "out_of_allowlist"}
                \subseteq (call[c].misuse \cap Rules) \cup {"enumeration"}
          /\ hurried[c] /\ "enumeration" \in verdict[c] => Held(call[c].thread)
      BY <3>1 DEF JInv, Pending
    <3>3. call[c].misuse \cap Rules \subseteq found'[c]
      BY <3>1 DEF Matched
    <3>4. hurried[c] /\ "enumeration" \in verdict[c] => "enumeration" \in found'[c]
      <4>1. SUFFICES ASSUME Held(call[c].thread) PROVE "enumeration" \in found'[c]
        BY <3>2
      <4>2. /\ "enumeration" \in Rules /\ call[c].thread # NoThread
            /\ latest'[call[c].thread].alarm
        BY <2>2, <2>5, <4>1, ToolsAssumption DEF Held
      <4>3. QED
        BY <3>1, <4>2 DEF Matched
    <3>5. Explained(c)'
      BY <3>1, <3>2, <3>3, <3>4 DEF Explained
    <3>6. QED
      BY <3>1, <3>5 DEF Pending
  <2>6. QED
    BY <1>2, <2>3, <2>4, <2>5
<1>3. ASSUME NEW c \in Clients, Tick
      PROVE  Pending(c)' /\ Explained(c)'
    BY <1>0, <1>3, OthersKeep DEF Tick, TypeOK, Next
<1>4. ASSUME NEW c \in Clients, StepBack
      PROVE  Pending(c)' /\ Explained(c)'
  <2>1. \A t : Held(t) => Held(t)'
    <3>1. ASSUME NEW t, Held(t) PROVE Held(t)'
      <4>1. t \in Threads /\ Len(windows[t]) \in Nat /\ Len(windows[t]) > 0
        BY <1>0, <3>1, WindowTypes DEF Held
      <4>2. windows[t][1].at \in Int
        BY <1>0, <4>1, WindowTypes
      <4>3. /\ ticks' = ticks /\ skew' = skew + 1 /\ windows' = windows
            /\ ticks \in Nat /\ skew \in Nat /\ Window \in Nat
        BY <1>0, <1>4, ToolsAssumption DEF StepBack, TypeOK
      <4>4. windows'[t][1].at >= ticks' - skew' - Window
        BY <3>1, <4>2, <4>3 DEF Held
      <4>5. QED
        BY <3>1, <4>3, <4>4 DEF Held, Sweeps, InWindow
    <3>2. QED
      BY <3>1
  <2>2. QED
    BY <1>4, <2>1, OthersKeep DEF StepBack, Next
<1>5. CASE Next
    BY <1>0, <1>1, <1>2, <1>3, <1>4, <1>5 DEF Next, JInv
<1>6. CASE UNCHANGED vars
    BY <1>0, <1>6 DEF vars, JInv, Pending, Explained, Held, Sweeps, InWindow
<1>7. QED
    BY <1>5, <1>6

\* What a verdict of decide_tool_call names is in the event inspect_tool_call
\* emits next, whoever calls tools of the thread between the two scans, unless
\* the clock has moved and ended an enumeration.
THEOREM VerdictsExplained == Spec => []VerdictExplained
<1>1. ASSUME Init PROVE JInv
  <2>1. IInv
    BY <1>1, InitIInv
  <2>2. \A c \in Clients : Pending(c) /\ Explained(c)
    BY <1>1 DEF Init, Pending, Explained
  <2>3. QED
    BY <2>1, <2>2 DEF JInv
<1>2. JInv => VerdictExplained
    BY DEF JInv, Explained, VerdictExplained
<1>3. QED
    BY <1>1, <1>2, NextJInv, PTL DEF Spec
=============================================================================

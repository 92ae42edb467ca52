------------------------- MODULE RemoteDaggyProofs -------------------------
(***************************************************************************)
(* The safety of ssh2 sources, for any providers and any commands.         *)
(***************************************************************************)
EXTENDS RemoteDaggy, TLAPS

\* What the operators of Ssh2 are given and return.
States ==
  [core: CoreStates, ps: [Providers -> ProviderStates], link: [Providers -> Links],
   chan: [Commands -> Channels \cup {NoChannel}], cmd: [Commands -> ProcessStates]]

\* What libssh2 may answer.
Hows ==
  [open: [Commands -> {"ok", "fail", "again"}], exec: [Commands -> {"ok", "fail", "again"}],
   close: [Commands -> {"done", "again"}], read: [Commands -> {"data", "eof", "closed"}]]

\* The channel x of a plain command that is not deleted yet: what is ahead of it.
Lives(x) ==
  \/ x.at = "Opening" /\ x.process = "NotStarted" /\ x.open /\ ~x.handle
  \/ x.at = "Opened" /\ x.process \in {"Starting", "Started"} /\ x.open /\ x.handle
  \/ x.at = "Closing" /\ x.process = "Finishing" /\ ~x.open /\ x.handle

\* The channel x of the command c between two events.
Shape(x, c) ==
  /\ ~x.open => x.at # "Opening" /\ x.process \in {"Finishing", "Finished", "FailedToStart"}
  /\ c \notin Restart => x.doomed \/ Lives(x)

\* From w to v nothing happened but to the channel of c, which is still there.
Touched(w, v, c) ==
  /\ v \in States
  /\ v.core = w.core /\ v.ps = w.ps /\ v.link = w.link
  /\ \A d \in Commands \ {c} : v.chan[d] = w.chan[d]
  /\ v.chan[c] \in Channels
  /\ w.chan[c].doomed => v.chan[c].doomed

-----------------------------------------------------------------------------
(* Channels *)

LEMMA ChannelsExist ==
  ASSUME NEW x \in Channels
  PROVE  x # NoChannel
  BY DEF Channels, ChannelStates, NoChannel

LEMMA ExistingAreChannels ==
  ASSUME NEW w \in States, NEW c \in Commands, exists(w, c)
  PROVE  w.chan[c] \in Channels
  BY DEF States, exists

LEMMA TouchedTwice ==
  ASSUME NEW u, NEW v, NEW w, NEW c \in Commands, Touched(u, v, c), Touched(v, w, c)
  PROVE  Touched(u, w, c)
  BY DEF Touched

\* A process that is signalled.
LEMMA Signalled ==
  ASSUME NEW w \in States, NEW c \in Commands, w.chan[c] \in Channels, NEW s \in ProcessStates,
         NEW v, v = signalProcess(w, c, s)
  PROVE  /\ Touched(w, v, c)
         /\ v.chan[c].process = s
         /\ v.chan[c].at = w.chan[c].at /\ v.chan[c].open = w.chan[c].open
         /\ v.chan[c].handle = w.chan[c].handle
         /\ s = "FailedToStart" /\ w.chan[c].process # s => v.chan[c].doomed
         /\ s # "FailedToStart" => v.chan[c].doomed = w.chan[c].doomed
  <1>1. CASE w.chan[c].process = s
    BY <1>1 DEF signalProcess, Touched
  <1>2. CASE w.chan[c].process # s
    <2>1. PICK x : x = [w.chan[c] EXCEPT !.process = s, !.doomed = @ \/ s = "FailedToStart"]
      OBVIOUS
    <2>2. v = [w EXCEPT !.chan = [w.chan EXCEPT ![c] = x], !.cmd = [w.cmd EXCEPT ![c] = s]]
      BY <1>2, <2>1 DEF signalProcess, States
    <2>3. /\ x \in Channels /\ x.process = s
          /\ x.at = w.chan[c].at /\ x.open = w.chan[c].open /\ x.handle = w.chan[c].handle
      BY <2>1 DEF Channels
    <2>4. /\ s = "FailedToStart" => x.doomed
          /\ w.chan[c].doomed => x.doomed
          /\ s # "FailedToStart" => x.doomed = w.chan[c].doomed
      BY <2>1 DEF Channels
    <2>5. v.chan[c] = x /\ \A d \in Commands \ {c} : v.chan[d] = w.chan[d]
      BY <2>2 DEF States
    <2>6. v \in States /\ v.core = w.core /\ v.ps = w.ps /\ v.link = w.link
      <3>1. [w.chan EXCEPT ![c] = x] \in [Commands -> Channels \cup {NoChannel}]
        BY <2>3 DEF States
      <3>2. [w.cmd EXCEPT ![c] = s] \in [Commands -> ProcessStates]
        BY DEF States
      <3>3. QED
        BY <2>2, <3>1, <3>2 DEF States
    <2>7. QED
      BY <1>2, <2>3, <2>4, <2>5, <2>6 DEF Touched
  <1>3. QED
    BY <1>1, <1>2

\* A channel one of whose fields is assigned.
LEMMA Assigned ==
  ASSUME NEW w \in States, NEW c \in Commands, w.chan[c] \in Channels, NEW x \in Channels,
         w.chan[c].doomed => x.doomed
  PROVE  LET v == [w EXCEPT !.chan[c] = x]
         IN Touched(w, v, c) /\ v.chan[c] = x
  BY DEF States, Touched

\* A channel that is opened: nothing happens, or it fails, or it waits.
LEMMA Opens ==
  ASSUME NEW w \in States, NEW c \in Commands, w.chan[c] \in Channels, NEW how \in Hows,
         NEW v, v = open(w, c, how)
  PROVE  /\ Touched(w, v, c)
         /\ \/ v = w
            \/ /\ session(w, c) = "Established"
               /\ ~w.chan[c].open /\ w.chan[c].at # "Opening"
               /\ \/ /\ v.chan[c].at = "FailedToOpen" /\ v.chan[c].process = "FailedToStart"
                     /\ w.chan[c].process # "FailedToStart" => v.chan[c].doomed
                  \/ /\ v.chan[c].at = "Opening" /\ v.chan[c].process = w.chan[c].process
                     /\ v.chan[c].open /\ ~v.chan[c].handle
         /\ v.chan[c].handle = w.chan[c].handle
         /\ (w.chan[c].open \/ w.chan[c].handle \/ session(w, c) # "Established") => v = w
         /\ (~w.chan[c].open /\ ~w.chan[c].handle /\ session(w, c) = "Established"
               /\ w.chan[c].at # "Opening") => v.chan[c].at \in {"FailedToOpen", "Opening"}
  <1> DEFINE x == w.chan[c]
  <1>1. CASE x.open \/ x.handle \/ session(w, c) # "Established" \/ x.at = "Opening"
    BY <1>1 DEF open, Touched
  <1>2. CASE /\ ~(x.open \/ x.handle \/ session(w, c) # "Established" \/ x.at = "Opening")
             /\ how.open[c] = "fail"
    <2>1. PICK y \in Channels : y = [x EXCEPT !.at = "FailedToOpen"]
      BY DEF Channels, ChannelStates
    <2>2. /\ y.at = "FailedToOpen" /\ y.process = x.process /\ y.open = x.open
          /\ y.doomed = x.doomed /\ y.handle = x.handle
      BY <2>1 DEF Channels
    <2>3. PICK u : u = [w EXCEPT !.chan[c] = y]
      OBVIOUS
    <2>4. Touched(w, u, c) /\ u.chan[c] = y
      BY <2>2, <2>3, Assigned
    <2>5. u = [w EXCEPT !.chan[c].at = "FailedToOpen"]
      BY <2>1, <2>3 DEF States
    <2>6. v = signalProcess(u, c, "FailedToStart")
      BY <1>2, <2>5 DEF open
    <2>7. u \in States /\ u.chan[c] \in Channels
      BY <2>4 DEF Touched
    <2>8. /\ Touched(u, v, c) /\ v.chan[c].process = "FailedToStart"
          /\ v.chan[c].at = u.chan[c].at /\ v.chan[c].handle = u.chan[c].handle
          /\ u.chan[c].process # "FailedToStart" => v.chan[c].doomed
      BY <2>6, <2>7, Signalled DEF ProcessStates
    <2>9. Touched(w, v, c)
      BY <2>4, <2>8, TouchedTwice
    <2>10. QED
      BY <1>2, <2>2, <2>4, <2>8, <2>9
  <1>3. CASE /\ ~(x.open \/ x.handle \/ session(w, c) # "Established" \/ x.at = "Opening")
             /\ how.open[c] # "fail"
    <2>1. PICK y \in Channels : y = [x EXCEPT !.at = "Opening", !.open = TRUE]
      BY DEF Channels, ChannelStates
    <2>2. /\ y.at = "Opening" /\ y.process = x.process /\ y.open /\ y.handle = x.handle
          /\ y.doomed = x.doomed
      BY <2>1 DEF Channels
    <2>3. v = [w EXCEPT !.chan[c] = y]
      BY <1>3, <2>1 DEF open, States
    <2>4. Touched(w, v, c) /\ v.chan[c] = y
      BY <2>2, <2>3, Assigned
    <2>5. QED
      BY <1>3, <2>2, <2>4
  <1>4. QED
    BY <1>1, <1>2, <1>3

\* A process that ends: its channel is opened again, or its deletion is posted.
LEMMA ProcessEnds ==
  ASSUME NEW w \in States, NEW c \in Commands, w.chan[c] \in Channels, NEW how \in Hows,
         NEW v, v = processEnds(w, c, how)
  PROVE  /\ Touched(w, v, c)
         /\ v.chan[c].handle = w.chan[c].handle
         /\ w.chan[c].process = "Finished" => v = w
         /\ w.chan[c].open => /\ v.chan[c].open /\ v.chan[c].at = w.chan[c].at
                              /\ v.chan[c].process = "Finished"
                              /\ v.chan[c].handle = w.chan[c].handle
         /\ w.chan[c].process # "Finished" /\ c \notin Restart => v.chan[c].doomed
         /\ ~w.chan[c].open /\ w.chan[c].at # "Opening" =>
              \/ /\ ~v.chan[c].open /\ v.chan[c].at # "Opening"
                 /\ v.chan[c].process \in {"Finished", "FailedToStart"}
              \/ v.chan[c].open /\ session(w, c) = "Established"
  <1>1. CASE w.chan[c].process = "Finished"
    BY <1>1 DEF processEnds, Touched
  <1>2. CASE w.chan[c].process # "Finished"
    <2>1. PICK u : u = signalProcess(w, c, "Finished")
      OBVIOUS
    <2>2. /\ Touched(w, u, c) /\ u.chan[c].process = "Finished"
          /\ u.chan[c].at = w.chan[c].at /\ u.chan[c].open = w.chan[c].open
          /\ u.chan[c].handle = w.chan[c].handle
      BY <2>1, Signalled DEF ProcessStates
    <2>3. u \in States /\ u.chan[c] \in Channels /\ session(u, c) = session(w, c)
      BY <2>2 DEF Touched, session
    <2>4. CASE c \in Restart /\ w.ps[Owner[c]] = "Started"
      <3>1. v = open(u, c, how)
        BY <1>2, <2>1, <2>4 DEF processEnds
      <3>2. /\ Touched(u, v, c)
            /\ \/ v = u
               \/ /\ session(u, c) = "Established"
                  /\ ~u.chan[c].open /\ u.chan[c].at # "Opening"
                  /\ \/ v.chan[c].at = "FailedToOpen" /\ v.chan[c].process = "FailedToStart"
                     \/ v.chan[c].at = "Opening" /\ v.chan[c].open
            /\ u.chan[c].open => v = u
            /\ v.chan[c].handle = u.chan[c].handle
        BY <2>3, <3>1, Opens
      <3>3. Touched(w, v, c)
        BY <2>2, <3>2, TouchedTwice
      <3>4. v.chan[c] \in Channels
        BY <3>3 DEF Touched
      <3>5. QED
        BY <1>2, <2>2, <2>3, <2>4, <3>2, <3>3, <3>4
    <2>5. CASE ~(c \in Restart /\ w.ps[Owner[c]] = "Started")
      <3>1. PICK y \in Channels : y = [u.chan[c] EXCEPT !.doomed = TRUE]
        BY <2>3 DEF Channels
      <3>2. /\ y.at = u.chan[c].at /\ y.process = u.chan[c].process /\ y.open = u.chan[c].open
            /\ y.handle = u.chan[c].handle /\ y.doomed
        BY <2>3, <3>1 DEF Channels
      <3>3. v = [u EXCEPT !.chan[c] = y]
        BY <1>2, <2>1, <2>3, <2>5, <3>1 DEF processEnds, States
      <3>4. Touched(u, v, c) /\ v.chan[c] = y
        BY <2>3, <3>2, <3>3, Assigned
      <3>5. Touched(w, v, c)
        BY <2>2, <3>4, TouchedTwice
      <3>6. QED
        BY <1>2, <2>2, <3>2, <3>4, <3>5
    <2>6. QED
      BY <2>4, <2>5
  <1>3. QED
    BY <1>1, <1>2

\* A channel whose end is noticed: its process ends, and then the session is told.
LEMMA ChannelCloses ==
  ASSUME NEW w \in States, NEW c \in Commands, w.chan[c] \in Channels, Shape(w.chan[c], c),
         NEW how \in Hows, NEW v, v = channelCloses(w, c, how)
  PROVE  \E t : /\ Touched(w, t, c) /\ Shape(t.chan[c], c)
                /\ v = t \/ v = channelReports(t, c)
                /\ t.chan[c].open => w.chan[c].open \/ session(w, c) = "Established"
                /\ t.chan[c].handle => w.chan[c].handle
                /\ w.chan[c].open => /\ v = t /\ t.chan[c].open
                                     /\ c \notin Restart => t.chan[c].doomed
  <1>1. CASE w.chan[c].at = "Closed"
    <2>1. v = w
      BY <1>1 DEF channelCloses
    <2>2. c \notin Restart => w.chan[c].doomed
      BY <1>1 DEF Shape, Lives
    <2>3. QED
      BY <1>1, <2>1, <2>2 DEF Touched
  <1>2. CASE w.chan[c].at # "Closed"
    <2>1. PICK y \in Channels : y = [w.chan[c] EXCEPT !.at = "Closed", !.handle = FALSE]
      BY DEF Channels, ChannelStates
    <2>2. /\ y.at = "Closed" /\ ~y.handle /\ y.process = w.chan[c].process
          /\ y.open = w.chan[c].open /\ y.doomed = w.chan[c].doomed
      BY <2>1 DEF Channels
    <2>3. PICK u : u = [w EXCEPT !.chan[c] = y]
      OBVIOUS
    <2>4. Touched(w, u, c) /\ u.chan[c] = y
      BY <2>2, <2>3, Assigned
    <2>5. u = [w EXCEPT !.chan[c].at = "Closed", !.chan[c].handle = FALSE]
      BY <2>1, <2>3 DEF States
    <2>6. u \in States /\ u.chan[c] \in Channels /\ session(u, c) = session(w, c)
      BY <2>4 DEF Touched, session
    <2>7. PICK t : t = IF w.chan[c].process = "FailedToStart" THEN u ELSE processEnds(u, c, how)
      OBVIOUS
    <2>8. v = channelReports(t, c)
      BY <1>2, <2>5, <2>7 DEF channelCloses
    <2>9. CASE w.chan[c].process = "FailedToStart"
      <3>1. t = u
        BY <2>7, <2>9
      <3>2. c \notin Restart => w.chan[c].doomed
        BY <2>9 DEF Shape, Lives
      <3>3. Shape(t.chan[c], c)
        BY <2>2, <2>4, <2>9, <3>1, <3>2 DEF Shape
      <3>4. t.chan[c].open => channelReports(t, c) = t
        BY <2>6, <3>1, ChannelsExist DEF channelReports, openChannels, channels, commands, exists
      <3>5. QED
        BY <2>2, <2>4, <2>8, <2>9, <3>1, <3>2, <3>3, <3>4
    <2>10. CASE w.chan[c].process # "FailedToStart"
      <3>1. t = processEnds(u, c, how)
        BY <2>7, <2>10
      <3>2. /\ Touched(u, t, c)
            /\ t.chan[c].handle = u.chan[c].handle
            /\ u.chan[c].process = "Finished" => t = u
            /\ u.chan[c].open => /\ t.chan[c].open /\ t.chan[c].at = u.chan[c].at
                                 /\ t.chan[c].process = "Finished"
                                 /\ t.chan[c].handle = u.chan[c].handle
            /\ u.chan[c].process # "Finished" /\ c \notin Restart => t.chan[c].doomed
            /\ ~u.chan[c].open /\ u.chan[c].at # "Opening" =>
                 \/ /\ ~t.chan[c].open /\ t.chan[c].at # "Opening"
                    /\ t.chan[c].process \in {"Finished", "FailedToStart"}
                 \/ t.chan[c].open /\ session(u, c) = "Established"
        BY <2>6, <3>1, ProcessEnds
      <3>3. Touched(w, t, c)
        BY <2>4, <3>2, TouchedTwice
      <3>4. c \notin Restart => t.chan[c].doomed
        <4>1. w.chan[c].process = "Finished" /\ c \notin Restart => w.chan[c].doomed
          BY DEF Shape, Lives
        <4>2. QED
          BY <2>2, <2>4, <3>2, <4>1
      <3>5. Shape(t.chan[c], c)
        BY <2>2, <2>4, <3>2, <3>4 DEF Shape
      <3>6. t.chan[c].open => channelReports(t, c) = t
        BY <3>3, ChannelsExist DEF channelReports, openChannels, channels, commands, exists, Touched
      <3>7. QED
        BY <2>2, <2>4, <2>6, <2>8, <3>2, <3>3, <3>4, <3>5, <3>6
    <2>11. QED
      BY <2>9, <2>10
  <1>3. QED
    BY <1>1, <1>2

\* A channel that is closed is not open, and something is ahead of it.
LEMMA Closes ==
  ASSUME NEW w \in States, NEW c \in Commands, w.chan[c] \in Channels, Shape(w.chan[c], c),
         NEW how \in Hows, NEW v, v = close(w, c, how)
  PROVE  /\ Touched(w, v, c) /\ Shape(v.chan[c], c) /\ ~v.chan[c].open
         /\ v.chan[c].handle => w.chan[c].handle
  <1>1. CASE ~w.chan[c].open
    BY <1>1 DEF close, Touched
  <1>2. CASE w.chan[c].open
    <2>1. PICK s : s = IF w.chan[c].handle THEN w ELSE channelCloses(w, c, how)
      OBVIOUS
    <2>2. /\ Touched(w, s, c) /\ Shape(s.chan[c], c) /\ s.chan[c].open
          /\ s.chan[c].handle \/ c \in Restart \/ s.chan[c].doomed
          /\ s.chan[c].handle => w.chan[c].handle
      <3>1. CASE w.chan[c].handle
        BY <1>2, <2>1, <3>1 DEF Touched
      <3>2. CASE ~w.chan[c].handle
        <4>1. PICK t : /\ Touched(w, t, c) /\ Shape(t.chan[c], c)
                       /\ t.chan[c].handle => w.chan[c].handle
                       /\ w.chan[c].open => s = t /\ t.chan[c].open /\ (c \notin Restart => t.chan[c].doomed)
          BY <2>1, <3>2, ChannelCloses
        <4>2. QED
          BY <1>2, <4>1
      <3>3. QED
        BY <3>1, <3>2
    <2>3. s \in States /\ s.chan[c] \in Channels
      BY <2>2 DEF Touched
    <2>4. PICK e : e = closeSession(s, c, how)
      OBVIOUS
    <2>5. /\ Touched(s, e, c) /\ Shape(e.chan[c], c) /\ e.chan[c].open
          /\ e.chan[c].doomed \/ c \in Restart \/ (e = s /\ s.chan[c].handle)
          /\ e.chan[c].handle => s.chan[c].handle
      <3>1. CASE s.chan[c].handle /\ how.close[c] = "again"
        <4>1. e = s
          BY <2>4, <3>1 DEF closeSession
        <4>2. QED
          BY <2>2, <2>3, <3>1, <4>1 DEF Touched
      <3>2. CASE ~(s.chan[c].handle /\ how.close[c] = "again")
        <4>1. e = channelCloses(s, c, how)
          BY <2>4, <3>2 DEF closeSession
        <4>2. PICK t : /\ Touched(s, t, c) /\ Shape(t.chan[c], c)
                       /\ t.chan[c].handle => s.chan[c].handle
                       /\ s.chan[c].open => e = t /\ t.chan[c].open /\ (c \notin Restart => t.chan[c].doomed)
          BY <2>2, <2>3, <4>1, ChannelCloses
        <4>3. QED
          BY <2>2, <4>2
      <3>3. QED
        BY <3>1, <3>2
    <2>6. e \in States /\ e.chan[c] \in Channels /\ Touched(w, e, c)
      <3>1. Touched(w, e, c)
        BY <2>2, <2>5, TouchedTwice
      <3>2. QED
        BY <3>1 DEF Touched
    <2>7. PICK y \in Channels : y = [e.chan[c] EXCEPT !.at = "Closing"]
      BY <2>6 DEF Channels, ChannelStates
    <2>8. /\ y.at = "Closing" /\ y.process = e.chan[c].process /\ y.handle = e.chan[c].handle
          /\ y.doomed = e.chan[c].doomed
      BY <2>6, <2>7 DEF Channels
    <2>9. PICK f : f = [e EXCEPT !.chan[c] = y]
      OBVIOUS
    <2>10. Touched(e, f, c) /\ f.chan[c] = y
      BY <2>6, <2>8, <2>9, Assigned
    <2>11. f = [e EXCEPT !.chan[c].at = "Closing"]
      BY <2>6, <2>7, <2>9 DEF States
    <2>12. f \in States /\ f.chan[c] \in Channels /\ Touched(w, f, c)
      <3>1. Touched(w, f, c)
        BY <2>6, <2>10, TouchedTwice
      <3>2. QED
        BY <3>1 DEF Touched
    <2>13. PICK g : g = aboutToClose(w, c, how)
      OBVIOUS
    <2>14. g = IF f.chan[c].process = "FailedToStart" THEN f ELSE signalProcess(f, c, "Finishing")
      BY <2>1, <2>4, <2>11, <2>13 DEF aboutToClose
    <2>15. /\ Touched(f, g, c)
           /\ g.chan[c].at = "Closing" /\ g.chan[c].handle = e.chan[c].handle
           /\ g.chan[c].process \in {"FailedToStart", "Finishing"}
           /\ e.chan[c].doomed => g.chan[c].doomed
           /\ g.chan[c].process = "FailedToStart" => e.chan[c].process = "FailedToStart"
      <3>1. CASE f.chan[c].process = "FailedToStart"
        BY <2>8, <2>10, <2>12, <2>14, <3>1 DEF Touched
      <3>2. CASE f.chan[c].process # "FailedToStart"
        <4>1. g = signalProcess(f, c, "Finishing")
          BY <2>14, <3>2
        <4>2. /\ Touched(f, g, c) /\ g.chan[c].process = "Finishing"
              /\ g.chan[c].at = f.chan[c].at /\ g.chan[c].handle = f.chan[c].handle
              /\ g.chan[c].doomed = f.chan[c].doomed
          BY <2>12, <4>1, Signalled DEF ProcessStates
        <4>3. QED
          BY <2>8, <2>10, <4>2
      <3>3. QED
        BY <3>1, <3>2
    <2>16. g \in States /\ g.chan[c] \in Channels /\ Touched(w, g, c)
      <3>1. Touched(w, g, c)
        BY <2>12, <2>15, TouchedTwice
      <3>2. QED
        BY <3>1 DEF Touched
    <2>17. PICK z \in Channels : z = [g.chan[c] EXCEPT !.open = FALSE]
      BY <2>16 DEF Channels
    <2>18. /\ z.at = g.chan[c].at /\ z.process = g.chan[c].process /\ z.handle = g.chan[c].handle
           /\ z.doomed = g.chan[c].doomed /\ ~z.open
      BY <2>16, <2>17 DEF Channels
    <2>19. v = [g EXCEPT !.chan[c] = z]
      BY <1>2, <2>13, <2>16, <2>17 DEF close, States
    <2>20. Touched(g, v, c) /\ v.chan[c] = z
      BY <2>16, <2>18, <2>19, Assigned
    <2>21. Touched(w, v, c)
      BY <2>16, <2>20, TouchedTwice
    <2>22. Shape(z, c)
      <3>1. g.chan[c].process = "FailedToStart" /\ c \notin Restart => e.chan[c].doomed
        BY <2>5, <2>15 DEF Shape, Lives
      <3>2. c \notin Restart => z.doomed \/ (e.chan[c].handle /\ z.process = "Finishing")
        BY <2>5, <2>15, <2>18, <3>1
      <3>3. QED
        BY <2>15, <2>18, <3>2 DEF Shape, Lives
    <2>23. v.chan[c].handle => w.chan[c].handle
      BY <2>2, <2>5, <2>15, <2>18, <2>20
    <2>24. QED
      BY <2>18, <2>20, <2>21, <2>22, <2>23
  <1>3. QED
    BY <1>1, <1>2

LEMMA Execs ==
  ASSUME NEW w \in States, NEW c \in Commands, w.chan[c] \in Channels, Shape(w.chan[c], c),
         NEW how \in Hows, w.chan[c].process = "Starting", NEW v, v = execSsh2Process(w, c, how)
  PROVE  Touched(w, v, c) /\ Shape(v.chan[c], c) /\ w.chan[c].open
  <1>1. how.exec[c] \in {"ok", "fail", "again"}
    BY DEF Hows
  <1>2. w.chan[c].open /\ (c \notin Restart => w.chan[c].doomed \/ Lives(w.chan[c]))
    BY DEF Shape
  <1>3. CASE how.exec[c] = "again"
    <2>1. v = w
      BY <1>3 DEF execSsh2Process
    <2>2. QED
      BY <1>2, <2>1 DEF Touched
  <1>4. CASE how.exec[c] = "ok"
    <2>1. v = signalProcess(w, c, "Started")
      BY <1>4 DEF execSsh2Process
    <2>2. /\ Touched(w, v, c) /\ v.chan[c].process = "Started"
          /\ v.chan[c].at = w.chan[c].at /\ v.chan[c].open = w.chan[c].open
          /\ v.chan[c].handle = w.chan[c].handle /\ v.chan[c].doomed = w.chan[c].doomed
      BY <2>1, Signalled DEF ProcessStates
    <2>3. QED
      BY <1>2, <2>2 DEF Shape, Lives
  <1>5. CASE how.exec[c] = "fail"
    <2>1. PICK u : u = signalProcess(w, c, "FailedToStart")
      OBVIOUS
    <2>2. /\ Touched(w, u, c) /\ u.chan[c].doomed /\ u.chan[c].open = w.chan[c].open
      BY <2>1, Signalled DEF ProcessStates
    <2>3. u \in States /\ u.chan[c] \in Channels /\ Shape(u.chan[c], c)
      BY <1>2, <2>2 DEF Touched, Shape
    <2>4. v = close(u, c, how)
      BY <1>5, <2>1 DEF execSsh2Process
    <2>5. Touched(u, v, c) /\ Shape(v.chan[c], c)
      BY <2>3, <2>4, Closes
    <2>6. QED
      BY <1>2, <2>2, <2>5, TouchedTwice
  <1>6. QED
    BY <1>1, <1>3, <1>4, <1>5

\* The peer's answer to an open that waits.
LEMMA OpenSession ==
  ASSUME NEW w \in States, NEW c \in Commands, w.chan[c] \in Channels, Shape(w.chan[c], c),
         NEW how \in Hows, w.chan[c].at = "Opening", w.chan[c].process # "FailedToStart",
         NEW v, v = openSession(w, c, how)
  PROVE  \E t : /\ Touched(w, t, c) /\ Shape(t.chan[c], c)
                /\ v = t \/ v = channelReports(t, c)
                /\ w.chan[c].open
  <1>1. how.open[c] \in {"ok", "fail", "again"}
    BY DEF Hows
  <1>2. w.chan[c].open
    BY DEF Shape
  <1>3. CASE how.open[c] = "again"
    <2>1. v = w
      BY <1>3 DEF openSession
    <2>2. QED
      BY <1>2, <2>1 DEF Touched
  <1>4. CASE how.open[c] = "ok"
    <2>1. PICK y \in Channels : y = [w.chan[c] EXCEPT !.at = "Opened", !.handle = TRUE]
      BY DEF Channels, ChannelStates
    <2>2. /\ y.at = "Opened" /\ y.handle /\ y.process = w.chan[c].process
          /\ y.open = w.chan[c].open /\ y.doomed = w.chan[c].doomed
      BY <2>1 DEF Channels
    <2>3. PICK u : u = [w EXCEPT !.chan[c] = y]
      OBVIOUS
    <2>4. Touched(w, u, c) /\ u.chan[c] = y
      BY <2>2, <2>3, Assigned
    <2>5. u = [w EXCEPT !.chan[c].at = "Opened", !.chan[c].handle = TRUE]
      BY <2>1, <2>3 DEF States
    <2>6. u \in States /\ u.chan[c] \in Channels
      BY <2>4 DEF Touched
    <2>7. PICK s : s = signalProcess(u, c, "Starting")
      OBVIOUS
    <2>8. /\ Touched(u, s, c) /\ s.chan[c].process = "Starting"
          /\ s.chan[c].at = u.chan[c].at /\ s.chan[c].open = u.chan[c].open
          /\ s.chan[c].handle = u.chan[c].handle
      BY <2>6, <2>7, Signalled DEF ProcessStates
    <2>9. s \in States /\ s.chan[c] \in Channels /\ Shape(s.chan[c], c)
      BY <1>2, <2>2, <2>4, <2>8 DEF Touched, Shape, Lives
    <2>10. PICK t : t = execSsh2Process(s, c, how)
      OBVIOUS
    <2>11. Touched(s, t, c) /\ Shape(t.chan[c], c)
      BY <2>8, <2>9, <2>10, Execs
    <2>12. Touched(w, t, c)
      <3>1. Touched(w, s, c)
        BY <2>4, <2>8, TouchedTwice
      <3>2. QED
        BY <2>11, <3>1, TouchedTwice
    <2>13. v = channelReports(t, c)
      BY <1>4, <2>5, <2>7, <2>10 DEF openSession
    <2>14. QED
      BY <1>2, <2>11, <2>12, <2>13
  <1>5. CASE how.open[c] = "fail"
    <2>1. PICK y \in Channels : y = [w.chan[c] EXCEPT !.at = "FailedToOpen"]
      BY DEF Channels, ChannelStates
    <2>2. /\ y.process = w.chan[c].process /\ y.open = w.chan[c].open
          /\ y.doomed = w.chan[c].doomed
      BY <2>1 DEF Channels
    <2>3. PICK u : u = [w EXCEPT !.chan[c] = y]
      OBVIOUS
    <2>4. Touched(w, u, c) /\ u.chan[c] = y
      BY <2>2, <2>3, Assigned
    <2>5. u = [w EXCEPT !.chan[c].at = "FailedToOpen"]
      BY <2>1, <2>3 DEF States
    <2>6. u \in States /\ u.chan[c] \in Channels
      BY <2>4 DEF Touched
    <2>7. PICK t : t = signalProcess(u, c, "FailedToStart")
      OBVIOUS
    <2>8. Touched(u, t, c) /\ t.chan[c].doomed /\ t.chan[c].open = u.chan[c].open
      BY <2>2, <2>4, <2>6, <2>7, Signalled DEF ProcessStates
    <2>9. Touched(w, t, c) /\ Shape(t.chan[c], c)
      <3>1. Touched(w, t, c)
        BY <2>4, <2>8, TouchedTwice
      <3>2. QED
        BY <1>2, <2>2, <2>4, <2>8, <3>1 DEF Shape
    <2>10. v = channelReports(t, c)
      BY <1>5, <2>5, <2>7 DEF openSession
    <2>11. QED
      BY <1>2, <2>9, <2>10
  <1>6. QED
    BY <1>1, <1>3, <1>4, <1>5

\* What a channel makes of the data it is given.
LEMMA ChannelReads ==
  ASSUME NEW w \in States, NEW c \in Commands, w.chan[c] \in Channels, Shape(w.chan[c], c),
         NEW how \in Hows, w.chan[c].process # "FailedToStart",
         NEW v, v = channelReads(w, c, how)
  PROVE  \E t : /\ Touched(w, t, c) /\ Shape(t.chan[c], c)
                /\ v = t \/ v = channelReports(t, c)
                /\ t.chan[c].open => w.chan[c].open \/ session(w, c) = "Established"
                /\ t.chan[c].handle => w.chan[c].handle \/ w.chan[c].open
  <1> USE DEF Channels, ChannelStates
  <1>1. CASE w.chan[c].at = "Opening"
    BY <1>1, OpenSession DEF channelReads
  <1>2. CASE w.chan[c].at = "Opened"
    <2>1. how.read[c] \in {"data", "eof", "closed"}
      BY DEF Hows
    <2>2. v = readChannel(w, c, how)
      BY <1>2 DEF channelReads
    <2>3. CASE how.read[c] = "data"
      BY <2>2, <2>3 DEF readChannel, Touched
    <2>4. CASE how.read[c] = "eof"
      BY <2>2, <2>4, Closes DEF readChannel
    <2>5. CASE how.read[c] = "closed"
      BY <2>2, <2>5, ChannelCloses DEF readChannel
    <2>6. QED
      BY <2>1, <2>3, <2>4, <2>5
  <1>3. CASE w.chan[c].at = "Closing"
    <2>1. v = closeSession(w, c, how)
      BY <1>3 DEF channelReads
    <2>2. CASE w.chan[c].handle /\ how.close[c] = "again"
      BY <2>1, <2>2 DEF closeSession, Touched
    <2>3. CASE ~(w.chan[c].handle /\ how.close[c] = "again")
      BY <2>1, <2>3, ChannelCloses DEF closeSession
    <2>4. QED
      BY <2>2, <2>3
  <1>4. CASE w.chan[c].at \notin {"Opening", "Opened", "Closing"}
    <2>1. v = w
      BY <1>4 DEF channelReads
    <2>2. QED
      BY <2>1 DEF Touched
  <1>5. QED
    BY <1>1, <1>2, <1>3, <1>4

LEMMA ProcessReadsChannel ==
  ASSUME NEW w \in States, NEW c \in Commands, w.chan[c] \in Channels, Shape(w.chan[c], c),
         NEW how \in Hows, NEW v, v = processReads(w, c, how)
  PROVE  \E t : /\ Touched(w, t, c) /\ Shape(t.chan[c], c)
                /\ v = t \/ v = channelReports(t, c)
                /\ t.chan[c].open => w.chan[c].open \/ session(w, c) = "Established"
                /\ t.chan[c].handle => w.chan[c].handle \/ w.chan[c].open
  <1> DEFINE x == w.chan[c]
  <1>1. CASE \/ x.process = "NotStarted" /\ x.open
             \/ x.process \in {"Started", "Finishing"}
    <2>1. v = channelReads(w, c, how)
      BY <1>1 DEF processReads
    <2>2. QED
      BY <1>1, <2>1, ChannelReads
  <1>2. CASE x.process = "Starting"
    <2>1. v = execSsh2Process(w, c, how)
      BY <1>2 DEF processReads
    <2>2. Touched(w, v, c) /\ Shape(v.chan[c], c) /\ w.chan[c].open
      BY <1>2, <2>1, Execs
    <2>3. QED
      BY <2>2
  <1>3. CASE ~(\/ x.process = "NotStarted" /\ x.open
               \/ x.process \in {"Starting", "Started", "Finishing"})
    <2>1. v = w
      BY <1>3 DEF processReads
    <2>2. QED
      BY <2>1 DEF Touched
  <1>4. QED
    BY <1>1, <1>2, <1>3

-----------------------------------------------------------------------------
(* Sessions *)

\* A session that is over, and one that comes up or is there.
Ended == {"FailedToEstablshed", "Closed", "Aborted"}
Up == {"StartingSession", "GetAuthMethods", "Authentication", "Established"}

\* The provider p is in the state of its session.
Follows(w, p) == w.ps[p] = providerStateOf(w.link[p].session)

\* FinishingHasProvider of a state w.
Waits(w) == w.core = "Finishing" => activeProviders(w.ps) # {}

\* In a Core that was started once and has no active provider, no provider has
\* been heard of, and each has an event ahead.
Noticed(w) ==
  (w.core = "Started" /\ activeProviders(w.ps) = {}) =>
     \A p \in Providers \cap prepared :
       /\ w.link[p].session = "NotEstableshed"
       /\ w.link[p].timers > 0 \/ w.link[p].tcp # "Unconnected"

\* From w to v nothing happened but to the provider p, and to Core.
Turned(w, v, p) ==
  /\ v \in States
  /\ \A q \in Providers \ {p} : v.link[q] = w.link[q] /\ v.ps[q] = w.ps[q]
  /\ \A c \in Commands \ commands(p) : v.chan[c] = w.chan[c]
  /\ v.core \in {w.core, "Finished"}
  /\ Follows(w, p) => Follows(v, p)
  /\ Waits(w) => Waits(v)

\* The session of p is over, and none of its channels is left.
Over(w, p) == w.link[p].session \in Ended /\ \A c \in commands(p) : ~exists(w, c)

\* If the session of p is over, none of its channels is left.
NoneLeft(w, p) == w.link[p].session \in Ended => \A c \in commands(p) : ~exists(w, c)

\* From w to v the session of p went on as promised: one that is being closed
\* is not established, and no process is begun in it.
Proceeds(w, v, p) ==
  /\ w.link[p].session = "Closing" => v.link[p].session # "Established"
  /\ v.link[p].session = "NotEstableshed" => w.link[p].session = "NotEstableshed"
  /\ v.link[p].session = "Closing" =>
       /\ w.link[p].session \in {"Established", "Closing"}
       /\ \A c \in commands(p) :
            exists(v, c) /\ v.chan[c].handle => exists(w, c) /\ w.chan[c].handle

LEMMA StaysIsProceeding ==
  ASSUME NEW w, NEW v, NEW p, v.link[p].session = w.link[p].session,
         \A c \in commands(p) : v.chan[c] = w.chan[c] \/ ~exists(v, c)
  PROVE  Proceeds(w, v, p)
  BY DEF Proceeds, exists

LEMMA OverIsProceeding ==
  ASSUME NEW w, NEW v, NEW p, Over(v, p)
  PROVE  Proceeds(w, v, p)
  BY DEF Proceeds, Over, Ended

\* What comes before may have moved the client, or dropped channels.
LEMMA ProceedsFrom ==
  ASSUME NEW u, NEW w, NEW v, NEW p, w.link[p].session = u.link[p].session,
         \A c \in commands(p) : w.chan[c] = u.chan[c] \/ ~exists(w, c),
         Proceeds(w, v, p)
  PROVE  Proceeds(u, v, p)
  BY DEF Proceeds, exists

\* It is only what p has that counts.
LEMMA ProceedsTo ==
  ASSUME NEW w, NEW u, NEW v, NEW p, v.link[p] = u.link[p],
         \A c \in commands(p) : v.chan[c] = u.chan[c],
         Proceeds(w, u, p)
  PROVE  Proceeds(w, v, p)
  BY DEF Proceeds, exists

LEMMA TurnedTwice ==
  ASSUME NEW u, NEW v, NEW w, NEW p, Turned(u, v, p), Turned(v, w, p)
  PROVE  Turned(u, w, p)
  BY DEF Turned

LEMMA TouchedTurns ==
  ASSUME NEW w, NEW v, NEW c \in Commands, Touched(w, v, c)
  PROVE  /\ Turned(w, v, Owner[c])
         /\ Noticed(w) => Noticed(v)
  BY DEF Touched, Turned, Follows, Waits, Noticed, commands

LEMMA StateOfSession ==
  ASSUME NEW s \in SessionStates
  PROVE  /\ providerStateOf(s) \in ProviderStates
         /\ providerStateOf(s) = "NotStarted" => s = "NotEstableshed"
         /\ s \in Ended => ~isActiveProvider(providerStateOf(s))
         /\ providerStateOf(s) = "Finished" => s \in Ended
  BY DEF SessionStates, providerStateOf, ProviderStates, Ended, isActiveProvider

\* A client, but not its session, is assigned.
LEMMA Moved ==
  ASSUME NEW w \in States, NEW p \in Providers, NEW x \in Links,
         x.session = w.link[p].session
  PROVE  LET v == [w EXCEPT !.link[p] = x]
         IN /\ Turned(w, v, p)
            /\ v.core = w.core /\ v.ps = w.ps /\ v.chan = w.chan /\ v.link[p] = x
  <1> DEFINE v == [w EXCEPT !.link[p] = x]
  <1>1. /\ v.core = w.core /\ v.ps = w.ps /\ v.chan = w.chan /\ v.link[p] = x
        /\ \A q \in Providers \ {p} : v.link[q] = w.link[q]
    BY DEF States
  <1>2. v \in States
    BY DEF States
  <1>3. QED
    BY <1>1, <1>2 DEF Turned, Follows, Waits

\* Such an assignment goes unnoticed only if it takes the last event of a
\* provider that was not heard of yet.
LEMMA MovedNoticed ==
  ASSUME NEW w \in States, NEW p \in Providers, NEW v,
         Turned(w, v, p), v.core = w.core, v.ps = w.ps,
         v.link[p].session = w.link[p].session,
         \/ v.link[p].session # "NotEstableshed"
         \/ v.link[p].timers > 0
         \/ v.link[p].tcp # "Unconnected",
         Noticed(w)
  PROVE  Noticed(v)
  <1> SUFFICES ASSUME v.core = "Started", activeProviders(v.ps) = {},
                      NEW q \in Providers \cap prepared
               PROVE  /\ v.link[q].session = "NotEstableshed"
                      /\ v.link[q].timers > 0 \/ v.link[q].tcp # "Unconnected"
    BY DEF Noticed
  <1>1. /\ w.link[q].session = "NotEstableshed"
        /\ w.link[q].timers > 0 \/ w.link[q].tcp # "Unconnected"
    BY DEF Noticed
  <1>2. CASE q = p
    BY <1>1, <1>2
  <1>3. CASE q # p
    BY <1>1, <1>3 DEF Turned
  <1>4. QED
    BY <1>2, <1>3

LEMMA Connects ==
  ASSUME NEW w \in States, NEW p \in Providers, NEW v, v = connectToHost(w, p)
  PROVE  /\ v \in States /\ v.core = w.core /\ v.ps = w.ps /\ v.chan = w.chan
         /\ \A q \in Providers \ {p} : v.link[q] = w.link[q]
         /\ v.link[p].session = w.link[p].session
         /\ v.link[p].tcp # "Unconnected"
         /\ w.link[p].tcp # "Unconnected" => v = w
         /\ w.link[p].tcp = "Unconnected" =>
              v.link[p].tcp = "Connecting" /\ v.link[p].timers > 0
  <1>1. CASE w.link[p].tcp # "Unconnected"
    BY <1>1 DEF connectToHost
  <1>2. CASE w.link[p].tcp = "Unconnected"
    <2>1. PICK x : x = [w.link[p] EXCEPT !.tcp = "Connecting", !.lost = FALSE, !.timers = @ + 1]
      OBVIOUS
    <2>2. w.link[p] \in Links
      BY DEF States
    <2>3. /\ x \in Links /\ x.session = w.link[p].session /\ x.tcp = "Connecting"
          /\ x.timers > 0
      <3>1. PICK n \in Nat : n = w.link[p].timers
        BY <2>2 DEF Links
      <3>2. n + 1 \in Nat /\ n + 1 > 0
        OBVIOUS
      <3>3. x = [w.link[p] EXCEPT !.tcp = "Connecting", !.lost = FALSE, !.timers = n + 1]
        BY <2>1, <3>1
      <3>4. x \in Links
        BY <2>2, <3>2, <3>3 DEF Links, SocketStates
      <3>5. x.timers = n + 1 /\ x.session = w.link[p].session /\ x.tcp = "Connecting"
        BY <2>2, <3>3 DEF Links
      <3>6. QED
        BY <3>2, <3>4, <3>5
    <2>4. v = [w EXCEPT !.link[p] = x]
      BY <1>2, <2>1 DEF connectToHost, States
    <2>5. /\ v \in States /\ v.core = w.core /\ v.ps = w.ps /\ v.chan = w.chan /\ v.link[p] = x
          /\ \A q \in Providers \ {p} : v.link[q] = w.link[q]
      <3>1. x \in Links /\ x.session = w.link[p].session
        BY <2>3
      <3>2. Turned(w, v, p) /\ v.core = w.core /\ v.ps = w.ps /\ v.chan = w.chan /\ v.link[p] = x
        BY <2>4, <3>1, Moved
      <3>3. QED
        BY <3>2 DEF Turned
    <2>6. QED
      BY <1>2, <2>3, <2>5
  <1>3. QED
    BY <1>1, <1>2

\* The states of session and provider change together, and Core follows.
LEMMA Signals ==
  ASSUME NEW w \in States, NEW p \in Providers, Follows(w, p), NEW s \in SessionStates,
         NEW v, v = signalSession(w, p, s)
  PROVE  /\ Turned(w, v, p) /\ Follows(v, p)
         /\ v.chan = w.chan
         /\ v.link[p].session = s
         /\ \/ v.link[p].tcp = w.link[p].tcp
            \/ w.link[p].tcp = "Unconnected" /\ s \in Ended
         /\ Noticed(w) => Noticed(v)
         /\ w.link[p].session = "NotEstableshed" /\ s # "NotEstableshed" => Noticed(v)
  <1>1. PICK x : x = [w.link[p] EXCEPT !.session = s]
    OBVIOUS
  <1>2. w.link[p] \in Links
    BY DEF States
  <1>3. x \in Links /\ x.session = s /\ x.tcp = w.link[p].tcp /\ x.timers = w.link[p].timers
    BY <1>1, <1>2 DEF Links
  <1>4. PICK z : z = [w EXCEPT !.link[p] = x]
    OBVIOUS
  <1>5. /\ z \in States /\ z.core = w.core /\ z.ps = w.ps /\ z.chan = w.chan /\ z.link[p] = x
        /\ \A q \in Providers \ {p} : z.link[q] = w.link[q]
    BY <1>3, <1>4 DEF States
  <1>6. PICK state \in ProviderStates : state = providerStateOf(s)
    BY StateOfSession
  <1>7. v = setState(z, p, state)
    BY <1>1, <1>4, <1>6 DEF signalSession, States
  <1>8. w.link[p].session \in SessionStates
    BY <1>2 DEF Links
  <1>9. CASE w.ps[p] = state
    <2>1. v = z
      BY <1>5, <1>7, <1>9 DEF setState
    <2>2. Turned(w, v, p) /\ Follows(v, p)
      BY <1>3, <1>5, <1>6, <1>9, <2>1 DEF Turned, Follows, Waits
    <2>3. w.link[p].session = "NotEstableshed" => s = "NotEstableshed"
      BY <1>6, <1>9, StateOfSession DEF Follows, providerStateOf
    <2>4. Noticed(w) => Noticed(v)
      <3> SUFFICES ASSUME Noticed(w), v.core = "Started", activeProviders(v.ps) = {},
                          NEW q \in Providers \cap prepared
                   PROVE  /\ v.link[q].session = "NotEstableshed"
                          /\ v.link[q].timers > 0 \/ v.link[q].tcp # "Unconnected"
        BY DEF Noticed
      <3>1. /\ w.link[q].session = "NotEstableshed"
            /\ w.link[q].timers > 0 \/ w.link[q].tcp # "Unconnected"
        BY <1>5, <2>1 DEF Noticed
      <3>2. CASE q = p
        BY <1>3, <1>5, <2>1, <2>3, <3>1, <3>2
      <3>3. CASE q # p
        BY <1>5, <2>1, <3>1, <3>3 DEF States
      <3>4. QED
        BY <3>2, <3>3
    <2>5. QED
      BY <1>3, <1>5, <2>1, <2>2, <2>3, <2>4
  <1>10. CASE w.ps[p] # state
    <2>1. PICK t : t = [z EXCEPT !.ps[p] = state]
      OBVIOUS
    <2>2. /\ t \in States /\ t.core = w.core /\ t.chan = w.chan /\ t.link = z.link
          /\ t.ps = [w.ps EXCEPT ![p] = state]
      <3>1. [z.ps EXCEPT ![p] = state] \in [Providers -> ProviderStates]
        BY <1>5 DEF States
      <3>2. QED
        BY <1>5, <2>1, <3>1 DEF States
    <2>3. PICK r : r = IF state = "Finished" /\ reconnects(t.core, p) THEN connectToHost(t, p) ELSE t
      OBVIOUS
    <2>4. v = [r EXCEPT !.core = coreAfter(@, r.ps)]
      BY <1>5, <1>7, <1>10, <2>1, <2>2, <2>3 DEF setState
    <2>5. /\ r \in States /\ r.core = w.core /\ r.chan = w.chan /\ r.ps = t.ps
          /\ \A q \in Providers \ {p} : r.link[q] = z.link[q]
          /\ r.link[p].session = s
          /\ \/ r.link[p].tcp = x.tcp
             \/ x.tcp = "Unconnected" /\ state = "Finished"
      <3>1. CASE r = t
        BY <1>3, <1>5, <2>2, <3>1
      <3>2. CASE r = connectToHost(t, p) /\ state = "Finished"
        BY <1>3, <1>5, <2>2, <3>2, Connects
      <3>3. QED
        BY <2>3, <3>1, <3>2
    <2>6. PICK k \in CoreStates : k = coreAfter(w.core, t.ps)
      BY <2>2 DEF States, coreAfter, CoreStates
    <2>7. v = [r EXCEPT !.core = k]
      BY <2>4, <2>5, <2>6
    <2>8. v \in States /\ v.core = k /\ v.ps = t.ps /\ v.link = r.link /\ v.chan = w.chan
      BY <2>5, <2>7 DEF States
    <2>9. activeProviders(v.ps) = {} => v.core = "Finished"
      BY <2>6, <2>8 DEF coreAfter
    <2>10. Waits(v) /\ Noticed(v)
      BY <2>9 DEF Waits, Noticed
    <2>11. v.ps[p] = state /\ \A q \in Providers \ {p} : v.ps[q] = w.ps[q]
      BY <2>2, <2>8 DEF States
    <2>12. Follows(v, p)
      BY <1>6, <2>5, <2>8, <2>11 DEF Follows
    <2>13. Turned(w, v, p)
      <3>1. v.core \in {w.core, "Finished"}
        BY <2>6, <2>8 DEF coreAfter
      <3>2. QED
        BY <1>5, <2>5, <2>8, <2>10, <2>11, <2>12, <3>1 DEF Turned
    <2>14. state = "Finished" => s \in Ended
      BY <1>6, StateOfSession
    <2>15. QED
      BY <1>3, <2>5, <2>8, <2>10, <2>12, <2>13, <2>14
  <1>11. QED
    BY <1>9, <1>10

LEMMA Drops ==
  ASSUME NEW w \in States, NEW p \in Providers, NEW v, v = dropChannels(w, p)
  PROVE  /\ v \in States /\ v.core = w.core /\ v.ps = w.ps /\ v.link = w.link
         /\ \A c \in Commands \ commands(p) : v.chan[c] = w.chan[c]
         /\ \A c \in commands(p) : ~exists(v, c)
  <1>1. PICK f : f = [c \in Commands |-> IF Owner[c] = p THEN NoChannel ELSE w.chan[c]]
    OBVIOUS
  <1>2. f \in [Commands -> Channels \cup {NoChannel}]
    BY <1>1 DEF States
  <1>3. v = [w EXCEPT !.chan = f]
    BY <1>1 DEF dropChannels, States
  <1>4. v \in States /\ v.core = w.core /\ v.ps = w.ps /\ v.link = w.link /\ v.chan = f
    BY <1>2, <1>3 DEF States
  <1>5. QED
    BY <1>1, <1>4 DEF commands, exists

\* A session that settles in a final state is over.
LEMMA Settles ==
  ASSUME NEW w \in States, NEW p \in Providers, Follows(w, p), NoneLeft(w, p), NEW s \in Ended,
         NEW v, v = settle(w, p, s)
  PROVE  /\ Turned(w, v, p) /\ Follows(v, p) /\ Over(v, p)
         /\ Noticed(w) => Noticed(v)
         /\ w.link[p].session = "NotEstableshed" => Noticed(v)
  <1>1. CASE w.link[p].session = s
    <2>1. v = w
      BY <1>1 DEF settle
    <2>2. s # "NotEstableshed"
      BY DEF Ended
    <2>3. QED
      BY <1>1, <2>1, <2>2 DEF Turned, Over, NoneLeft
  <1>2. CASE w.link[p].session # s
    <2>1. PICK u : u = signalSession(w, p, s)
      OBVIOUS
    <2>2. s \in SessionStates /\ s # "NotEstableshed"
      BY DEF Ended, SessionStates
    <2>3. /\ Turned(w, u, p) /\ Follows(u, p) /\ u.chan = w.chan /\ u.link[p].session = s
          /\ Noticed(w) => Noticed(u)
          /\ w.link[p].session = "NotEstableshed" => Noticed(u)
      BY <2>1, <2>2, Signals
    <2>4. u \in States
      BY <2>3 DEF Turned
    <2>5. v = dropChannels(u, p)
      BY <1>2, <2>1 DEF settle
    <2>6. /\ v \in States /\ v.core = u.core /\ v.ps = u.ps /\ v.link = u.link
          /\ \A c \in Commands \ commands(p) : v.chan[c] = u.chan[c]
          /\ \A c \in commands(p) : ~exists(v, c)
      BY <2>4, <2>5, Drops
    <2>7. Turned(u, v, p)
      BY <2>6 DEF Turned, Follows, Waits
    <2>8. Turned(w, v, p)
      BY <2>3, <2>7, TurnedTwice
    <2>9. Follows(v, p) /\ Over(v, p)
      BY <2>3, <2>6 DEF Follows, Over
    <2>10. Noticed(u) => Noticed(v)
      BY <2>6 DEF Noticed
    <2>11. QED
      BY <2>3, <2>8, <2>9, <2>10
  <1>3. QED
    BY <1>1, <1>2

\* The end of the socket ends the session.
LEMMA SocketEnds ==
  ASSUME NEW w \in States, NEW p \in Providers, Follows(w, p), NoneLeft(w, p),
         NEW v, v = socketEnds(w, p)
  PROVE  /\ Turned(w, v, p) /\ Follows(v, p) /\ Over(v, p)
         /\ Noticed(w) => Noticed(v)
  <1>1. w.link[p] \in Links
    BY DEF States
  <1>2. PICK x \in Links : x = [w.link[p] EXCEPT !.tcp = "Unconnected", !.lost = FALSE]
    BY <1>1 DEF Links, SocketStates
  <1>3. x.session = w.link[p].session
    BY <1>1, <1>2 DEF Links
  <1>4. PICK off : off = [w EXCEPT !.link[p] = x]
    OBVIOUS
  <1>5. /\ Turned(w, off, p) /\ off.core = w.core /\ off.ps = w.ps /\ off.chan = w.chan
        /\ off.link[p] = x
    BY <1>3, <1>4, Moved
  <1>6. off = [w EXCEPT !.link[p].tcp = "Unconnected", !.link[p].lost = FALSE]
    BY <1>2, <1>4 DEF States
  <1>7. off \in States /\ Follows(off, p) /\ NoneLeft(off, p)
    BY <1>3, <1>5 DEF Turned, NoneLeft, exists
  <1>8. "Aborted" \in Ended /\ "FailedToEstablshed" \in Ended
    BY DEF Ended
  <1>9. CASE w.link[p].session = "NotEstableshed"
    <2>1. v = settle(off, p, "Aborted")
      BY <1>3, <1>5, <1>6, <1>9 DEF socketEnds
    <2>2. /\ Turned(off, v, p) /\ Follows(v, p) /\ Over(v, p) /\ Noticed(v)
      BY <1>3, <1>5, <1>7, <1>8, <1>9, <2>1, Settles
    <2>3. QED
      BY <1>5, <2>2, TurnedTwice
  <1>10. CASE w.link[p].session # "NotEstableshed"
    <2>1. PICK f : f = settle(off, p, "FailedToEstablshed")
      OBVIOUS
    <2>2. Turned(off, f, p) /\ Follows(f, p) /\ Over(f, p) /\ (Noticed(off) => Noticed(f))
      BY <1>7, <1>8, <2>1, Settles
    <2>3. f \in States /\ NoneLeft(f, p)
      BY <2>2 DEF Turned, Over, NoneLeft
    <2>4. v = IF f.link[p].session = "Closed" THEN f ELSE settle(f, p, "Aborted")
      BY <1>3, <1>5, <1>6, <1>10, <2>1 DEF socketEnds
    <2>5. Turned(f, v, p) /\ Follows(v, p) /\ Over(v, p) /\ (Noticed(f) => Noticed(v))
      <3>1. CASE v = f
        BY <2>2, <2>3, <3>1 DEF Turned
      <3>2. CASE v = settle(f, p, "Aborted")
        BY <1>8, <2>2, <2>3, <3>2, Settles
      <3>3. QED
        BY <2>4, <3>1, <3>2
    <2>6. Turned(w, v, p)
      BY <1>5, <2>2, <2>5, TurnedTwice
    <2>7. Noticed(w) => Noticed(off)
      <3>1. off.link[p].session = w.link[p].session /\ off.link[p].session # "NotEstableshed"
        BY <1>3, <1>5, <1>10
      <3>2. QED
        BY <1>5, <3>1, MovedNoticed
    <2>8. QED
      BY <2>2, <2>5, <2>6, <2>7
  <1>11. QED
    BY <1>9, <1>10

\* To hang up ends the session, or leaves what there is of it to a socket that closes.
LEMMA HangsUp ==
  ASSUME NEW w \in States, NEW p \in Providers, Follows(w, p), NoneLeft(w, p),
         NEW v, v = hangUp(w, p)
  PROVE  /\ Turned(w, v, p) /\ Follows(v, p)
         /\ Noticed(w) => Noticed(v)
         /\ \/ Over(v, p)
            \/ v = w /\ w.link[p].tcp # "Connected"
            \/ /\ v.chan = w.chan /\ v.link[p].session = w.link[p].session
               /\ v.link[p].tcp = "Closing"
  <1>1. CASE w.link[p].tcp # "Connected"
    <2>1. v = w
      BY <1>1 DEF hangUp
    <2>2. QED
      BY <1>1, <2>1 DEF Turned
  <1>2. CASE w.link[p].tcp = "Connected" /\ w.link[p].lost
    <2>1. v = socketEnds(w, p)
      BY <1>2 DEF hangUp
    <2>2. QED
      BY <2>1, SocketEnds
  <1>3. CASE w.link[p].tcp = "Connected" /\ ~w.link[p].lost
    <2>1. w.link[p] \in Links
      BY DEF States
    <2>2. PICK x \in Links : x = [w.link[p] EXCEPT !.tcp = "Closing"]
      BY <2>1 DEF Links, SocketStates
    <2>3. x.session = w.link[p].session /\ x.tcp = "Closing"
      BY <2>1, <2>2 DEF Links
    <2>4. PICK u : u = [w EXCEPT !.link[p] = x]
      OBVIOUS
    <2>5. v = u
      BY <1>3, <2>2, <2>4 DEF hangUp, States
    <2>6. /\ Turned(w, u, p) /\ u.core = w.core /\ u.ps = w.ps /\ u.chan = w.chan
          /\ u.link[p] = x
      BY <2>3, <2>4, Moved
    <2>7. Follows(v, p)
      BY <2>5, <2>6 DEF Turned
    <2>8. Noticed(w) => Noticed(v)
      <3>1. v.link[p].session = w.link[p].session /\ v.link[p].tcp # "Unconnected"
        BY <2>3, <2>5, <2>6
      <3>2. QED
        BY <2>5, <2>6, <3>1, MovedNoticed
    <2>9. QED
      BY <2>3, <2>5, <2>6, <2>7, <2>8
  <1>4. QED
    BY <1>1, <1>2, <1>3

\* A session that ends is over, also when the socket goes at once.
LEMMA EndsSession ==
  ASSUME NEW w \in States, NEW p \in Providers, Follows(w, p), NoneLeft(w, p), NEW s \in Ended,
         NEW v, v = endSession(w, p, s)
  PROVE  /\ Turned(w, v, p) /\ Follows(v, p) /\ Over(v, p)
         /\ Noticed(w) => Noticed(v)
         /\ w.link[p].session = "NotEstableshed" => Noticed(v)
  <1>1. CASE w.link[p].session = s
    <2>1. v = w
      BY <1>1 DEF endSession
    <2>2. s # "NotEstableshed"
      BY DEF Ended
    <2>3. QED
      BY <1>1, <2>1, <2>2 DEF Turned, Over, NoneLeft
  <1>2. CASE w.link[p].session # s
    <2>1. PICK u : u = settle(w, p, s)
      OBVIOUS
    <2>2. /\ Turned(w, u, p) /\ Follows(u, p) /\ Over(u, p)
          /\ Noticed(w) => Noticed(u)
          /\ w.link[p].session = "NotEstableshed" => Noticed(u)
      BY <2>1, Settles
    <2>3. u \in States /\ NoneLeft(u, p)
      BY <2>2 DEF Turned, Over, NoneLeft
    <2>4. v = hangUp(u, p)
      BY <1>2, <2>1 DEF endSession
    <2>5. /\ Turned(u, v, p) /\ Follows(v, p)
          /\ Noticed(u) => Noticed(v)
          /\ \/ Over(v, p)
             \/ v = u
             \/ v.chan = u.chan /\ v.link[p].session = u.link[p].session
      BY <2>2, <2>3, <2>4, HangsUp
    <2>6. Over(v, p)
      BY <2>2, <2>5 DEF Over, exists
    <2>7. Turned(w, v, p)
      BY <2>2, <2>5, TurnedTwice
    <2>8. QED
      BY <2>2, <2>5, <2>6, <2>7
  <1>3. QED
    BY <1>1, <1>2

-----------------------------------------------------------------------------
(* A provider between two events *)

\* The client x: what its session says of its socket.
LinkOK(x) ==
  /\ x.session \in Up => x.tcp = "Connected"
  /\ x.session = "Closing" => x.tcp \in {"Connected", "Closing"}
  /\ x.session = "NotEstableshed" /\ x.tcp = "Connecting" => x.timers > 0

\* A channel exists within a session over a connection.  It is open only as long
\* as the session is established.
ChannelOK(w, c) ==
  exists(w, c) =>
    /\ session(w, c) \in {"Established", "Closing"} /\ w.link[Owner[c]].tcp = "Connected"
    /\ Shape(w.chan[c], c)
    /\ w.chan[c].open => session(w, c) = "Established"

ProviderOK(w, p) ==
  /\ LinkOK(w.link[p])
  /\ w.link[p].session = "Established" => channels(w, p) # {}
  /\ \A c \in commands(p) : ChannelOK(w, c)

LEMMA OverIsOK ==
  ASSUME NEW w, NEW p, Over(w, p)
  PROVE  ProviderOK(w, p)
  BY DEF Over, ProviderOK, LinkOK, ChannelOK, Ended, Up

LEMMA NoneIsLeft ==
  ASSUME NEW w, NEW p, \A c \in commands(p) : ChannelOK(w, c)
  PROVE  /\ NoneLeft(w, p)
         /\ w.link[p].session \notin {"Established", "Closing"} =>
              \A c \in commands(p) : ~exists(w, c)
  BY DEF NoneLeft, ChannelOK, Ended, session, commands

\* The last channel that is not open any more ends a session that is closing.
LEMMA Reports ==
  ASSUME NEW w \in States, NEW c \in Commands, Follows(w, Owner[c]), NoneLeft(w, Owner[c]),
         NEW v, v = channelReports(w, c)
  PROVE  \/ v = w
         \/ /\ Turned(w, v, Owner[c]) /\ Follows(v, Owner[c]) /\ Over(v, Owner[c])
            /\ Noticed(w) => Noticed(v)
  <1>1. Owner[c] \in Providers /\ "Closed" \in Ended
    BY Ssh2Assumption DEF Ended
  <1>2. CASE v = w
    BY <1>2
  <1>3. CASE v = endSession(w, Owner[c], "Closed")
    BY <1>1, <1>3, EndsSession
  <1>4. QED
    BY <1>2, <1>3 DEF channelReports

\* All channels of an established session are closed: none is open.
LEMMA ClosesChannels ==
  ASSUME NEW w \in States, NEW p \in Providers, Follows(w, p), NEW how \in Hows,
         w.link[p].session = "Established", w.link[p].tcp = "Connected",
         \A c \in commands(p) : ChannelOK(w, c),
         NEW v, v = closeChannels(w, p, how)
  PROVE  /\ Turned(w, v, p) /\ Follows(v, p) /\ ProviderOK(v, p)
         /\ v.link[p].session = "Closing"
         /\ Proceeds(w, v, p)
         /\ Noticed(w) => Noticed(v)
  <1>1. PICK u : u = signalSession(w, p, "Closing")
    OBVIOUS
  <1>2. /\ Turned(w, u, p) /\ Follows(u, p) /\ u.chan = w.chan
        /\ u.link[p].session = "Closing" /\ u.link[p].tcp = "Connected"
        /\ Noticed(w) => Noticed(u)
    BY <1>1, Signals DEF SessionStates
  <1>3. u \in States
    BY <1>2 DEF Turned
  <1>4. PICK C : C = channels(w, p)
    OBVIOUS
  <1>5. C \subseteq Commands /\ C \subseteq commands(p)
    BY <1>4 DEF channels, commands
  <1>6. ASSUME NEW c \in C
        PROVE  /\ close(u, c, how) \in States
               /\ close(u, c, how).chan[c] \in Channels
               /\ Shape(close(u, c, how).chan[c], c)
               /\ ~close(u, c, how).chan[c].open
               /\ close(u, c, how).chan[c].handle => u.chan[c].handle
    <2>1. u.chan[c] \in Channels /\ Shape(u.chan[c], c)
      BY <1>2, <1>4, <1>5, <1>6, ExistingAreChannels DEF channels, ChannelOK
    <2>2. PICK x : x = close(u, c, how)
      OBVIOUS
    <2>3. /\ Touched(u, x, c) /\ Shape(x.chan[c], c) /\ ~x.chan[c].open
          /\ x.chan[c].handle => u.chan[c].handle
      BY <1>3, <1>5, <2>1, <2>2, Closes
    <2>4. QED
      BY <2>2, <2>3 DEF Touched
  <1>7. PICK f : f = [c \in Commands |-> IF c \in C THEN close(u, c, how).chan[c] ELSE u.chan[c]]
    OBVIOUS
  <1>8. PICK g : g = [c \in Commands |-> IF c \in C THEN close(u, c, how).cmd[c] ELSE u.cmd[c]]
    OBVIOUS
  <1>9. v = [u EXCEPT !.chan = f, !.cmd = g]
    BY <1>1, <1>4, <1>7, <1>8 DEF closeChannels, forEach
  <1>10. f \in [Commands -> Channels \cup {NoChannel}]
    BY <1>3, <1>6, <1>7 DEF States
  <1>11. g \in [Commands -> ProcessStates]
    <2>1. \A c \in C : close(u, c, how).cmd[c] \in ProcessStates
      BY <1>5, <1>6 DEF States
    <2>2. \A c \in Commands : u.cmd[c] \in ProcessStates
      BY <1>3 DEF States
    <2>3. QED
      BY <1>8, <2>1, <2>2
  <1>12. /\ v \in States /\ v.core = u.core /\ v.ps = u.ps /\ v.link = u.link /\ v.chan = f
    BY <1>3, <1>9, <1>10, <1>11 DEF States
  <1>13. \A c \in Commands \ commands(p) : v.chan[c] = u.chan[c]
    BY <1>5, <1>7, <1>12
  <1>14. Turned(u, v, p) /\ Follows(v, p) /\ (Noticed(u) => Noticed(v))
    BY <1>2, <1>12, <1>13 DEF Turned, Follows, Waits, Noticed
  <1>15. ProviderOK(v, p)
    <2>1. LinkOK(v.link[p]) /\ v.link[p].session # "Established"
      BY <1>2, <1>12 DEF LinkOK, Up
    <2>2. ASSUME NEW c \in commands(p), exists(v, c)
          PROVE  ChannelOK(v, c)
      <3>1. c \in Commands /\ Owner[c] = p
        BY DEF commands
      <3>2. c \in C
        BY <1>2, <1>4, <1>7, <1>12, <2>2, <3>1 DEF channels, exists
      <3>3. v.chan[c] = close(u, c, how).chan[c]
        BY <1>7, <1>12, <3>1, <3>2
      <3>4. Shape(v.chan[c], c) /\ ~v.chan[c].open
        BY <1>6, <3>2, <3>3
      <3>5. QED
        BY <1>2, <1>12, <3>1, <3>4 DEF ChannelOK, session
    <2>3. \A c \in commands(p) : ChannelOK(v, c)
      BY <2>2 DEF ChannelOK
    <2>4. QED
      BY <2>1, <2>3 DEF ProviderOK
  <1>16. Proceeds(w, v, p)
    <2> SUFFICES ASSUME NEW c \in commands(p), exists(v, c), v.chan[c].handle
                 PROVE  exists(w, c) /\ w.chan[c].handle
      BY <1>2, <1>12 DEF Proceeds
    <2>1. c \in C /\ c \in Commands
      BY <1>2, <1>4, <1>7, <1>12 DEF channels, commands, exists
    <2>2. v.chan[c] = close(u, c, how).chan[c]
      BY <1>7, <1>12, <2>1
    <2>3. w.chan[c].handle
      BY <1>2, <1>6, <2>1, <2>2
    <2>4. QED
      BY <1>4, <2>1, <2>3 DEF channels
  <1>17. QED
    BY <1>2, <1>12, <1>14, <1>15, <1>16, TurnedTwice

\* A provider that is told to disconnect, also one that just lost its last channel.
LEMMA Disconnects ==
  ASSUME NEW w \in States, NEW p \in Providers, Follows(w, p), NEW how \in Hows,
         LinkOK(w.link[p]), \A c \in commands(p) : ChannelOK(w, c),
         NEW v, v = disconnectFromHost(w, p, how)
  PROVE  /\ Turned(w, v, p) /\ Follows(v, p) /\ ProviderOK(v, p)
         /\ Proceeds(w, v, p)
         /\ Noticed(w) => Noticed(v)
  <1>1. NoneLeft(w, p)
    BY NoneIsLeft
  <1>2. CASE w.link[p].tcp = "Unconnected" \/ w.link[p].session \notin {"Established", "Closing"}
    <2>1. v = w
      BY <1>2 DEF disconnectFromHost
    <2>2. w.link[p].session # "Established"
      BY <1>2 DEF LinkOK, Up
    <2>3. Proceeds(w, v, p)
      BY <2>1, StaysIsProceeding
    <2>4. QED
      BY <2>1, <2>2, <2>3 DEF Turned, ProviderOK
  <1>3. CASE w.link[p].tcp # "Unconnected" /\ w.link[p].session = "Established"
    <2>1. w.link[p].tcp = "Connected"
      BY <1>3 DEF LinkOK, Up
    <2>2. CASE openChannels(w, p) # {}
      <3>1. v = closeChannels(w, p, how)
        BY <1>3, <2>2 DEF disconnectFromHost
      <3>2. QED
        BY <1>3, <2>1, <3>1, ClosesChannels
    <2>3. CASE openChannels(w, p) = {}
      <3>1. v = endSession(w, p, "Closed")
        BY <1>3, <2>3 DEF disconnectFromHost
      <3>2. Turned(w, v, p) /\ Follows(v, p) /\ Over(v, p) /\ (Noticed(w) => Noticed(v))
        BY <1>1, <3>1, EndsSession DEF Ended
      <3>3. QED
        BY <3>2, OverIsOK, OverIsProceeding
    <2>4. QED
      BY <2>2, <2>3
  <1>4. CASE w.link[p].tcp # "Unconnected" /\ w.link[p].session = "Closing"
    <2>1. PICK u : u = dropChannels(w, p)
      OBVIOUS
    <2>2. /\ u \in States /\ u.core = w.core /\ u.ps = w.ps /\ u.link = w.link
          /\ \A c \in Commands \ commands(p) : u.chan[c] = w.chan[c]
          /\ \A c \in commands(p) : ~exists(u, c)
      BY <2>1, Drops
    <2>3. Turned(w, u, p) /\ Follows(u, p) /\ NoneLeft(u, p) /\ (Noticed(w) => Noticed(u))
      BY <2>2 DEF Turned, Follows, NoneLeft, Waits, Noticed
    <2>4. v = hangUp(u, p)
      BY <1>4, <2>1 DEF disconnectFromHost
    <2>5. /\ Turned(u, v, p) /\ Follows(v, p)
          /\ Noticed(u) => Noticed(v)
          /\ \/ Over(v, p)
             \/ v = u
             \/ /\ v.chan = u.chan /\ v.link[p].session = u.link[p].session
                /\ v.link[p].tcp = "Closing"
      BY <2>2, <2>3, <2>4, HangsUp
    <2>6. ProviderOK(v, p) /\ Proceeds(u, v, p)
      <3>1. CASE Over(v, p)
        BY <3>1, OverIsOK, OverIsProceeding
      <3>2. CASE /\ v.chan = u.chan /\ v.link[p].session = "Closing"
                 /\ v.link[p].tcp \in {"Connected", "Closing"}
        <4>1. ProviderOK(v, p)
          BY <2>2, <3>2 DEF ProviderOK, LinkOK, ChannelOK, exists, Up
        <4>2. Proceeds(u, v, p)
          BY <1>4, <2>2, <3>2, StaysIsProceeding
        <4>3. QED
          BY <4>1, <4>2
      <3>3. v = u => v.link[p].session = "Closing" /\ v.link[p].tcp \in {"Connected", "Closing"}
        BY <1>4, <2>2 DEF LinkOK
      <3>4. QED
        BY <1>4, <2>2, <2>5, <3>1, <3>2, <3>3
    <2>7. Proceeds(w, v, p)
      BY <2>2, <2>6, ProceedsFrom
    <2>8. QED
      BY <2>3, <2>5, <2>6, <2>7, TurnedTwice
  <1>5. QED
    BY <1>2, <1>3, <1>4

\* A command whose channel is new: it waits for the peer, or could not be opened.
LEMMA StartsCommand ==
  ASSUME NEW w \in States, NEW c \in Commands, ~exists(w, c), session(w, c) = "Established",
         NEW how \in Hows, NEW v, v = startCommand(w, c, how)
  PROVE  v \in States /\ v.chan[c] \in Channels /\ Shape(v.chan[c], c)
  <1>1. NewChannel \in Channels
    BY DEF NewChannel, Channels, ChannelStates, ProcessStates
  <1>2. /\ ~NewChannel.open /\ ~NewChannel.handle /\ NewChannel.at # "Opening"
        /\ NewChannel.process = "NotStarted"
    BY DEF NewChannel
  <1>3. PICK f : f = [w.chan EXCEPT ![c] = NewChannel]
    OBVIOUS
  <1>4. f \in [Commands -> Channels \cup {NoChannel}] /\ f[c] = NewChannel
    BY <1>1, <1>3 DEF States
  <1>5. PICK u : u = [w EXCEPT !.chan = f]
    OBVIOUS
  <1>6. u \in States /\ u.link = w.link /\ u.chan[c] = NewChannel
    BY <1>4, <1>5 DEF States
  <1>7. v = open(u, c, how)
    BY <1>3, <1>5 DEF startCommand, States
  <1>8. u.chan[c] \in Channels /\ session(u, c) = "Established"
    BY <1>1, <1>6 DEF session
  <1>9. /\ Touched(u, v, c)
        /\ \/ v = u
           \/ \/ /\ v.chan[c].at = "FailedToOpen" /\ v.chan[c].process = "FailedToStart"
                 /\ u.chan[c].process # "FailedToStart" => v.chan[c].doomed
              \/ /\ v.chan[c].at = "Opening" /\ v.chan[c].process = u.chan[c].process
                 /\ v.chan[c].open /\ ~v.chan[c].handle
        /\ (~u.chan[c].open /\ ~u.chan[c].handle /\ session(u, c) = "Established"
              /\ u.chan[c].at # "Opening") => v.chan[c].at \in {"FailedToOpen", "Opening"}
    BY <1>6, <1>7, <1>8, Opens
  <1>10. v # u
    BY <1>2, <1>6, <1>8, <1>9 DEF NewChannel
  <1>11. Shape(v.chan[c], c)
    BY <1>2, <1>6, <1>9, <1>10 DEF Shape, Lives
  <1>12. QED
    BY <1>9, <1>11 DEF Touched

\* A session that comes up has a channel for every command.
LEMMA StartsCommands ==
  ASSUME NEW w \in States, NEW p \in Providers, Follows(w, p), NEW how \in Hows,
         w.link[p].session = "Established", w.link[p].tcp = "Connected",
         \A c \in commands(p) : ~exists(w, c),
         NEW v, v = startCommands(w, p, how)
  PROVE  /\ Turned(w, v, p) /\ Follows(v, p) /\ ProviderOK(v, p)
         /\ v.link = w.link
         /\ Noticed(w) => Noticed(v)
  <1>1. PICK C : C = commands(p)
    OBVIOUS
  <1>2. C \subseteq Commands
    BY <1>1 DEF commands
  <1>3. ASSUME NEW c \in C
        PROVE  /\ startCommand(w, c, how) \in States
               /\ startCommand(w, c, how).chan[c] \in Channels
               /\ Shape(startCommand(w, c, how).chan[c], c)
    <2>1. session(w, c) = "Established" /\ ~exists(w, c)
      BY <1>1 DEF commands, session
    <2>2. QED
      BY <1>2, <2>1, StartsCommand
  <1>4. PICK f : f = [c \in Commands |-> IF c \in C THEN startCommand(w, c, how).chan[c] ELSE w.chan[c]]
    OBVIOUS
  <1>5. PICK g : g = [c \in Commands |-> IF c \in C THEN startCommand(w, c, how).cmd[c] ELSE w.cmd[c]]
    OBVIOUS
  <1>6. v = [w EXCEPT !.chan = f, !.cmd = g]
    BY <1>1, <1>4, <1>5 DEF startCommands, forEach
  <1>7. f \in [Commands -> Channels \cup {NoChannel}]
    BY <1>3, <1>4 DEF States
  <1>8. g \in [Commands -> ProcessStates]
    <2>1. \A c \in C : startCommand(w, c, how).cmd[c] \in ProcessStates
      BY <1>2, <1>3 DEF States
    <2>2. \A c \in Commands : w.cmd[c] \in ProcessStates
      BY DEF States
    <2>3. QED
      BY <1>5, <2>1, <2>2
  <1>9. /\ v \in States /\ v.core = w.core /\ v.ps = w.ps /\ v.link = w.link /\ v.chan = f
    BY <1>6, <1>7, <1>8 DEF States
  <1>10. \A c \in Commands \ commands(p) : v.chan[c] = w.chan[c]
    BY <1>1, <1>4, <1>9
  <1>11. Turned(w, v, p) /\ Follows(v, p) /\ (Noticed(w) => Noticed(v))
    BY <1>9, <1>10 DEF Turned, Follows, Waits, Noticed
  <1>12. ASSUME NEW c \in commands(p)
         PROVE  exists(v, c) /\ ChannelOK(v, c)
    <2>1. c \in C /\ c \in Commands /\ Owner[c] = p
      BY <1>1 DEF commands
    <2>2. v.chan[c] = startCommand(w, c, how).chan[c]
      BY <1>4, <1>9, <2>1
    <2>3. v.chan[c] \in Channels /\ Shape(v.chan[c], c)
      BY <1>3, <2>1, <2>2
    <2>4. QED
      BY <1>9, <2>1, <2>3, ChannelsExist DEF exists, ChannelOK, session
  <1>13. channels(v, p) # {}
    <2>1. PICK c \in Commands : Owner[c] = p
      BY Ssh2Assumption
    <2>2. QED
      BY <1>12, <2>1 DEF channels, commands
  <1>14. ProviderOK(v, p)
    BY <1>9, <1>12, <1>13 DEF ProviderOK, LinkOK
  <1>15. QED
    BY <1>9, <1>11, <1>14

\* Where the handshake can lead to.
LEMMA HandshakeStates ==
  ASSUME NEW p, NEW x \in SessionStates
  PROVE  /\ startSshSession(p, x) \subseteq Up \cup {"FailedToEstablshed", x}
         /\ handshake(p, x) \subseteq Up \cup {"FailedToEstablshed", x}
         /\ x \in {"Established", "Closing"} => handshake(p, x) = {x}
  <1>1. \A m : authenticate(m) \subseteq Up \cup {"FailedToEstablshed"}
    BY DEF authenticate, Up
  <1>2. getAvailableAuthMethods(p, x) \subseteq Up \cup {"FailedToEstablshed", x}
    BY <1>1 DEF getAvailableAuthMethods, Up
  <1>3. startSshSession(p, x) \subseteq Up \cup {"FailedToEstablshed", x}
    BY <1>2 DEF startSshSession, Up
  <1>4. handshake(p, x) \subseteq Up \cup {"FailedToEstablshed", x}
    BY <1>1, <1>2, <1>3 DEF handshake, SessionStates
  <1>5. x \in {"Established", "Closing"} => handshake(p, x) = {x}
    BY DEF handshake
  <1>6. QED
    BY <1>3, <1>4, <1>5

LEMMA Entered ==
  ASSUME NEW w \in States, NEW p \in Providers, Follows(w, p), NEW how \in Hows,
         w.link[p].session \in Up, w.link[p].tcp = "Connected",
         \A c \in commands(p) : ~exists(w, c),
         NEW v, v = IF w.link[p].session = "Established" THEN startCommands(w, p, how) ELSE w
  PROVE  /\ Turned(w, v, p) /\ Follows(v, p) /\ ProviderOK(v, p)
         /\ v.link = w.link
         /\ Noticed(w) => Noticed(v)
  <1>1. CASE w.link[p].session = "Established"
    BY <1>1, StartsCommands
  <1>2. CASE w.link[p].session # "Established"
    BY <1>2 DEF Turned, ProviderOK, LinkOK, ChannelOK, Up
  <1>3. QED
    BY <1>1, <1>2

\* A step of the handshake, over a connection.
LEMMA Advances ==
  ASSUME NEW w \in States, NEW p \in Providers, Follows(w, p), NEW how \in Hows,
         w.link[p].tcp = "Connected",
         w.link[p].session = "Established" => channels(w, p) # {},
         \A c \in commands(p) : ChannelOK(w, c),
         NEW s \in Up \cup {"FailedToEstablshed", w.link[p].session},
         w.link[p].session \in {"Established", "Closing"} => s = w.link[p].session,
         NEW v, v = advance(w, p, s, how)
  PROVE  /\ Turned(w, v, p) /\ Follows(v, p) /\ ProviderOK(v, p)
         /\ Proceeds(w, v, p)
         /\ Noticed(w) => Noticed(v)
  <1>1. NoneLeft(w, p)
    BY NoneIsLeft
  <1>2. CASE s = "FailedToEstablshed"
    <2>1. v = endSession(w, p, s) /\ s \in Ended
      BY <1>2 DEF advance, Ended
    <2>2. Turned(w, v, p) /\ Follows(v, p) /\ Over(v, p) /\ (Noticed(w) => Noticed(v))
      BY <1>1, <2>1, EndsSession
    <2>3. QED
      BY <2>2, OverIsOK, OverIsProceeding
  <1>3. CASE s # "FailedToEstablshed" /\ s = w.link[p].session
    <2>1. v = w
      BY <1>3 DEF advance, enterSession
    <2>2. LinkOK(w.link[p])
      BY DEF LinkOK
    <2>3. Proceeds(w, v, p)
      BY <2>1, StaysIsProceeding
    <2>4. QED
      BY <2>1, <2>2, <2>3 DEF Turned, ProviderOK
  <1>4. CASE s # "FailedToEstablshed" /\ s # w.link[p].session
    <2>1. s \in Up /\ s \in SessionStates /\ s \notin Ended
      BY <1>4 DEF Up, SessionStates, Ended
    <2>2. w.link[p].session \notin {"Established", "Closing"}
      BY <1>4
    <2>3. \A c \in commands(p) : ~exists(w, c)
      BY <2>2, NoneIsLeft
    <2>4. PICK u : u = signalSession(w, p, s)
      OBVIOUS
    <2>5. /\ Turned(w, u, p) /\ Follows(u, p) /\ u.chan = w.chan
          /\ u.link[p].session = s /\ u.link[p].tcp = "Connected"
          /\ Noticed(w) => Noticed(u)
      BY <2>1, <2>4, Signals
    <2>6. u \in States /\ \A c \in commands(p) : ~exists(u, c)
      BY <2>3, <2>5 DEF Turned, exists
    <2>7. v = IF s = "Established" THEN startCommands(u, p, how) ELSE u
      BY <1>4, <2>4 DEF advance, enterSession
    <2>8. /\ Turned(u, v, p) /\ Follows(v, p) /\ ProviderOK(v, p)
          /\ v.link = u.link
          /\ Noticed(u) => Noticed(v)
      BY <2>1, <2>5, <2>6, <2>7, Entered
    <2>9. Proceeds(w, v, p)
      BY <2>1, <2>2, <2>5, <2>8 DEF Proceeds, Up
    <2>10. QED
      BY <2>5, <2>8, <2>9, TurnedTwice
  <1>5. QED
    BY <1>2, <1>3, <1>4

-----------------------------------------------------------------------------
(* The invariant *)

\* A state between two events.
Good(w) ==
  /\ w \in States
  /\ Waits(w)
  /\ \A p \in Providers : Follows(w, p) /\ ProviderOK(w, p)

\* The inductive invariant: before the first start nothing is connected.
RemoteInv ==
  /\ Good(now)
  /\ prepared \subseteq Providers
  /\ coreState \in {"Started", "Finishing"} => prepared # {}
  /\ starts \in 0..MaxStarts
  /\ starts = 0 => coreState \notin {"Started", "Finishing"} /\ \A p \in Providers : link[p] = NewLink
  /\ starts = 1 => Noticed(now)

\* Every session goes on as promised in the step.
Proceed == \A p \in Providers : Proceeds(now, now', p)

\* What happens to one provider leaves the others as they were.
LEMMA TurnIsGood ==
  ASSUME NEW w, Good(w), NEW p \in Providers, NEW v,
         Turned(w, v, p), Follows(v, p), ProviderOK(v, p)
  PROVE  Good(v)
  <1>1. v \in States /\ Waits(v)
    BY DEF Good, Turned
  <1>2. ASSUME NEW q \in Providers \ {p}
        PROVE  Follows(v, q) /\ ProviderOK(v, q)
    <2>1. Follows(w, q) /\ ProviderOK(w, q) /\ v.link[q] = w.link[q] /\ v.ps[q] = w.ps[q]
      BY DEF Good, Turned
    <2>2. \A c \in commands(q) : c \in Commands /\ Owner[c] = q /\ v.chan[c] = w.chan[c]
      BY DEF commands, Turned
    <2>3. channels(v, q) = channels(w, q)
      BY <2>2 DEF channels, exists
    <2>4. \A c \in commands(q) : ChannelOK(v, c)
      BY <2>1, <2>2 DEF ProviderOK, ChannelOK, exists, session
    <2>5. QED
      BY <2>1, <2>3, <2>4 DEF Follows, ProviderOK
  <1>3. QED
    BY <1>1, <1>2 DEF Good

\* A step that leaves a good state.
LEMMA BecomesGood ==
  ASSUME NEW w, Good(w), Becomes(w)
  PROVE  /\ now' = w
         /\ Good(now)'
         /\ Noticed(w) => Noticed(now)'
  <1>1. /\ coreState' = w.core /\ pstate' = w.ps /\ link' = w.link /\ chan' = w.chan
        /\ cmdState' = w.cmd /\ prepared' = prepared
    BY DEF Becomes
  <1>2. w = [core |-> w.core, ps |-> w.ps, link |-> w.link, chan |-> w.chan, cmd |-> w.cmd]
    BY DEF Good, States
  <1>3. now' = w
    BY <1>1, <1>2 DEF now
  <1>4. Good(now)'
    BY <1>1, <1>3 DEF Good, Waits, activeProviders
  <1>5. Noticed(w) => Noticed(now)'
    BY <1>1, <1>3 DEF Noticed, activeProviders
  <1>6. QED
    BY <1>3, <1>4, <1>5

LEMMA InvFacts ==
  ASSUME RemoteInv
  PROVE  /\ now \in States
         /\ now.core = coreState /\ now.ps = pstate /\ now.link = link /\ now.chan = chan
         /\ \A p \in Providers :
              /\ Follows(now, p) /\ ProviderOK(now, p)
              /\ link[p] \in Links /\ LinkOK(link[p])
              /\ \A c \in commands(p) : ChannelOK(now, c)
  <1>1. now.core = coreState /\ now.ps = pstate /\ now.link = link /\ now.chan = chan
    BY DEF now
  <1>2. now \in States /\ \A p \in Providers : now.link[p] \in Links
    BY DEF RemoteInv, Good, States
  <1>3. \A p \in Providers : Follows(now, p) /\ ProviderOK(now, p)
    BY DEF RemoteInv, Good
  <1>4. \A p \in Providers : LinkOK(now.link[p]) /\ \A c \in commands(p) : ChannelOK(now, c)
    BY <1>3 DEF ProviderOK
  <1>5. QED
    BY <1>1, <1>2, <1>3, <1>4

\* An event of one provider, once the session was started.
LEMMA ProviderStep ==
  ASSUME RemoteInv, NEW p \in Providers, NEW w, Becomes(w), starts' = starts,
         Turned(now, w, p), Follows(w, p), ProviderOK(w, p),
         Noticed(now) => Noticed(w),
         Proceeds(now, w, p),
         link[p] # NewLink
  PROVE  RemoteInv' /\ Proceed
  <1>1. Good(w)
    BY TurnIsGood DEF RemoteInv
  <1>2. now' = w /\ Good(now)' /\ (Noticed(w) => Noticed(now)')
    BY <1>1, BecomesGood
  <1>3. prepared' = prepared /\ coreState' = w.core /\ link' = w.link
    BY DEF Becomes
  <1>4. coreState' \in {coreState, "Finished"}
    BY <1>3, InvFacts DEF Turned
  <1>5. starts # 0
    BY DEF RemoteInv
  <1>6. RemoteInv'
    BY <1>2, <1>3, <1>4, <1>5 DEF RemoteInv
  <1>7. ASSUME NEW q \in Providers \ {p}
        PROVE  Proceeds(now, w, q)
    <2>1. w.link[q] = now.link[q]
      BY DEF Turned
    <2>2. \A c \in commands(q) : w.chan[c] = now.chan[c]
      BY DEF Turned, commands
    <2>3. QED
      BY <2>1, <2>2, StaysIsProceeding
  <1>8. Proceed
    BY <1>2, <1>7 DEF Proceed
  <1>9. QED
    BY <1>6, <1>8

LEMMA AnswersAreHows ==
  /\ Silence \in Hows
  /\ \A x : Answers(x) \subseteq Hows
  /\ \A p : OpenAnswers(p) \subseteq Hows
  /\ \A C : CloseAnswers(C) \subseteq Hows
  <1>1. Silence \in Hows
    BY DEF Silence, Hows, Same
  <1>2. ASSUME NEW x
        PROVE  Answers(x) \subseteq Hows
    <2>1. [Silence EXCEPT !.open = Same("fail")] \in Hows
      BY <1>1 DEF Hows, Same
    <2>2. \A d \in {"done", "again"}, r \in {"data", "eof", "closed"} :
             [Silence EXCEPT !.close = Same(d), !.read = Same(r)] \in Hows
      BY <1>1 DEF Hows, Same
    <2>3. \A e \in {"ok", "fail", "again"}, d \in {"done", "again"} :
             [open |-> Same("ok"), exec |-> Same(e), close |-> Same(d), read |-> Same("data")] \in Hows
      BY DEF Hows, Same
    <2>4. QED
      BY <2>1, <2>2, <2>3 DEF Answers
  <1>3. ASSUME NEW p
        PROVE  OpenAnswers(p) \subseteq Hows
    <2>1. \A F : [Silence EXCEPT !.open = [c \in Commands |-> IF c \in F THEN "fail" ELSE "again"]] \in Hows
      BY <1>1 DEF Hows
    <2>2. QED
      BY <2>1 DEF OpenAnswers
  <1>4. ASSUME NEW C
        PROVE  CloseAnswers(C) \subseteq Hows
    <2>1. \A D : [Silence EXCEPT !.close = [c \in Commands |-> IF c \in D THEN "done" ELSE "again"]] \in Hows
      BY <1>1 DEF Hows
    <2>2. QED
      BY <2>1 DEF CloseAnswers
  <1>5. QED
    BY <1>1, <1>2, <1>3, <1>4

-----------------------------------------------------------------------------
(* The steps of a provider *)

\* A connection attempt or a check is ahead, or something exists.
LEMMA NewLinkIsIdle ==
  NewLink.tcp = "Unconnected" /\ NewLink.timers = 0 /\ NewLink.session = "NotEstableshed"
  BY DEF NewLink

LEMMA TcpConnectedStep ==
  ASSUME RemoteInv, NEW p \in Providers, TcpConnected(p)
  PROVE  RemoteInv' /\ Proceed
  <1>1. PICK s \in {"FailedToEstablshed"} \cup startSshSession(p, link[p].session) :
          \E how \in IF s = "Established" THEN OpenAnswers(p) ELSE {Silence} :
             Becomes(advance([now EXCEPT !.link[p].tcp = "Connected"], p, s, how))
    BY DEF TcpConnected
  <1>2. PICK how \in Hows : Becomes(advance([now EXCEPT !.link[p].tcp = "Connected"], p, s, how))
    BY <1>1, AnswersAreHows
  <1>3. link[p].tcp = "Connecting" /\ starts' = starts
    BY DEF TcpConnected
  <1>4. link[p] \in Links /\ LinkOK(link[p]) /\ now \in States /\ now.link = link
    BY InvFacts
  <1>5. PICK x \in Links : x = [link[p] EXCEPT !.tcp = "Connected"]
    BY <1>4 DEF Links, SocketStates
  <1>6. x.session = link[p].session /\ x.tcp = "Connected"
    BY <1>4, <1>5 DEF Links
  <1>7. PICK u : u = [now EXCEPT !.link[p] = x]
    OBVIOUS
  <1>8. /\ Turned(now, u, p) /\ u.core = now.core /\ u.ps = now.ps /\ u.chan = now.chan
        /\ u.link[p] = x
    BY <1>4, <1>6, <1>7, Moved
  <1>9. u = [now EXCEPT !.link[p].tcp = "Connected"]
    BY <1>4, <1>5, <1>7 DEF States
  <1>10. Noticed(now) => Noticed(u)
    <2>1. u.link[p].session = now.link[p].session /\ u.link[p].tcp # "Unconnected"
      BY <1>4, <1>6, <1>8
    <2>2. QED
      BY <1>4, <1>8, <2>1, MovedNoticed
  <1>11. PICK w : w = advance(u, p, s, how)
    OBVIOUS
  <1>12. Becomes(w)
    BY <1>2, <1>9, <1>11
  <1>13. link[p].session \notin {"Established", "Closing"}
    BY <1>3, <1>4 DEF LinkOK, Up
  <1>14. \A c \in commands(p) : ~exists(u, c)
    BY <1>4, <1>8, <1>13, InvFacts, NoneIsLeft DEF exists
  <1>15. s \in Up \cup {"FailedToEstablshed", u.link[p].session}
    BY <1>4, <1>6, <1>8, HandshakeStates DEF Links
  <1>16. /\ Turned(u, w, p) /\ Follows(w, p) /\ ProviderOK(w, p)
         /\ Proceeds(u, w, p)
         /\ Noticed(u) => Noticed(w)
    <2>1. u \in States /\ Follows(u, p)
      BY <1>8, InvFacts DEF Turned
    <2>2. \A c \in commands(p) : ChannelOK(u, c)
      BY <1>14 DEF ChannelOK
    <2>3. u.link[p].tcp = "Connected" /\ u.link[p].session \notin {"Established", "Closing"}
      BY <1>6, <1>8, <1>13
    <2>4. QED
      BY <1>11, <1>15, <2>1, <2>2, <2>3, Advances
  <1>17. Turned(now, w, p) /\ Proceeds(now, w, p)
    <2>1. u.link[p].session = now.link[p].session
      BY <1>4, <1>6, <1>8
    <2>2. QED
      BY <1>8, <1>16, <2>1, TurnedTwice, ProceedsFrom
  <1>18. link[p] # NewLink
    BY <1>3, NewLinkIsIdle
  <1>19. QED
    BY <1>3, <1>10, <1>12, <1>16, <1>17, <1>18, ProviderStep

LEMMA TcpRefusedStep ==
  ASSUME RemoteInv, NEW p \in Providers, TcpRefused(p)
  PROVE  RemoteInv' /\ Proceed
  <1>1. link[p].tcp = "Connecting" /\ starts' = starts
    BY DEF TcpRefused
  <1>2. link[p] \in Links /\ LinkOK(link[p]) /\ now \in States /\ now.link = link
    BY InvFacts
  <1>3. PICK x \in Links : x = [link[p] EXCEPT !.tcp = "Unconnected"]
    BY <1>2 DEF Links, SocketStates
  <1>4. x.session = link[p].session /\ x.tcp = "Unconnected" /\ x.timers = link[p].timers
    BY <1>2, <1>3 DEF Links
  <1>5. PICK off : off = [now EXCEPT !.link[p] = x]
    OBVIOUS
  <1>6. /\ Turned(now, off, p) /\ off.core = now.core /\ off.ps = now.ps /\ off.chan = now.chan
        /\ off.link[p] = x
    BY <1>2, <1>4, <1>5, Moved
  <1>7. off = [now EXCEPT !.link[p].tcp = "Unconnected"]
    BY <1>2, <1>3, <1>5 DEF States
  <1>8. link[p].session \notin {"Established", "Closing"}
    BY <1>1, <1>2 DEF LinkOK, Up
  <1>9. off \in States /\ Follows(off, p) /\ \A c \in commands(p) : ~exists(off, c)
    <2>1. \A c \in commands(p) : ~exists(now, c)
      BY <1>2, <1>8, InvFacts, NoneIsLeft
    <2>2. QED
      BY <1>6, <2>1, InvFacts DEF Turned, exists
  <1>10. Noticed(now) => Noticed(off)
    <2>1. link[p].session = "NotEstableshed" => link[p].timers > 0
      BY <1>1, <1>2 DEF LinkOK
    <2>2. /\ off.link[p].session = now.link[p].session
          /\ off.link[p].session # "NotEstableshed" \/ off.link[p].timers > 0
      BY <1>2, <1>4, <1>6, <2>1
    <2>3. QED
      BY <1>2, <1>6, <2>2, MovedNoticed
  <1>11. link[p] # NewLink
    BY <1>1, NewLinkIsIdle
  <1>12. CASE link[p].session = "NotEstableshed"
    <2>1. Becomes(off)
      BY <1>7, <1>12 DEF TcpRefused
    <2>2. ProviderOK(off, p)
      BY <1>4, <1>6, <1>9, <1>12 DEF ProviderOK, LinkOK, ChannelOK, Up
    <2>3. Proceeds(now, off, p)
      BY <1>2, <1>4, <1>6, StaysIsProceeding
    <2>4. QED
      BY <1>1, <1>6, <1>9, <1>10, <1>11, <2>1, <2>2, <2>3, ProviderStep
  <1>13. CASE link[p].session # "NotEstableshed"
    <2>1. PICK w : w = settle(off, p, "FailedToEstablshed")
      OBVIOUS
    <2>2. Becomes(w)
      BY <1>7, <1>13, <2>1 DEF TcpRefused
    <2>3. NoneLeft(off, p) /\ "FailedToEstablshed" \in Ended
      BY <1>9 DEF NoneLeft, Ended
    <2>4. Turned(off, w, p) /\ Follows(w, p) /\ Over(w, p) /\ (Noticed(off) => Noticed(w))
      BY <1>9, <2>1, <2>3, Settles
    <2>5. ProviderOK(w, p) /\ Turned(now, w, p) /\ Proceeds(now, w, p)
      BY <1>6, <2>4, OverIsOK, OverIsProceeding, TurnedTwice
    <2>6. QED
      BY <1>1, <1>10, <1>11, <2>2, <2>4, <2>5, ProviderStep
  <1>14. QED
    BY <1>12, <1>13

LEMMA SocketClosesStep ==
  ASSUME RemoteInv, NEW p \in Providers, SocketCloses(p)
  PROVE  RemoteInv' /\ Proceed
  <1>1. link[p].tcp = "Closing" /\ starts' = starts
    BY DEF SocketCloses
  <1>2. PICK w : w = socketEnds(now, p)
    OBVIOUS
  <1>3. Becomes(w)
    BY <1>2 DEF SocketCloses
  <1>4. now \in States /\ Follows(now, p) /\ NoneLeft(now, p)
    BY InvFacts, NoneIsLeft
  <1>5. Turned(now, w, p) /\ Follows(w, p) /\ Over(w, p) /\ (Noticed(now) => Noticed(w))
    BY <1>2, <1>4, SocketEnds
  <1>6. ProviderOK(w, p) /\ Proceeds(now, w, p)
    BY <1>5, OverIsOK, OverIsProceeding
  <1>7. link[p] # NewLink
    BY <1>1, NewLinkIsIdle
  <1>8. QED
    BY <1>1, <1>3, <1>5, <1>6, <1>7, ProviderStep

LEMMA PeerGoesStep ==
  ASSUME RemoteInv, NEW p \in Providers, PeerGoes(p)
  PROVE  RemoteInv' /\ Proceed
  <1>1. link[p].tcp = "Connected" /\ starts' = starts
    BY DEF PeerGoes
  <1>2. link[p] \in Links /\ LinkOK(link[p]) /\ now \in States /\ now.link = link
        /\ Follows(now, p) /\ NoneLeft(now, p) /\ now.chan = chan
    BY InvFacts, NoneIsLeft
  <1>3. link[p] # NewLink
    BY <1>1, NewLinkIsIdle
  <1>4. CASE Becomes(socketEnds(now, p))
    <2>1. PICK w : w = socketEnds(now, p)
      OBVIOUS
    <2>2. Turned(now, w, p) /\ Follows(w, p) /\ Over(w, p) /\ (Noticed(now) => Noticed(w))
      BY <1>2, <2>1, SocketEnds
    <2>3. ProviderOK(w, p) /\ Proceeds(now, w, p)
      BY <2>2, OverIsOK, OverIsProceeding
    <2>4. QED
      BY <1>1, <1>3, <1>4, <2>1, <2>2, <2>3, ProviderStep
  <1>5. ASSUME NEW how \in CloseAnswers(commands(p)),
               Becomes(disconnectFromHost([now EXCEPT !.link[p].lost = TRUE], p, how))
        PROVE  RemoteInv' /\ Proceed
    <2>1. PICK x \in Links : x = [link[p] EXCEPT !.lost = TRUE]
      BY <1>2 DEF Links
    <2>2. x.session = link[p].session /\ x.tcp = "Connected" /\ x.timers = link[p].timers
      BY <1>1, <1>2, <2>1 DEF Links
    <2>3. PICK u : u = [now EXCEPT !.link[p] = x]
      OBVIOUS
    <2>4. /\ Turned(now, u, p) /\ u.core = now.core /\ u.ps = now.ps /\ u.chan = now.chan
          /\ u.link[p] = x
      BY <1>2, <2>2, <2>3, Moved
    <2>5. u = [now EXCEPT !.link[p].lost = TRUE]
      BY <1>2, <2>1, <2>3 DEF States
    <2>6. Noticed(now) => Noticed(u)
      <3>1. u.link[p].session = now.link[p].session /\ u.link[p].tcp # "Unconnected"
        BY <1>2, <2>2, <2>4
      <3>2. QED
        BY <1>2, <2>4, <3>1, MovedNoticed
    <2>7. u \in States /\ Follows(u, p) /\ LinkOK(u.link[p])
      BY <1>1, <1>2, <2>2, <2>4 DEF Turned, LinkOK
    <2>8. \A c \in commands(p) : ChannelOK(u, c)
      <3>1. \A c \in commands(p) : ChannelOK(now, c)
        BY InvFacts
      <3>2. ASSUME NEW c \in commands(p)
            PROVE  ChannelOK(u, c)
        <4>1. Owner[c] = p
          BY DEF commands
        <4>2. QED
          BY <1>2, <2>2, <2>4, <3>1, <4>1 DEF ChannelOK, exists, session
      <3>3. QED
        BY <3>2
    <2>9. PICK w : w = disconnectFromHost(u, p, how)
      OBVIOUS
    <2>10. how \in Hows /\ Becomes(w)
      BY <1>5, <2>5, <2>9, AnswersAreHows
    <2>11. /\ Turned(u, w, p) /\ Follows(w, p) /\ ProviderOK(w, p)
           /\ Proceeds(u, w, p)
           /\ Noticed(u) => Noticed(w)
      BY <2>7, <2>8, <2>9, <2>10, Disconnects
    <2>12. Turned(now, w, p) /\ Proceeds(now, w, p)
      <3>1. u.link[p].session = now.link[p].session
        BY <1>2, <2>2, <2>4
      <3>2. QED
        BY <2>4, <2>11, <3>1, TurnedTwice, ProceedsFrom
    <2>13. QED
      BY <1>1, <1>3, <2>6, <2>10, <2>11, <2>12, ProviderStep
  <1>6. QED
    BY <1>4, <1>5 DEF PeerGoes

LEMMA CheckConnectionStep ==
  ASSUME RemoteInv, NEW p \in Providers, CheckConnection(p)
  PROVE  RemoteInv' /\ Proceed
  <1>1. link[p].timers > 0 /\ starts' = starts
    BY DEF CheckConnection
  <1>2. link[p] \in Links /\ LinkOK(link[p]) /\ now \in States /\ now.link = link
        /\ Follows(now, p) /\ NoneLeft(now, p) /\ now.chan = chan
    BY InvFacts, NoneIsLeft
  <1>3. PICK n \in Nat : n = link[p].timers - 1
    BY <1>1, <1>2 DEF Links
  <1>4. PICK x : x = [link[p] EXCEPT !.timers = n]
    OBVIOUS
  <1>5. x \in Links /\ x.session = link[p].session /\ x.tcp = link[p].tcp
    BY <1>2, <1>4 DEF Links
  <1>6. PICK u : u = [now EXCEPT !.link[p] = x]
    OBVIOUS
  <1>7. /\ Turned(now, u, p) /\ u.core = now.core /\ u.ps = now.ps /\ u.chan = now.chan
        /\ u.link[p] = x
    BY <1>2, <1>5, <1>6, Moved
  <1>8. u = [now EXCEPT !.link[p].timers = @ - 1]
    BY <1>2, <1>3, <1>4, <1>6 DEF States
  <1>9. u \in States /\ Follows(u, p) /\ NoneLeft(u, p)
    BY <1>2, <1>5, <1>7 DEF Turned, NoneLeft, exists
  <1>10. link[p] # NewLink
    BY <1>1, NewLinkIsIdle
  <1>11. CASE link[p].tcp = "Connected"
    <2>1. Becomes(u)
      BY <1>8, <1>11 DEF CheckConnection
    <2>2. Noticed(now) => Noticed(u)
      <3>1. u.link[p].session = now.link[p].session /\ u.link[p].tcp # "Unconnected"
        BY <1>2, <1>5, <1>7, <1>11
      <3>2. QED
        BY <1>2, <1>7, <3>1, MovedNoticed
    <2>3. ProviderOK(u, p)
      <3>1. ProviderOK(now, p)
        BY InvFacts
      <3>2. LinkOK(x)
        BY <1>5, <1>11 DEF LinkOK
      <3>3. \A c \in commands(p) : Owner[c] = p /\ (exists(u, c) <=> exists(now, c))
        BY <1>7 DEF commands, exists
      <3>4. channels(u, p) = channels(now, p)
        BY <3>3 DEF channels
      <3>5. \A c \in commands(p) : ChannelOK(u, c)
        BY <1>2, <1>5, <1>7, <3>1, <3>3 DEF ProviderOK, ChannelOK, session
      <3>6. QED
        BY <1>2, <1>5, <1>7, <3>1, <3>2, <3>4, <3>5 DEF ProviderOK
    <2>4. Proceeds(now, u, p)
      BY <1>2, <1>5, <1>7, StaysIsProceeding
    <2>5. QED
      BY <1>1, <1>7, <1>9, <1>10, <2>1, <2>2, <2>3, <2>4, ProviderStep
  <1>12. CASE link[p].tcp # "Connected"
    <2>1. PICK w : w = endSession(u, p, "FailedToEstablshed")
      OBVIOUS
    <2>2. Becomes(w)
      BY <1>8, <1>12, <2>1 DEF CheckConnection
    <2>3. /\ Turned(u, w, p) /\ Follows(w, p) /\ Over(w, p)
          /\ Noticed(u) => Noticed(w)
          /\ u.link[p].session = "NotEstableshed" => Noticed(w)
      BY <1>9, <2>1, EndsSession DEF Ended
    <2>4. Noticed(now) => Noticed(w)
      <3>1. CASE x.session = "NotEstableshed"
        BY <1>7, <2>3, <3>1
      <3>2. CASE x.session # "NotEstableshed"
        <4>1. u.link[p].session = now.link[p].session /\ u.link[p].session # "NotEstableshed"
          BY <1>2, <1>5, <1>7, <3>2
        <4>2. Noticed(now) => Noticed(u)
          BY <1>2, <1>7, <4>1, MovedNoticed
        <4>3. QED
          BY <2>3, <4>2
      <3>3. QED
        BY <3>1, <3>2
    <2>5. ProviderOK(w, p) /\ Proceeds(now, w, p) /\ Turned(now, w, p)
      BY <1>7, <2>3, OverIsOK, OverIsProceeding, TurnedTwice
    <2>6. QED
      BY <1>1, <1>10, <2>2, <2>3, <2>4, <2>5, ProviderStep
  <1>13. QED
    BY <1>11, <1>12

LEMMA ClientReadsStep ==
  ASSUME RemoteInv, NEW p \in Providers, ClientReads(p)
  PROVE  RemoteInv' /\ Proceed
  <1>1. link[p].tcp = "Connected" /\ starts' = starts
    BY DEF ClientReads, receives
  <1>2. PICK s \in handshake(p, link[p].session) :
          \E how \in IF s = "Established" THEN OpenAnswers(p) ELSE {Silence} :
             Becomes(advance(now, p, s, how))
    BY DEF ClientReads
  <1>3. PICK how \in Hows : Becomes(advance(now, p, s, how))
    BY <1>2, AnswersAreHows
  <1>4. /\ link[p].session \in SessionStates /\ now \in States /\ now.link = link
        /\ Follows(now, p) /\ \A c \in commands(p) : ChannelOK(now, c)
    BY InvFacts DEF Links
  <1>5. link[p].session = "Established" => channels(now, p) # {}
    BY <1>4, InvFacts DEF ProviderOK
  <1>6. /\ s \in Up \cup {"FailedToEstablshed", link[p].session}
        /\ link[p].session \in {"Established", "Closing"} => s = link[p].session
    BY <1>2, <1>4, HandshakeStates
  <1>7. PICK w : w = advance(now, p, s, how)
    OBVIOUS
  <1>8. /\ Turned(now, w, p) /\ Follows(w, p) /\ ProviderOK(w, p)
        /\ Proceeds(now, w, p)
        /\ Noticed(now) => Noticed(w)
    BY <1>1, <1>4, <1>5, <1>6, <1>7, Advances
  <1>9. link[p] # NewLink
    BY <1>1, NewLinkIsIdle
  <1>10. QED
    BY <1>1, <1>3, <1>7, <1>8, <1>9, ProviderStep

LEMMA ProcessReadsStep ==
  ASSUME RemoteInv, NEW c \in Commands, ProcessReads(c)
  PROVE  RemoteInv' /\ Proceed
  <1>1. PICK p \in Providers : p = Owner[c]
    BY Ssh2Assumption
  <1>2. /\ exists(now, c) /\ link[p].tcp = "Connected" /\ starts' = starts
        /\ session(now, c) \in {"Established", "Closing"}
    BY <1>1 DEF ProcessReads, receives
  <1>3. PICK how \in Hows : Becomes(processReads(now, c, how))
    BY AnswersAreHows DEF ProcessReads
  <1>4. c \in commands(p)
    BY <1>1 DEF commands
  <1>5. /\ now \in States /\ now.link = link /\ Follows(now, p) /\ ProviderOK(now, p)
        /\ \A d \in commands(p) : ChannelOK(now, d)
    BY InvFacts
  <1>6. now.chan[c] \in Channels /\ Shape(now.chan[c], c)
        /\ (now.chan[c].open => session(now, c) = "Established")
    BY <1>2, <1>4, <1>5, ExistingAreChannels DEF ChannelOK
  <1>7. PICK w : w = processReads(now, c, how)
    OBVIOUS
  <1>8. PICK t : /\ Touched(now, t, c) /\ Shape(t.chan[c], c)
                 /\ w = t \/ w = channelReports(t, c)
                 /\ t.chan[c].open => now.chan[c].open \/ session(now, c) = "Established"
                 /\ t.chan[c].handle => now.chan[c].handle \/ now.chan[c].open
    BY <1>5, <1>6, <1>7, ProcessReadsChannel
  <1>9. Turned(now, t, p) /\ (Noticed(now) => Noticed(t))
    BY <1>1, <1>8, TouchedTurns
  <1>10. t \in States /\ t.link = link /\ Follows(t, p)
    BY <1>5, <1>8, <1>9 DEF Touched, Turned
  <1>11. ProviderOK(t, p)
    <2>1. exists(t, c)
      BY <1>8, ChannelsExist DEF Touched, exists
    <2>2. ASSUME NEW d \in commands(p)
          PROVE  ChannelOK(t, d)
      <3>1. d \in Commands /\ Owner[d] = p
        BY DEF commands
      <3>2. CASE d = c
        BY <1>1, <1>2, <1>5, <1>6, <1>8, <1>10, <3>2 DEF ChannelOK, session
      <3>3. CASE d # c
        <4>1. t.chan[d] = now.chan[d]
          BY <1>8, <3>1, <3>3 DEF Touched
        <4>2. QED
          BY <1>5, <1>10, <4>1 DEF ChannelOK, exists, session
      <3>4. QED
        BY <3>2, <3>3
    <2>3. channels(t, p) # {}
      BY <1>4, <2>1 DEF channels
    <2>4. QED
      BY <1>5, <1>10, <2>2, <2>3 DEF ProviderOK
  <1>12. link[p] # NewLink
    BY <1>2, NewLinkIsIdle
  <1>13. Becomes(w)
    BY <1>3, <1>7
  <1>14. CASE w = t
    <2>1. Proceeds(now, t, p)
      <3>1. t.link = now.link
        BY <1>5, <1>10
      <3>2. ASSUME now.link[p].session = "Closing", NEW d \in commands(p),
                   exists(t, d), t.chan[d].handle
            PROVE  exists(now, d) /\ now.chan[d].handle
        <4>1. d \in Commands
          BY DEF commands
        <4>2. CASE d = c
          BY <1>1, <1>2, <1>6, <1>8, <3>2, <4>2 DEF session
        <4>3. CASE d # c
          BY <1>8, <3>2, <4>1, <4>3 DEF Touched, exists
        <4>4. QED
          BY <4>2, <4>3
      <3>3. QED
        BY <3>1, <3>2 DEF Proceeds
    <2>2. QED
      BY <1>2, <1>9, <1>10, <1>11, <1>12, <1>13, <1>14, <2>1, ProviderStep
  <1>15. CASE w # t
    <2>1. NoneLeft(t, p)
      BY <1>11, NoneIsLeft DEF ProviderOK
    <2>2. Turned(t, w, p) /\ Follows(w, p) /\ Over(w, p) /\ (Noticed(t) => Noticed(w))
      BY <1>1, <1>8, <1>10, <1>15, <2>1, Reports
    <2>3. ProviderOK(w, p) /\ Proceeds(now, w, p) /\ Turned(now, w, p)
      BY <1>9, <2>2, OverIsOK, OverIsProceeding, TurnedTwice
    <2>4. QED
      BY <1>2, <1>9, <1>12, <1>13, <2>2, <2>3, ProviderStep
  <1>16. QED
    BY <1>14, <1>15

LEMMA DeleteChannelStep ==
  ASSUME RemoteInv, NEW c \in Commands, DeleteChannel(c)
  PROVE  RemoteInv' /\ Proceed
  <1>1. PICK p \in Providers : p = Owner[c]
    BY Ssh2Assumption
  <1>2. exists(now, c) /\ starts' = starts /\ c \in commands(p)
    BY <1>1 DEF DeleteChannel, commands
  <1>3. /\ now \in States /\ now.link = link /\ Follows(now, p) /\ LinkOK(link[p])
        /\ \A d \in commands(p) : ChannelOK(now, d)
    BY InvFacts
  <1>4. link[p] # NewLink
    <2>1. link[p].tcp = "Connected"
      BY <1>1, <1>2, <1>3 DEF ChannelOK
    <2>2. QED
      BY <2>1, NewLinkIsIdle
  <1>5. PICK f : f = [now.chan EXCEPT ![c] = NoChannel]
    OBVIOUS
  <1>6. f \in [Commands -> Channels \cup {NoChannel}]
    BY <1>3, <1>5 DEF States
  <1>7. PICK gone : gone = [now EXCEPT !.chan = f]
    OBVIOUS
  <1>8. /\ gone \in States /\ gone.core = now.core /\ gone.ps = now.ps /\ gone.link = now.link
        /\ gone.chan = f
    BY <1>3, <1>6, <1>7 DEF States
  <1>9. \A d \in Commands : gone.chan[d] = IF d = c THEN NoChannel ELSE now.chan[d]
    BY <1>3, <1>5, <1>8 DEF States
  <1>10. gone = [now EXCEPT !.chan[c] = NoChannel]
    BY <1>3, <1>5, <1>7 DEF States
  <1>11. \A d \in Commands \ commands(p) : gone.chan[d] = now.chan[d]
    BY <1>2, <1>9
  <1>12. Turned(now, gone, p) /\ Follows(gone, p) /\ (Noticed(now) => Noticed(gone))
    BY <1>3, <1>8, <1>11 DEF Turned, Follows, Waits, Noticed
  <1>13. ASSUME NEW d \in commands(p)
         PROVE  ChannelOK(gone, d)
    <2>1. d \in Commands
      BY DEF commands
    <2>2. CASE d = c
      BY <1>9, <2>1, <2>2 DEF ChannelOK, exists
    <2>3. CASE d # c
      BY <1>3, <1>8, <1>9, <2>1, <2>3 DEF ChannelOK, exists, session
    <2>4. QED
      BY <2>2, <2>3
  <1>14. \A d \in commands(p) : gone.chan[d] = now.chan[d] \/ ~exists(gone, d)
    BY <1>9 DEF exists, commands
  <1>15. CASE channels(gone, p) # {}
    <2>1. Becomes(gone)
      BY <1>1, <1>10, <1>15 DEF DeleteChannel
    <2>2. ProviderOK(gone, p)
      BY <1>3, <1>8, <1>13, <1>15 DEF ProviderOK
    <2>3. Proceeds(now, gone, p)
      BY <1>8, <1>14, StaysIsProceeding
    <2>4. QED
      BY <1>2, <1>4, <1>12, <2>1, <2>2, <2>3, ProviderStep
  <1>16. CASE channels(gone, p) = {}
    <2>1. PICK w : w = disconnectFromHost(gone, p, Silence)
      OBVIOUS
    <2>2. Becomes(w)
      BY <1>1, <1>10, <1>16, <2>1 DEF DeleteChannel
    <2>3. LinkOK(gone.link[p]) /\ Silence \in Hows
      BY <1>3, <1>8, AnswersAreHows
    <2>4. /\ Turned(gone, w, p) /\ Follows(w, p) /\ ProviderOK(w, p)
          /\ Proceeds(gone, w, p)
          /\ Noticed(gone) => Noticed(w)
      BY <1>8, <1>12, <1>13, <2>1, <2>3, Disconnects
    <2>5. Turned(now, w, p) /\ Proceeds(now, w, p)
      BY <1>8, <1>12, <1>14, <2>4, TurnedTwice, ProceedsFrom
    <2>6. QED
      BY <1>2, <1>4, <1>12, <2>2, <2>4, <2>5, ProviderStep
  <1>17. QED
    BY <1>15, <1>16

-----------------------------------------------------------------------------
(* The steps of Core *)

\* What is Core's does not matter to the providers.
LEMMA ProvidersOnly ==
  ASSUME NEW w, NEW v, v.ps = w.ps, v.link = w.link, v.chan = w.chan, NEW p,
         Follows(w, p), ProviderOK(w, p)
  PROVE  Follows(v, p) /\ ProviderOK(v, p)
  <1>1. channels(v, p) = channels(w, p)
    BY DEF channels, exists
  <1>2. \A c \in commands(p) : ChannelOK(v, c)
    BY DEF ProviderOK, ChannelOK, exists, session
  <1>3. QED
    BY <1>1, <1>2 DEF Follows, ProviderOK

LEMMA PrepareStep ==
  ASSUME RemoteInv, Prepare
  PROVE  RemoteInv' /\ Proceed
  <1>1. /\ pstate' = pstate /\ link' = link /\ chan' = chan /\ cmdState' = cmdState
        /\ starts' = starts
        /\ coreState' \in {coreState, "Finished"}
        /\ prepared' \subseteq Providers
        /\ prepared = {}
    BY DEF Prepare, PrepareSucceeds, PrepareThrows, StartWithoutProviders, remoteVars, RemoteInv
  <1>2. /\ coreState \notin {"Started", "Finishing"} /\ coreState' \notin {"Started", "Finishing"}
        /\ coreState' \in CoreStates
    BY <1>1, InvFacts DEF RemoteInv, States, CoreStates
  <1>3. PICK w : w = [now EXCEPT !.core = coreState']
    OBVIOUS
  <1>4. /\ w \in States /\ w.core = coreState' /\ w.ps = now.ps /\ w.link = now.link
        /\ w.chan = now.chan
    BY <1>2, <1>3, InvFacts DEF States
  <1>5. \A p \in Providers : Follows(w, p) /\ ProviderOK(w, p)
    BY <1>4, InvFacts, ProvidersOnly
  <1>6. now' = w
    BY <1>1, <1>3 DEF now
  <1>7. Good(now)' /\ Noticed(now)'
    BY <1>2, <1>4, <1>5, <1>6 DEF Good, Waits, Noticed
  <1>8. RemoteInv'
    BY <1>1, <1>2, <1>7 DEF RemoteInv
  <1>9. Proceed
    BY <1>4, <1>6, StaysIsProceeding DEF Proceed
  <1>10. QED
    BY <1>8, <1>9

\* What a loop of Core over the providers P makes of w, F[p] being what the call
\* on p returns.
Joined(w, P, F, r) ==
  /\ Good(r)
  /\ \A p \in Providers :
       /\ p \in P => r.link[p] = F[p].link[p] /\ r.ps[p] = F[p].ps[p]
       /\ p \notin P => r.link[p] = w.link[p] /\ r.ps[p] = w.ps[p]
  /\ \A p \in Providers : \A c \in commands(p) :
       r.chan[c] = IF p \in P THEN F[p].chan[c] ELSE w.chan[c]
  /\ r.core \in {w.core, "Finished"}
  /\ r.ps = w.ps => r.core = w.core

\* A loop of Core over providers leaves a good state if each call leaves its
\* provider in one.
LEMMA Together ==
  ASSUME NEW w, Good(w), NEW P \in SUBSET Providers, NEW F,
         \A p \in P : F[p] \in States /\ Follows(F[p], p) /\ ProviderOK(F[p], p),
         NEW r, r = forEachProvider(P, w, F)
  PROVE  Joined(w, P, F, r)
  <1>1. PICK ps : ps = [p \in Providers |-> IF p \in P THEN F[p].ps[p] ELSE w.ps[p]]
    OBVIOUS
  <1>2. PICK lk : lk = [p \in Providers |-> IF p \in P THEN F[p].link[p] ELSE w.link[p]]
    OBVIOUS
  <1>3. PICK ch : ch = [c \in Commands |-> (IF Owner[c] \in P THEN F[Owner[c]] ELSE w).chan[c]]
    OBVIOUS
  <1>4. PICK cm : cm = [c \in Commands |-> (IF Owner[c] \in P THEN F[Owner[c]] ELSE w).cmd[c]]
    OBVIOUS
  <1>5. PICK k : k = IF ps = w.ps THEN w.core ELSE coreAfter(w.core, ps)
    OBVIOUS
  <1>6. r = [core |-> k, ps |-> ps, link |-> lk, chan |-> ch, cmd |-> cm]
    BY <1>1, <1>2, <1>3, <1>4, <1>5 DEF forEachProvider
  <1>7. w \in States /\ Waits(w)
    BY DEF Good
  <1>8. k \in {w.core, "Finished"} /\ (ps = w.ps => k = w.core) /\ k \in CoreStates
    BY <1>5, <1>7 DEF coreAfter, States, CoreStates
  <1>9. ps \in [Providers -> ProviderStates]
    BY <1>1, <1>7 DEF States
  <1>10. lk \in [Providers -> Links]
    BY <1>2, <1>7 DEF States
  <1>11. ch \in [Commands -> Channels \cup {NoChannel}]
    <2>1. ASSUME NEW c \in Commands
          PROVE  (IF Owner[c] \in P THEN F[Owner[c]] ELSE w) \in States
      BY <1>7
    <2>2. QED
      BY <1>3, <2>1 DEF States
  <1>12. cm \in [Commands -> ProcessStates]
    <2>1. ASSUME NEW c \in Commands
          PROVE  (IF Owner[c] \in P THEN F[Owner[c]] ELSE w) \in States
      BY <1>7
    <2>2. QED
      BY <1>4, <2>1 DEF States
  <1>13. r \in States /\ r.core = k /\ r.ps = ps /\ r.link = lk /\ r.chan = ch
    <2>1. r.core = k /\ r.ps = ps /\ r.link = lk /\ r.chan = ch
      BY <1>6
    <2>2. [core |-> k, ps |-> ps, link |-> lk, chan |-> ch, cmd |-> cm] \in States
      BY <1>8, <1>9, <1>10, <1>11, <1>12 DEF States
    <2>3. QED
      BY <1>6, <2>1, <2>2
  <1>14. Waits(r)
    BY <1>5, <1>7, <1>13 DEF Waits, coreAfter
  <1>15. ASSUME NEW p \in Providers
         PROVE  Follows(r, p) /\ ProviderOK(r, p)
    <2>1. PICK x : x = IF p \in P THEN F[p] ELSE w
      OBVIOUS
    <2>2. Follows(x, p) /\ ProviderOK(x, p)
      BY <2>1 DEF Good
    <2>3. r.ps[p] = x.ps[p] /\ r.link[p] = x.link[p]
      BY <1>1, <1>2, <1>13, <2>1
    <2>4. \A c \in commands(p) : Owner[c] = p /\ r.chan[c] = x.chan[c]
      BY <1>3, <1>13, <2>1 DEF commands
    <2>5. channels(r, p) = channels(x, p)
      BY <2>4 DEF channels, exists
    <2>6. ASSUME NEW c \in commands(p)
          PROVE  ChannelOK(r, c)
      <3>1. Owner[c] = p /\ r.chan[c] = x.chan[c] /\ ChannelOK(x, c)
        BY <2>2, <2>4 DEF ProviderOK
      <3>2. QED
        BY <2>3, <3>1 DEF ChannelOK, exists, session
    <2>7. QED
      BY <2>2, <2>3, <2>5, <2>6 DEF Follows, ProviderOK
  <1>16. Good(r)
    BY <1>13, <1>14, <1>15 DEF Good
  <1>17. \A p \in Providers : \A c \in commands(p) :
           r.chan[c] = IF p \in P THEN F[p].chan[c] ELSE w.chan[c]
    BY <1>3, <1>13 DEF commands
  <1>18. QED
    BY <1>1, <1>2, <1>8, <1>13, <1>16, <1>17 DEF Joined

LEMMA StartStep ==
  ASSUME RemoteInv, Start
  PROVE  RemoteInv' /\ Proceed
  <1>1. PICK begun : begun = [now EXCEPT !.core = "Started"]
    OBVIOUS
  <1>2. PICK P : P = {p \in prepared : ~isActiveProvider(pstate[p])}
    OBVIOUS
  <1>3. PICK F : F = [p \in P |-> connectToHost(begun, p)]
    OBVIOUS
  <1>4. PICK r : r = forEachProvider(P, begun, F)
    OBVIOUS
  <1>5. Becomes(r)
    BY <1>1, <1>2, <1>3, <1>4 DEF Start
  <1>6. /\ prepared # {} /\ starts < MaxStarts /\ starts' = starts + 1
        /\ prepared' = prepared /\ link' = r.link /\ coreState' = r.core
    BY <1>5 DEF Start, Becomes
  <1>7. /\ begun \in States /\ begun.core = "Started" /\ begun.ps = now.ps
        /\ begun.link = now.link /\ begun.chan = now.chan
    BY <1>1, InvFacts DEF States, CoreStates
  <1>8. \A p \in Providers : Follows(begun, p) /\ ProviderOK(begun, p)
    BY <1>7, InvFacts, ProvidersOnly
  <1>9. Good(begun)
    BY <1>7, <1>8 DEF Good, Waits
  <1>10. P \in SUBSET Providers
    BY <1>2 DEF RemoteInv
  <1>11. ASSUME NEW p \in P
         PROVE  /\ F[p] \in States /\ Follows(F[p], p) /\ ProviderOK(F[p], p)
                /\ F[p].ps = begun.ps /\ F[p].link[p].session = link[p].session
                /\ F[p].link[p].tcp # "Unconnected" /\ F[p].chan = begun.chan
    <2>1. p \in Providers /\ F[p] = connectToHost(begun, p)
      BY <1>3, <1>10
    <2>2. /\ F[p] \in States /\ F[p].ps = begun.ps /\ F[p].chan = begun.chan
          /\ F[p].link[p].session = begun.link[p].session
          /\ F[p].link[p].tcp # "Unconnected"
          /\ begun.link[p].tcp # "Unconnected" => F[p] = begun
          /\ begun.link[p].tcp = "Unconnected" =>
               F[p].link[p].tcp = "Connecting" /\ F[p].link[p].timers > 0
      BY <1>7, <2>1, Connects
    <2>3. Follows(F[p], p) /\ ProviderOK(F[p], p)
      <3>1. CASE begun.link[p].tcp # "Unconnected"
        BY <1>8, <2>1, <2>2, <3>1
      <3>2. CASE begun.link[p].tcp = "Unconnected"
        <4>1. Follows(F[p], p)
          BY <1>8, <2>1, <2>2 DEF Follows
        <4>2. begun.link[p].session \notin {"Established", "Closing"} /\ LinkOK(F[p].link[p])
          BY <1>8, <2>1, <2>2, <3>2 DEF ProviderOK, LinkOK, Up
        <4>3. \A c \in commands(p) : ~exists(F[p], c)
          BY <1>8, <2>1, <2>2, <4>2, NoneIsLeft DEF ProviderOK, exists
        <4>4. QED
          BY <2>2, <4>1, <4>2, <4>3 DEF ProviderOK, ChannelOK
      <3>3. QED
        BY <3>1, <3>2
    <2>4. QED
      BY <1>7, <2>2, <2>3, InvFacts
  <1>12. /\ Good(r)
         /\ \A p \in Providers :
              /\ p \in P => r.link[p] = F[p].link[p] /\ r.ps[p] = F[p].ps[p]
              /\ p \notin P => r.link[p] = begun.link[p] /\ r.ps[p] = begun.ps[p]
         /\ \A p \in Providers : \A c \in commands(p) :
              r.chan[c] = IF p \in P THEN F[p].chan[c] ELSE begun.chan[c]
    <2>1. \A p \in P : F[p] \in States /\ Follows(F[p], p) /\ ProviderOK(F[p], p)
      BY <1>11
    <2>2. Joined(begun, P, F, r)
      BY <1>4, <1>9, <1>10, <2>1, Together
    <2>3. QED
      BY <2>2 DEF Joined
  <1>13. now' = r /\ Good(now)' /\ (Noticed(r) => Noticed(now)')
    BY <1>5, <1>12, BecomesGood
  <1>14. \A p \in Providers : r.link[p].session = link[p].session
    BY <1>7, <1>11, <1>12, InvFacts
  <1>15. starts = 0 => Noticed(r)
    <2> SUFFICES ASSUME starts = 0, NEW p \in Providers \cap prepared
                 PROVE  r.link[p].session = "NotEstableshed" /\ r.link[p].tcp # "Unconnected"
      BY DEF Noticed
    <2>1. link[p].session = "NotEstableshed"
      BY NewLinkIsIdle DEF RemoteInv
    <2>2. p \in P
      BY <1>2, <2>1, InvFacts DEF Follows, providerStateOf, isActiveProvider
    <2>3. QED
      BY <1>11, <1>12, <1>14, <2>1, <2>2
  <1>16. starts \in Nat /\ starts' \in 0..MaxStarts /\ starts' # 0 /\ (starts' = 1 => starts = 0)
    BY <1>6, RemoteBounds DEF RemoteInv
  <1>17. RemoteInv'
    BY <1>6, <1>13, <1>15, <1>16 DEF RemoteInv
  <1>18. Proceed
    <2>1. ASSUME NEW p \in Providers
          PROVE  Proceeds(now, r, p)
      <3>1. \A c \in commands(p) : r.chan[c] = now.chan[c]
        BY <1>7, <1>11, <1>12
      <3>2. r.link[p].session = now.link[p].session
        BY <1>14, InvFacts
      <3>3. QED
        BY <3>1, <3>2, StaysIsProceeding
    <2>2. QED
      BY <1>13, <2>1 DEF Proceed
  <1>19. QED
    BY <1>17, <1>18

LEMMA StopStep ==
  ASSUME RemoteInv, Stop
  PROVE  RemoteInv' /\ Proceed
  <1>1. PICK ending : ending = [now EXCEPT !.core = "Finishing"]
    OBVIOUS
  <1>2. PICK how \in CloseAnswers(Commands) :
          Becomes(IF activeProviders(pstate) = {} THEN [now EXCEPT !.core = "Finished"]
                  ELSE forEachProvider(prepared, ending, [p \in prepared |-> stopProvider(ending, p, how)]))
    BY <1>1 DEF Stop
  <1>3. /\ starts' = starts /\ starts # 0 /\ how \in Hows /\ prepared # {}
        /\ prepared \subseteq Providers
    BY AnswersAreHows DEF Stop, canStop, RemoteInv
  <1>4. ASSUME NEW w, Becomes(w), Good(w), w.core # "Started",
               \A p \in Providers : Proceeds(now, w, p)
        PROVE  RemoteInv' /\ Proceed
    <2>1. now' = w /\ Good(now)' /\ (Noticed(w) => Noticed(now)')
      BY <1>4, BecomesGood
    <2>2. Noticed(w)
      BY <1>4 DEF Noticed
    <2>3. prepared' = prepared /\ link' = w.link
      BY <1>4 DEF Becomes
    <2>4. RemoteInv'
      BY <1>3, <2>1, <2>2, <2>3 DEF RemoteInv
    <2>5. Proceed
      BY <1>4, <2>1 DEF Proceed
    <2>6. QED
      BY <2>4, <2>5
  <1>5. CASE activeProviders(pstate) = {}
    <2>1. PICK w : w = [now EXCEPT !.core = "Finished"]
      OBVIOUS
    <2>2. /\ w \in States /\ w.core = "Finished" /\ w.ps = now.ps /\ w.link = now.link
          /\ w.chan = now.chan
      BY <2>1, InvFacts DEF States, CoreStates
    <2>3. \A p \in Providers : Follows(w, p) /\ ProviderOK(w, p)
      BY <2>2, InvFacts, ProvidersOnly
    <2>4. Good(w)
      BY <2>2, <2>3 DEF Good, Waits
    <2>5. \A p \in Providers : Proceeds(now, w, p)
      BY <2>2, StaysIsProceeding
    <2>6. QED
      BY <1>2, <1>4, <1>5, <2>1, <2>2, <2>4, <2>5
  <1>6. CASE activeProviders(pstate) # {}
    <2>1. PICK F : F = [p \in prepared |-> stopProvider(ending, p, how)]
      OBVIOUS
    <2>2. PICK r : r = forEachProvider(prepared, ending, F)
      OBVIOUS
    <2>3. Becomes(r)
      BY <1>2, <1>6, <2>1, <2>2
    <2>4. /\ ending \in States /\ ending.core = "Finishing" /\ ending.ps = now.ps
          /\ ending.link = now.link /\ ending.chan = now.chan
      BY <1>1, InvFacts DEF States, CoreStates
    <2>5. \A p \in Providers : Follows(ending, p) /\ ProviderOK(ending, p)
      BY <2>4, InvFacts, ProvidersOnly
    <2>6. Good(ending)
      BY <1>6, <2>4, <2>5, InvFacts DEF Good, Waits
    <2>7. ASSUME NEW p \in prepared
          PROVE  /\ F[p] \in States /\ Follows(F[p], p) /\ ProviderOK(F[p], p)
                 /\ Proceeds(ending, F[p], p)
      <3>1. p \in Providers /\ F[p] = stopProvider(ending, p, how)
        BY <1>3, <2>1
      <3>2. CASE F[p] = ending
        BY <2>4, <2>5, <3>1, <3>2, StaysIsProceeding
      <3>3. CASE F[p] # ending
        <4>1. /\ F[p] = disconnectFromHost(ending, p, how)
              /\ ending.link[p].session # "Closing"
          BY <3>1, <3>3 DEF stopProvider
        <4>2. /\ LinkOK(ending.link[p]) /\ \A c \in commands(p) : ChannelOK(ending, c)
              /\ Follows(ending, p)
          BY <2>5, <3>1 DEF ProviderOK
        <4>3. /\ Turned(ending, F[p], p) /\ Follows(F[p], p) /\ ProviderOK(F[p], p)
              /\ Proceeds(ending, F[p], p)
          BY <1>3, <2>4, <3>1, <4>1, <4>2, Disconnects
        <4>4. QED
          BY <4>3 DEF Turned
      <3>4. QED
        BY <3>2, <3>3
    <2>8. /\ Good(r)
          /\ \A p \in Providers :
               /\ p \in prepared => r.link[p] = F[p].link[p] /\ r.ps[p] = F[p].ps[p]
               /\ p \notin prepared => r.link[p] = ending.link[p] /\ r.ps[p] = ending.ps[p]
          /\ \A p \in Providers : \A c \in commands(p) :
               r.chan[c] = IF p \in prepared THEN F[p].chan[c] ELSE ending.chan[c]
          /\ r.core \in {ending.core, "Finished"}
      <3>1. \A p \in prepared : F[p] \in States /\ Follows(F[p], p) /\ ProviderOK(F[p], p)
        BY <2>7
      <3>2. prepared \in SUBSET Providers
        BY DEF RemoteInv
      <3>3. r = forEachProvider(prepared, ending, F)
        BY <1>3, <2>2
      <3>4. Joined(ending, prepared, F, r)
        BY <2>6, <3>1, <3>2, <3>3, Together
      <3>5. QED
        BY <3>4 DEF Joined
    <2>9. ASSUME NEW p \in Providers
          PROVE  Proceeds(now, r, p)
      <3>1. CASE p \in prepared
        <4>1. Proceeds(ending, r, p)
          BY <2>7, <2>8, <3>1, ProceedsTo
        <4>2. QED
          BY <2>4, <4>1, ProceedsFrom
      <3>2. CASE p \notin prepared
        BY <2>4, <2>8, <3>2, StaysIsProceeding
      <3>3. QED
        BY <3>1, <3>2
    <2>10. QED
      BY <1>4, <2>3, <2>4, <2>8, <2>9
  <1>7. QED
    BY <1>5, <1>6

-----------------------------------------------------------------------------
(* The theorems *)

LEMMA InitRemoteInv ==
  ASSUME Init
  PROVE  RemoteInv
  <1>1. /\ coreState = "NotStarted" /\ prepared = {} /\ starts = 0
        /\ pstate = [p \in Providers |-> "NotStarted"]
        /\ link = [p \in Providers |-> NewLink]
        /\ chan = [c \in Commands |-> NoChannel]
        /\ cmdState = [c \in Commands |-> "NotStarted"]
    BY DEF Init, CoreInit
  <1>2. NewLink \in Links
    BY DEF NewLink, Links, SocketStates, SessionStates
  <1>3. now = [core |-> coreState, ps |-> pstate, link |-> link, chan |-> chan, cmd |-> cmdState]
    BY DEF now
  <1>4. /\ pstate \in [Providers -> ProviderStates] /\ link \in [Providers -> Links]
        /\ chan \in [Commands -> Channels \cup {NoChannel}]
        /\ cmdState \in [Commands -> ProcessStates] /\ coreState \in CoreStates
    BY <1>1, <1>2 DEF ProviderStates, ProcessStates, CoreStates
  <1>5. now \in States /\ now.core = coreState /\ now.ps = pstate /\ now.link = link
        /\ now.chan = chan
    BY <1>3, <1>4 DEF States
  <1>6. ASSUME NEW p \in Providers
        PROVE  Follows(now, p) /\ ProviderOK(now, p)
    <2>1. now.ps[p] = "NotStarted" /\ now.link[p] = NewLink
      BY <1>1, <1>5
    <2>2. Follows(now, p)
      BY <2>1, NewLinkIsIdle DEF Follows, providerStateOf
    <2>3. \A c \in commands(p) : ~exists(now, c)
      BY <1>1, <1>5 DEF commands, exists
    <2>4. LinkOK(NewLink) /\ NewLink.session # "Established"
      BY NewLinkIsIdle DEF LinkOK, Up
    <2>5. QED
      BY <2>1, <2>2, <2>3, <2>4 DEF ProviderOK, ChannelOK
  <1>7. Good(now)
    BY <1>1, <1>5, <1>6 DEF Good, Waits
  <1>8. QED
    BY <1>1, <1>7, RemoteBounds DEF RemoteInv

LEMMA RemotePreservation ==
  ASSUME RemoteInv, [Next]_vars
  PROVE  RemoteInv' /\ Proceed
  <1>1. CASE Prepare
    BY <1>1, PrepareStep
  <1>2. CASE Start \/ Stop
    BY <1>2, StartStep, StopStep
  <1>3. ASSUME NEW p \in Providers,
               TcpConnected(p) \/ TcpRefused(p) \/ PeerGoes(p) \/ SocketCloses(p)
        PROVE  RemoteInv' /\ Proceed
    BY <1>3, TcpConnectedStep, TcpRefusedStep, PeerGoesStep, SocketClosesStep
  <1>4. ASSUME NEW p \in Providers, CheckConnection(p) \/ ClientReads(p)
        PROVE  RemoteInv' /\ Proceed
    BY <1>4, CheckConnectionStep, ClientReadsStep
  <1>5. ASSUME NEW c \in Commands, ProcessReads(c) \/ DeleteChannel(c)
        PROVE  RemoteInv' /\ Proceed
    BY <1>5, ProcessReadsStep, DeleteChannelStep
  <1>6. CASE UNCHANGED vars
    <2>1. /\ coreState' = coreState /\ prepared' = prepared /\ pstate' = pstate /\ link' = link
          /\ chan' = chan /\ cmdState' = cmdState /\ starts' = starts
      BY <1>6 DEF vars, coreVars, remoteVars
    <2>2. now' = now
      BY <2>1 DEF now
    <2>3. Good(now)' /\ (Noticed(now) => Noticed(now)')
      BY <2>1, <2>2 DEF RemoteInv, Good, Waits, Noticed, activeProviders
    <2>4. QED
      BY <2>1, <2>2, <2>3, StaysIsProceeding DEF RemoteInv, Proceed
  <1>7. QED
    BY <1>1, <1>2, <1>3, <1>4, <1>5, <1>6 DEF Next

\* RemoteInv is an invariant, whatever sockets, servers and the application do.
THEOREM RemoteInvariance == Spec => []RemoteInv
  <1>1. Init => RemoteInv
    BY InitRemoteInv
  <1>2. RemoteInv /\ [Next]_vars => RemoteInv'
    BY RemotePreservation
  <1>3. QED
    BY <1>1, <1>2, PTL DEF Spec

\* Type correctness.
THEOREM RemoteTypeCorrect == Spec => []TypeOK
  <1>1. RemoteInv => TypeOK
    BY DEF RemoteInv, Good, States, now, TypeOK, CoreTypeOK
  <1>2. QED
    BY <1>1, RemoteInvariance, PTL

\* No libssh2 channel is left behind by the session that destroySsh2Objects frees.
THEOREM HandlesHaveSessions == Spec => []HandleHasSession
  <1>1. ASSUME RemoteInv
        PROVE  HandleHasSession
    <2> SUFFICES ASSUME NEW c \in Commands, exists(now, c)
                 PROVE  session(now, c) \in {"Established", "Closing"}
      BY DEF HandleHasSession
    <2>1. Owner[c] \in Providers /\ c \in commands(Owner[c])
      BY Ssh2Assumption DEF commands
    <2>2. ChannelOK(now, c)
      BY <1>1, <2>1, InvFacts
    <2>3. QED
      BY <2>2 DEF ChannelOK
  <1>2. QED
    BY <1>1, RemoteInvariance, PTL

\* An established session is not forgotten: a channel of it is there, whose
\* deletion or whose end closes it.
THEOREM EstablishedHasChannels == Spec => []EstablishedHasChannel
  <1>1. ASSUME RemoteInv
        PROVE  EstablishedHasChannel
    BY <1>1, InvFacts DEF EstablishedHasChannel, ProviderOK
  <1>2. QED
    BY <1>1, RemoteInvariance, PTL

\* Every channel of a command without restart has an event ahead.
THEOREM ChannelsHaveEvents == Spec => []ChannelHasEvent
  <1>1. ASSUME RemoteInv
        PROVE  ChannelHasEvent
    <2> SUFFICES ASSUME NEW c \in Commands \ Restart, exists(now, c)
                 PROVE  \/ chan[c].doomed
                        \/ chan[c].at = "Opening" /\ chan[c].open
                        \/ chan[c].at \in {"Opened", "Closing"} /\ chan[c].handle
      BY DEF ChannelHasEvent
    <2>1. Owner[c] \in Providers /\ c \in commands(Owner[c])
      BY Ssh2Assumption DEF commands
    <2>2. ChannelOK(now, c) /\ now.chan = chan
      BY <1>1, <2>1, InvFacts
    <2>3. QED
      BY <2>2 DEF ChannelOK, Shape, Lives
  <1>2. QED
    BY <1>1, RemoteInvariance, PTL

\* A Core that is Finishing has a provider to wait for.
THEOREM FinishingHasProviders == Spec => []FinishingHasProvider
  <1>1. ASSUME RemoteInv
        PROVE  FinishingHasProvider
    BY <1>1, InvFacts DEF RemoteInv, Good, Waits, FinishingHasProvider
  <1>2. QED
    BY <1>1, RemoteInvariance, PTL

\* A session that was started once, and whose providers have not reported
\* anything, has a check timer or a socket that will make one of them report.
THEOREM StartsAreNoticed == Spec => []StartIsNoticed
  <1>1. ASSUME RemoteInv
        PROVE  StartIsNoticed
    <2> SUFFICES ASSUME starts = 1, coreState = "Started", activeProviders(pstate) = {}
                 PROVE  \E p \in prepared : link[p].timers > 0 \/ link[p].tcp # "Unconnected"
      BY DEF StartIsNoticed
    <2>1. Noticed(now) /\ prepared # {} /\ prepared \subseteq Providers
      BY <1>1 DEF RemoteInv
    <2>2. \A p \in Providers \cap prepared : link[p].timers > 0 \/ link[p].tcp # "Unconnected"
      BY <1>1, <2>1, InvFacts DEF Noticed
    <2>3. QED
      BY <2>1, <2>2
  <1>2. QED
    BY <1>1, RemoteInvariance, PTL

\* No step executes a process on a session that is being closed.
THEOREM NothingExecutesWhileClosing == Spec => NoExecWhileClosing
  <1>1. ASSUME RemoteInv, RemoteInv', [Next]_vars
        PROVE  [\A c \in Commands :
                  (link[Owner[c]].session = "Closing" /\ NoChannel \notin {chan[c], chan'[c]})
                    => (chan'[c].process = "Started" => chan[c].process = "Started")]_vars
    <2> SUFFICES ASSUME NEW c \in Commands, link[Owner[c]].session = "Closing",
                        chan'[c] # NoChannel, chan'[c].process = "Started"
                 PROVE  FALSE
      OBVIOUS
    <2>1. Owner[c] \in Providers /\ c \in commands(Owner[c])
      BY Ssh2Assumption DEF commands
    <2>2. PICK n : n = now'
      OBVIOUS
    <2>3. n.chan = chan' /\ n.link = link'
      BY <2>2 DEF now
    <2>4. link'[Owner[c]].session # "Established"
      <3>1. Proceeds(now, n, Owner[c])
        BY <1>1, <2>1, <2>2, RemotePreservation DEF Proceed
      <3>2. QED
        BY <1>1, <2>3, <3>1, InvFacts DEF Proceeds
    <2>5. ChannelOK(n, c)
      <3>1. \A p \in Providers : ProviderOK(n, p)
        BY <1>1, <2>2 DEF RemoteInv, Good
      <3>2. QED
        BY <2>1, <3>1 DEF ProviderOK
    <2>6. exists(n, c)
      BY <2>3 DEF exists
    <2>7. n.chan[c].open /\ ~n.chan[c].open
      BY <2>3, <2>4, <2>5, <2>6 DEF ChannelOK, Shape, session
    <2>8. QED
      BY <2>7
  <1>2. QED
    BY <1>1, RemoteInvariance, PTL DEF Spec, NoExecWhileClosing

-----------------------------------------------------------------------------
(* What each source promises *)

\* The session of a source and the promise made of it.
LEMMA PromiseOfSession ==
  ASSUME NEW s \in SessionStates
  PROVE  /\ promised(providerStateOf(s)) \in {"NotStarted", "Started", "Finishing", "Finished"}
         /\ promised(providerStateOf(s)) = "NotStarted" <=> s = "NotEstableshed"
         /\ promised(providerStateOf(s)) = "Started"    <=> s = "Established"
         /\ promised(providerStateOf(s)) = "Finishing"  <=> s = "Closing"
  BY DEF SessionStates, providerStateOf, promised

\* What the state w of a source p is between two events.
Fits(w, p) == w \in States /\ Follows(w, p) /\ ProviderOK(w, p)

\* What w has at work for p.
AtWork(w, p) == {c \in commands(p) : exists(w, c) /\ w.chan[c].handle}

\* Nothing works outside of an established or closing session.
LEMMA WorkInSession ==
  ASSUME NEW w, NEW p \in Providers, Fits(w, p)
  PROVE  /\ w.link[p].session \in SessionStates
         /\ w.ps[p] = providerStateOf(w.link[p].session)
         /\ w.link[p].session \notin {"Established", "Closing"} => AtWork(w, p) = {}
  <1>1. w.link[p] \in Links /\ Follows(w, p) /\ \A c \in commands(p) : ChannelOK(w, c)
    BY DEF Fits, ProviderOK, States
  <1>2. \A c \in commands(p) : Owner[c] = p
    BY DEF commands
  <1>3. QED
    BY <1>1, <1>2 DEF Links, Follows, ChannelOK, session, AtWork

\* A step of a source is one of its session, or none.
LEMMA PromisedStep ==
  ASSUME NEW p \in Providers, NEW w, Fits(w, p), NEW v, Fits(v, p), Proceeds(w, v, p),
         NEW f, f = promised(w.ps[p]), NEW g, g = promised(v.ps[p]),
         NEW X, X = AtWork(w, p), NEW Y, Y = AtWork(v, p)
  PROVE  \/ f \in {"NotStarted", "Finished"} /\ g = "Started" /\ Y \in SUBSET commands(p)
         \/ f = "Started" /\ g = "Started" /\ Y \in SUBSET commands(p)
         \/ f = "Started" /\ g = "Finishing" /\ Y \subseteq X
         \/ f = "Finishing" /\ g = "Finishing" /\ Y \subseteq X
         \/ f \in {"NotStarted", "Started"} /\ g = "Finished" /\ Y = {}
         \/ f = "Finishing" /\ g = "Finished" /\ Y = {}
         \/ f = g /\ X = Y
  <1> DEFINE s == w.link[p].session
             t == v.link[p].session
  <1>1. /\ s \in SessionStates /\ w.ps[p] = providerStateOf(s)
        /\ s \notin {"Established", "Closing"} => X = {}
    BY WorkInSession
  <1>2. /\ t \in SessionStates /\ v.ps[p] = providerStateOf(t)
        /\ t \notin {"Established", "Closing"} => Y = {}
    BY WorkInSession
  <1>3. /\ f \in {"NotStarted", "Started", "Finishing", "Finished"}
        /\ f = "NotStarted" <=> s = "NotEstableshed"
        /\ f = "Started"    <=> s = "Established"
        /\ f = "Finishing"  <=> s = "Closing"
    BY <1>1, PromiseOfSession
  <1>4. /\ g \in {"NotStarted", "Started", "Finishing", "Finished"}
        /\ g = "NotStarted" <=> t = "NotEstableshed"
        /\ g = "Started"    <=> t = "Established"
        /\ g = "Finishing"  <=> t = "Closing"
    BY <1>2, PromiseOfSession
  <1>5. /\ s = "Closing" => t # "Established"
        /\ t = "NotEstableshed" => s = "NotEstableshed"
        /\ t = "Closing" => s \in {"Established", "Closing"} /\ Y \subseteq X
    BY DEF Proceeds, AtWork
  <1>6. Y \subseteq commands(p)
    BY DEF AtWork
  <1> HIDE DEF s, t
  <1>7. QED
    BY <1>1, <1>2, <1>3, <1>4, <1>5, <1>6

\* Every ssh2 source keeps, for itself, the promise of a session, whatever its
\* socket and its server do: nothing works before it is established, a stop lets
\* what works drain and begins nothing, and an end leaves nothing behind.
THEOREM ProvidersKeepPromise == Spec => KeepsProviderPromise
  <1>1. ASSUME Init
        PROVE  \A p \in Providers : ProviderPromise(p)!Init
    BY <1>1 DEF Init, CoreInit, ProviderPromise!Init, promised, exists, now, commands
  <1>2. ASSUME RemoteInv, RemoteInv', [Next]_vars
        PROVE  [\A p \in Providers : [ProviderPromise(p)!Next]_(ProviderPromise(p)!vars)]_vars
    <2> SUFFICES ASSUME NEW p \in Providers
                 PROVE  [ProviderPromise(p)!Next]_(ProviderPromise(p)!vars)
      OBVIOUS
    <2>1. PICK n : n = now'
      OBVIOUS
    <2>2. n.ps = pstate' /\ n.chan = chan'
      BY <2>1 DEF now
    <2>3. Fits(now, p) /\ Fits(n, p)
      BY <1>2, <2>1 DEF RemoteInv, Good, Fits
    <2>4. Proceeds(now, n, p)
      BY <1>2, <2>1, RemotePreservation DEF Proceed
    <2>5. PICK f, g : f = promised(pstate[p]) /\ g = promised(pstate'[p])
      OBVIOUS
    <2>6. PICK X, Y : X = AtWork(now, p) /\ Y = AtWork(n, p)
      OBVIOUS
    <2>7. now.ps = pstate /\ now.chan = chan
      BY DEF now
    <2>8. promised(pstate[p])' = g
      BY <2>5 DEF promised
    <2>9. {c \in commands(p) : exists(now, c) /\ chan[c].handle} = X
      BY <2>6, <2>7 DEF AtWork
    <2>10. {c \in commands(p) : exists(now, c) /\ chan[c].handle}' = Y
      BY <2>1, <2>2, <2>6 DEF AtWork, commands, exists
    <2>11. \/ f \in {"NotStarted", "Finished"} /\ g = "Started" /\ Y \in SUBSET commands(p)
           \/ f = "Started" /\ g = "Started" /\ Y \in SUBSET commands(p)
           \/ f = "Started" /\ g = "Finishing" /\ Y \subseteq X
           \/ f = "Finishing" /\ g = "Finishing" /\ Y \subseteq X
           \/ f \in {"NotStarted", "Started"} /\ g = "Finished" /\ Y = {}
           \/ f = "Finishing" /\ g = "Finished" /\ Y = {}
           \/ f = g /\ X = Y
      BY <2>2, <2>3, <2>4, <2>5, <2>6, <2>7, PromisedStep
    <2>12. QED
      BY <2>5, <2>8, <2>9, <2>10, <2>11
      DEF ProviderPromise!Next, ProviderPromise!vars, ProviderPromise!Begin,
          ProviderPromise!Work, ProviderPromise!RequestStop, ProviderPromise!Drain,
          ProviderPromise!Complete, ProviderPromise!CarryOutStop
  <1>3. QED
    BY <1>1, <1>2, RemoteInvariance, PTL DEF Spec, KeepsProviderPromise
=============================================================================

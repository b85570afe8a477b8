---- MODULE Win32KeyProofs ----
(*
Keyboard input of the Windows backend (MCWin32Input, Win32Keyboard),
for any keys, strokes and order of what happens: what the application
was told of keys and modifiers is what is held, in order and with its
text (KeysTold).

KeysTold speaks of a window with nothing left to process.  KeyInv says
what is true before that, in terms of what is still to come.  Leading:
the messages of the queue lead from GetKeyboardState to the keys held.
Truthful: what the application has been told, with what waits in the
queue of events, the press that waits for its text and the message
under way (Outlook), is the keyboard state of the messages retrieved,
without the Ctrl that belongs to an AltGr (Meant).  Paired and Apiece
keep the two Ctrls apart: that of an AltGr comes just before it, and
the user's is not down then.  Queueing and SentInside say which
messages are incomplete, FocusTold where the focus is and what is sent
when it moves, and Texts how far a press and its characters are.

It is of users, systems and programs that do not move the focus or send
keys between a press and its characters, nor mix AltGr with Ctrl or the
focus (Typable); the others break it.
*)
EXTENDS MCWin32Input, SequenceTheorems, FiniteSetTheorems,
        WellFoundedInduction, TLAPS

Pressable == {k \in Keyboard!Keys : Kinds[k] # "sent"}
SentKeys == Keyboard!KeysOf("sent")
AltGrs == Keyboard!KeysOf("altgr")

KeyFrames == [kind : {"keydown", "keyup", "char"}, key : Keyboard!Keys, token : Nat]
InputMessages == [kind : {"keydown", "keyup"}, key : Pressable]
CharMessages == [kind : {"char", "deadchar"}, key : Pressable]
SentPresses == [kind : {"keydown", "keyup"}, key : SentKeys]
FocusMessages == [kind : {"active", "inactive", "setfocus", "killfocus"}, key : {None}]
KeyEvents == [key : Keyboard!Keys, state : {"pressed", "released"}, is_synthetic : BOOLEAN, chars : Nat]
PendingEntries == [token : Nat, event : {None} \cup KeyEvents]
Infos == [key : Keyboard!Keys, chars : Nat]

\* A keyboard with one Ctrl and at most one AltGr, and a user, a system and programs that
\* do not come between a press and its characters, nor mix AltGr with Ctrl or the focus.
Typable ==
  /\ IsFiniteSet(Keyboard!Keys)
  /\ \A k \in Keyboard!Keys : Kinds[k] \in {"letter", "pair", "dead", "ctrl", "altgr", "sent"}
  /\ \E c \in Keyboard!Keys : \A k \in Keyboard!Keys : Kinds[k] = "ctrl" <=> k = c
  /\ \A j, k \in AltGrs : j = k
  /\ None \notin KeyEvents /\ None \notin Infos
  /\ \A x \in KeyEnvironments :
       x.steals = "between" /\ x.holds = FALSE /\ x.mixes = FALSE /\ x.sends \in {"never", "between"}

KeysTyped ==
  /\ nested \in Seq(KeyFrames) /\ pending \in Seq(PendingEntries) /\ next_id \in Nat
  /\ event_info \in {None} \cup Infos
  /\ input \in Seq(InputMessages) /\ posted \in Seq(CharMessages)
  /\ sent \in Seq(SentPresses \cup FocusMessages)
  /\ kbd_state \subseteq Pressable /\ down \subseteq Pressable /\ app_down \subseteq Keyboard!Keys
  /\ heard \in Seq(KeyEvents)
  /\ env \in KeyEnvironments
  /\ is_active \in BOOLEAN /\ is_focused \in BOOLEAN /\ foreground \in BOOLEAN

\* The message that was begun first.
Outermost == nested[Len(nested)]

\* Messages wait in the queue in the order in which they began, the complete ones too,
\* and the first is the one that was begun first.
Queueing ==
  /\ \A i, j \in DOMAIN pending : i < j => pending[i].token < pending[j].token
  /\ \A i \in DOMAIN pending : pending[i].token < next_id
  /\ \A i, j \in DOMAIN nested : i < j => nested[i].token > nested[j].token
  /\ \A i \in DOMAIN pending : pending[i].event = None =>
       \E j \in DOMAIN nested : nested[j].token = pending[i].token
  /\ \A j \in DOMAIN nested :
       \E i \in DOMAIN pending : pending[i].token = nested[j].token /\ pending[i].event = None
  /\ nested = <<>> => pending = <<>>
  /\ nested # <<>> => pending # <<>> /\ pending[1].token = Outermost.token
  /\ ~panicked
  /\ heard # <<>> => nested = <<>>

\* Messages begun inside another were sent.
SentInside ==
  \A i \in DOMAIN nested : i < Len(nested) => nested[i].key \in SentKeys /\ nested[i].kind # "char"

\* A press and its characters: none is under way, or its characters have just been
\* posted, or some of them have been put together.
Units(k) == CASE Kinds[k] = "letter" -> 1 [] Kinds[k] = "pair" -> 2 [] OTHER -> 0
Textual == {"letter", "pair", "dead"}
Wordless ==
  /\ posted = <<>> /\ event_info = None
  /\ nested # <<>> => /\ Outermost.kind # "char"
                      /\ Outermost.kind = "keydown" => Kinds[Outermost.key] \notin Textual
Translated ==
  /\ nested # <<>> /\ Outermost.kind = "keydown"
  /\ posted # <<>> /\ posted = Keyboard!Characters(Outermost)
  /\ sent \in Seq(SentPresses)
Spelling ==
  /\ event_info # None /\ event_info.key \in Pressable
  /\ \/ nested = <<>> /\ posted # <<>>
     \/ Len(nested) = 1 /\ nested[1].kind = "char" /\ nested[1].key = event_info.key
  /\ \/ /\ \A i \in DOMAIN posted : posted[i] = Keyboard!Message("char", event_info.key)
        /\ event_info.chars + Len(posted) = Units(event_info.key)
     \/ /\ posted = <<Keyboard!Message("deadchar", event_info.key)>>
        /\ event_info.chars = 0 /\ nested = <<>> /\ Kinds[event_info.key] = "dead"

\* What the queue will tell of a key.
Spoken(q, k) == \E i \in DOMAIN q : q[i].event # None /\ q[i].event.key = k
SpokenDown(q, k) ==
  \E i \in DOMAIN q :
    /\ q[i].event # None /\ q[i].event.key = k /\ q[i].event.state = "pressed"
    /\ \A j \in DOMAIN q : j > i => q[j].event = None \/ q[j].event.key # k

WholeText(e) == e.state = "pressed" /\ ~e.is_synthetic => e.chars = Units(e.key)
Texts ==
  /\ Wordless \/ Translated \/ Spelling
  /\ event_info # None => sent = <<>>
  /\ posted # <<>> \/ event_info # None => \A k \in Pressable : ~Spoken(pending, k)
  /\ \A i \in DOMAIN heard : WholeText(heard[i])
  /\ \A i \in DOMAIN pending : pending[i].event # None => WholeText(pending[i].event)

\* Where the focus is, and who knows of it.
Focused == sent \in Seq(SentPresses) /\ foreground /\ is_active /\ is_focused
Gaining == /\ sent = <<Keyboard!Message("active", None), Keyboard!Message("setfocus", None)>>
           /\ foreground /\ ~is_active /\ ~is_focused
Gained == /\ sent # <<>> /\ Head(sent) = Keyboard!Message("setfocus", None)
          /\ Tail(sent) \in Seq(SentPresses) /\ foreground /\ is_active /\ ~is_focused
Losing == /\ sent = <<Keyboard!Message("inactive", None), Keyboard!Message("killfocus", None)>>
          /\ ~foreground /\ is_active /\ is_focused
Lost == sent = <<Keyboard!Message("killfocus", None)>> /\ ~foreground /\ ~is_active /\ is_focused
Unfocused == sent = <<>> /\ ~foreground /\ ~is_active /\ ~is_focused
FocusTold ==
  /\ Focused \/ Gaining \/ Gained \/ Losing \/ Lost \/ Unfocused
  /\ ~foreground => input = <<>>
  /\ modifiers_state = IF is_active /\ is_focused THEN Keyboard!AgnosticMods(kbd_state) ELSE {}
  /\ app_modifiers = modifiers_state

\* Whether a key is down once the first n messages have been retrieved.
DownAt(keys, s, n, k) ==
  \/ \E i \in 1 .. n : s[i].key = k /\ s[i].kind = "keydown" /\ \A j \in i + 1 .. n : s[j].key # k
  \/ k \in keys /\ \A i \in 1 .. n : s[i].key # k

\* The messages of the queue lead to the keys that are held, and AltGr comes with a Ctrl
\* of its own, which is not held otherwise.
FakeAt(s, i) == i < Len(s) /\ s[i].key = Keyboard!Ctrl /\ s[i + 1].key \in AltGrs
AltGrAt(keys, s, n) == \E k \in AltGrs : DownAt(keys, s, n, k)
Leading ==
  foreground => \A k \in Pressable :
    Focused \/ (\E i \in DOMAIN input : input[i].key = k)
      => (DownAt(kbd_state, input, Len(input), k) <=> k \in Keyboard!Async)
Paired ==
  /\ \A i \in DOMAIN input : i > 1 /\ input[i].key \in AltGrs =>
       input[i - 1] = Keyboard!Message(input[i].kind, Keyboard!Ctrl)
  /\ input # <<>> /\ input[1].key \in AltGrs => (input[1].kind = "keydown" <=> Keyboard!Ctrl \in kbd_state)
Apiece ==
  /\ \A k \in AltGrs : k \in down => Keyboard!Ctrl \notin down
  /\ \A i \in DOMAIN input : FakeAt(input, i) /\ input[i].kind = "keydown" =>
       ~DownAt(kbd_state, input, i - 1, Keyboard!Ctrl) \/ AltGrAt(kbd_state, input, i - 1)
  /\ \A i \in DOMAIN input : FakeAt(input, i) /\ input[i].kind = "keyup" =>
       AltGrAt(kbd_state, input, i - 1)
  /\ Focused => \A i \in DOMAIN input :
       ~FakeAt(input, i) /\ input[i].key = Keyboard!Ctrl /\ input[i].kind = "keydown" =>
         ~AltGrAt(kbd_state, input, i - 1)
  /\ Gaining \/ Gained => down \cap AltGrs = {} /\ \A i \in DOMAIN input : input[i].key \notin AltGrs

\* What the application will have been told of a key when what waits in the queue and
\* what is under way has been told.
NextIsAltGr == posted = <<>> /\ input # <<>> /\ input[1].key \in AltGrs
Underway(k) ==
  nested # <<>> /\ Outermost.kind # "char" /\ Outermost.key = k /\ ~(k = Keyboard!Ctrl /\ NextIsAltGr)
Outlook(k) ==
  IF Spoken(pending, k) THEN SpokenDown(pending, k)
  ELSE IF Spelling /\ event_info.key = k THEN TRUE
  ELSE IF Underway(k) THEN Outermost.kind = "keydown"
  ELSE k \in app_down

\* The Ctrl of an AltGr is not the user's.
Beside ==
  \/ kbd_state \cap AltGrs # {}
  \/ input # <<>> /\ input[1].key \in AltGrs /\ input[1].kind = "keydown"
Meant(k) == k \in kbd_state /\ ~(k = Keyboard!Ctrl /\ Beside)
Truthful ==
  \A k \in Pressable :
    /\ Focused => (Outlook(k) <=> Meant(k))
    /\ Losing \/ Lost => (Outlook(k) => k \in kbd_state)
    /\ Gaining \/ Gained \/ Unfocused => ~Outlook(k)
    /\ Focused /\ nested # <<>> /\ Outermost.kind # "char" /\ Outermost.key = k /\ ~Spoken(pending, k) =>
         (Outermost.kind = "keydown" <=> k \in kbd_state)

KeyInv == KeysTyped /\ Queueing /\ SentInside /\ Texts /\ FocusTold /\ Leading /\ Paired /\ Apiece /\ Truthful

----
(* Messages and events one after the other *)

\* Before the first message.
LEMMA DownAtFirst ==
  ASSUME NEW keys, NEW s, NEW k
  PROVE  DownAt(keys, s, 0, k) <=> k \in keys
BY DEF DownAt

\* A message that follows changes nothing of those before it.
LEMMA DownAtBefore ==
  ASSUME NEW keys, NEW s \in Seq(InputMessages), NEW m \in InputMessages, NEW n \in 0 .. Len(s), NEW k
  PROVE  DownAt(keys, Append(s, m), n, k) <=> DownAt(keys, s, n, k)
<1>1. \A i \in 1 .. n : Append(s, m)[i] = s[i]
  OBVIOUS
<1>2. \A i \in 1 .. n : \A j \in i + 1 .. n : Append(s, m)[j] = s[j]
  BY <1>1
<1> DEFINE t == Append(s, m)
<1> HIDE DEF t
<1>3. (\E i \in 1 .. n : t[i].key = k /\ t[i].kind = "keydown" /\ \A j \in i + 1 .. n : t[j].key # k)
        <=> (\E i \in 1 .. n : s[i].key = k /\ s[i].kind = "keydown" /\ \A j \in i + 1 .. n : s[j].key # k)
  BY <1>1, <1>2 DEF t
<1>4. (\A i \in 1 .. n : t[i].key # k) <=> (\A i \in 1 .. n : s[i].key # k)
  BY <1>1 DEF t
<1> QED BY <1>3, <1>4 DEF DownAt, t

\* It decides about its own key.
LEMMA DownAtAfter ==
  ASSUME NEW keys, NEW s \in Seq(InputMessages), NEW m \in InputMessages, NEW k
  PROVE  DownAt(keys, Append(s, m), Len(s) + 1, k) <=>
           IF m.key = k THEN m.kind = "keydown" ELSE DownAt(keys, s, Len(s), k)
<1> DEFINE n == Len(s)
           t == Append(s, m)
<1>1. n \in Nat /\ t[n + 1] = m /\ n + 1 \in 1 .. n + 1
  OBVIOUS
<1>2. \A i \in 1 .. n : t[i] = s[i] /\ i \in 1 .. n + 1 /\ n + 1 \in i + 1 .. n + 1
  BY <1>1
<1>3. \A i \in 1 .. n + 1 : i \in 1 .. n \/ i = n + 1
  BY <1>1
<1>4. \A i \in 1 .. n : \A j \in i + 1 .. n + 1 : j = n + 1 \/ (j \in i + 1 .. n /\ t[j] = s[j])
  BY <1>1, <1>2
<1>5. \A i \in 1 .. n : \A j \in i + 1 .. n : j \in i + 1 .. n + 1
  BY <1>1
<1>6. \A j \in n + 2 .. n + 1 : FALSE
  BY <1>1
<1>7. n + 1 + 1 = n + 2
  BY <1>1
<1> HIDE DEF n, t
<1>8. CASE m.key = k
  <2>1. ~(\A i \in 1 .. n + 1 : t[i].key # k)
    BY <1>1, <1>8
  <2>2. \A i \in 1 .. n : ~(\A j \in i + 1 .. n + 1 : t[j].key # k)
    BY <1>1, <1>2, <1>8
  <2>3. (\E i \in 1 .. n + 1 : t[i].key = k /\ t[i].kind = "keydown" /\ \A j \in i + 1 .. n + 1 : t[j].key # k)
          <=> m.kind = "keydown"
    BY <1>1, <1>3, <1>6, <1>7, <1>8, <2>2
  <2> QED BY <1>8, <2>1, <2>3 DEF DownAt, n, t
<1>9. CASE m.key # k
  <2>1. (\A i \in 1 .. n + 1 : t[i].key # k) <=> (\A i \in 1 .. n : s[i].key # k)
    BY <1>1, <1>2, <1>3, <1>9
  <2>2. \A i \in 1 .. n : (\A j \in i + 1 .. n + 1 : t[j].key # k) <=> (\A j \in i + 1 .. n : s[j].key # k)
    <3> SUFFICES ASSUME NEW i \in 1 .. n
                 PROVE (\A j \in i + 1 .. n + 1 : t[j].key # k) <=> (\A j \in i + 1 .. n : s[j].key # k)
      OBVIOUS
    <3>1. \A j \in i + 1 .. n : j \in i + 1 .. n + 1 /\ t[j] = s[j]
      <4>1. \A j \in i + 1 .. n : j \in 1 .. n
        BY <1>1
      <4> QED BY <1>2, <1>5, <4>1
    <3>2. \A j \in i + 1 .. n + 1 : t[j].key = k => j \in i + 1 .. n
      BY <1>1, <1>4, <1>9
    <3> QED BY <3>1, <3>2
  <2>3. (\E i \in 1 .. n + 1 : t[i].key = k /\ t[i].kind = "keydown" /\ \A j \in i + 1 .. n + 1 : t[j].key # k)
          <=> (\E i \in 1 .. n : s[i].key = k /\ s[i].kind = "keydown" /\ \A j \in i + 1 .. n : s[j].key # k)
    BY <1>1, <1>2, <1>3, <1>9, <2>2
  <2> QED BY <1>9, <2>1, <2>3 DEF DownAt, n, t
<1> QED BY <1>8, <1>9

\* What GetKeyboardState shows when the first message is retrieved.
Retrieved(keys, m) == IF m.kind = "keydown" THEN keys \cup {m.key} ELSE keys \ {m.key}
LEMMA DownAtTail ==
  ASSUME NEW keys, NEW s \in Seq(InputMessages), s # <<>>, NEW n \in 0 .. Len(s) - 1, NEW k
  PROVE  DownAt(Retrieved(keys, Head(s)), Tail(s), n, k) <=> DownAt(keys, s, n + 1, k)
<1> DEFINE t == Tail(s)
           m == Head(s)
<1>1. n \in Nat /\ Len(s) \in Nat /\ m = s[1] /\ m \in InputMessages
  OBVIOUS
<1>2. \A i \in 1 .. n : t[i] = s[i + 1] /\ i + 1 \in 1 .. n + 1
  BY <1>1
<1>3. \A i \in 1 .. n + 1 : i = 1 \/ (i - 1 \in 1 .. n /\ (i - 1) + 1 = i)
  BY <1>1
<1>4. 1 \in 1 .. n + 1
  BY <1>1
<1>5. \A i \in 1 .. n : \A j \in i + 1 .. n : j \in 1 .. n /\ j + 1 \in (i + 1) + 1 .. n + 1
  BY <1>1
<1>6. \A i \in 1 .. n : \A j \in (i + 1) + 1 .. n + 1 : j - 1 \in i + 1 .. n /\ j - 1 \in 1 .. n /\ (j - 1) + 1 = j
  BY <1>1
<1>7. /\ \A j \in 1 + 1 .. n + 1 : j - 1 \in 1 .. n /\ (j - 1) + 1 = j
      /\ \A j \in 1 .. n : j + 1 \in 1 + 1 .. n + 1
  BY <1>1
<1> HIDE DEF t, m
<1>8. \A i \in 1 .. n : (\A j \in i + 1 .. n : t[j].key # k) <=> (\A j \in (i + 1) + 1 .. n + 1 : s[j].key # k)
  <2> SUFFICES ASSUME NEW i \in 1 .. n
               PROVE (\A j \in i + 1 .. n : t[j].key # k) <=> (\A j \in (i + 1) + 1 .. n + 1 : s[j].key # k)
    OBVIOUS
  <2>1. \A j \in i + 1 .. n : t[j] = s[j + 1] /\ j + 1 \in (i + 1) + 1 .. n + 1
    BY <1>2, <1>5
  <2>2. \A j \in (i + 1) + 1 .. n + 1 : j - 1 \in i + 1 .. n /\ t[j - 1] = s[j]
    BY <1>2, <1>6
  <2> QED BY <2>1, <2>2
<1>9. (\A j \in 1 .. n : t[j].key # k) <=> (\A j \in 1 + 1 .. n + 1 : s[j].key # k)
  <2>1. \A j \in 1 .. n : t[j] = s[j + 1] /\ j + 1 \in 1 + 1 .. n + 1
    BY <1>2, <1>7
  <2>2. \A j \in 1 + 1 .. n + 1 : j - 1 \in 1 .. n /\ t[j - 1] = s[j]
    BY <1>2, <1>7
  <2> QED BY <2>1, <2>2
<1> DEFINE later == \E i \in 1 .. n : t[i].key = k /\ t[i].kind = "keydown" /\ \A j \in i + 1 .. n : t[j].key # k
           none == \A j \in 1 .. n : t[j].key # k
<1>10. (\E i \in 1 .. n + 1 : s[i].key = k /\ s[i].kind = "keydown" /\ \A j \in i + 1 .. n + 1 : s[j].key # k)
         <=> later \/ (m.key = k /\ m.kind = "keydown" /\ none)
  <2>1. ASSUME NEW i \in 1 .. n + 1, s[i].key = k, s[i].kind = "keydown", \A j \in i + 1 .. n + 1 : s[j].key # k
        PROVE  later \/ (m.key = k /\ m.kind = "keydown" /\ none)
    <3>1. CASE i = 1
      BY <1>1, <1>9, <2>1, <3>1
    <3>2. CASE i # 1
      <4>1. i - 1 \in 1 .. n /\ (i - 1) + 1 = i /\ t[i - 1] = s[i]
        BY <1>2, <1>3, <3>2
      <4>2. \A j \in (i - 1) + 1 .. n : t[j].key # k
        BY <1>8, <2>1, <4>1
      <4> QED BY <2>1, <4>1, <4>2
    <3> QED BY <3>1, <3>2
  <2>2. ASSUME NEW i \in 1 .. n, t[i].key = k, t[i].kind = "keydown", \A j \in i + 1 .. n : t[j].key # k
        PROVE  \E l \in 1 .. n + 1 : s[l].key = k /\ s[l].kind = "keydown" /\ \A j \in l + 1 .. n + 1 : s[j].key # k
    BY <1>2, <1>8, <2>2
  <2>3. ASSUME m.key = k, m.kind = "keydown", none
        PROVE  \E l \in 1 .. n + 1 : s[l].key = k /\ s[l].kind = "keydown" /\ \A j \in l + 1 .. n + 1 : s[j].key # k
    BY <1>1, <1>4, <1>9, <2>3
  <2> QED BY <2>1, <2>2, <2>3
<1>11. (\A i \in 1 .. n + 1 : s[i].key # k) <=> m.key # k /\ none
  <2>1. ASSUME \A i \in 1 .. n + 1 : s[i].key # k PROVE m.key # k /\ none
    BY <1>1, <1>2, <1>4, <2>1
  <2>2. ASSUME m.key # k, none, NEW i \in 1 .. n + 1 PROVE s[i].key # k
    BY <1>1, <1>2, <1>3, <2>2
  <2> QED BY <2>1, <2>2
<1> DEFINE left == Retrieved(keys, m)
<1>12. k \in left <=> IF m.key = k THEN m.kind = "keydown" ELSE k \in keys
  BY DEF Retrieved
<1>13. later => ~none
  OBVIOUS
<1>14. DownAt(left, t, n, k) <=> later \/ (k \in left /\ none)
  BY DEF DownAt
<1>15. DownAt(keys, s, n + 1, k) <=> later \/ (m.key = k /\ m.kind = "keydown" /\ none) \/ (k \in keys /\ m.key # k /\ none)
  BY <1>10, <1>11 DEF DownAt
<1> HIDE DEF later, none, left
<1>16. DownAt(left, t, n, k) <=> DownAt(keys, s, n + 1, k)
  BY <1>12, <1>14, <1>15
<1> QED BY <1>16 DEF left, m, t

\* What the application takes to be down after some events.
LEMMA AfterIs ==
  ASSUME NEW keys, NEW events \in Seq(KeyEvents), NEW k
  PROVE  k \in Keyboard!After(keys, events) <=>
           \/ k \in keys /\ \A i \in DOMAIN events : events[i].key # k
           \/ \E i \in DOMAIN events : /\ events[i].key = k /\ events[i].state = "pressed"
                                       /\ \A j \in DOMAIN events : j > i => events[j].key # k
BY DEF Keyboard!After

LEMMA NothingHeard ==
  ASSUME NEW keys
  PROVE  Keyboard!After(keys, <<>>) = keys
BY DEF Keyboard!After

\* A finite set put in some order.
LEMMA OrderIs ==
  ASSUME NEW S, IsFiniteSet(S)
  PROVE  /\ Keyboard!SetToSeq(S) \in Seq(S)
         /\ \A i, j \in DOMAIN Keyboard!SetToSeq(S) :
              Keyboard!SetToSeq(S)[i] = Keyboard!SetToSeq(S)[j] => i = j
         /\ \A x \in S : \E i \in DOMAIN Keyboard!SetToSeq(S) : Keyboard!SetToSeq(S)[i] = x
<1> DEFINE n == Cardinality(S)
           o == Keyboard!SetToSeq(S)
<1>1. Keyboard!Cardinality(S) = n
  BY DEF Keyboard!Cardinality, Cardinality
<1>2. n \in Nat /\ ExistsBijection(1 .. n, S)
  BY FS_CardinalityType
<1>3. PICK f : f \in Bijection(1 .. n, S)
  BY <1>2 DEF ExistsBijection
<1>4. f \in [1 .. n -> S] /\ Keyboard!IsInjective(f)
  <2>1. f \in Injection(1 .. n, S)
    BY <1>3 DEF Bijection
  <2>2. f \in [1 .. n -> S] /\ \A a, b \in 1 .. n : f[a] = f[b] => a = b
    BY <2>1 DEF Injection, IsInjective
  <2> QED BY <2>2 DEF Keyboard!IsInjective
<1>5. o \in [1 .. n -> S] /\ Keyboard!IsInjective(o)
  BY <1>1, <1>4 DEF Keyboard!SetToSeq
<1> HIDE DEF o
<1>6. o \in Injection(1 .. n, S)
  BY <1>5 DEF Keyboard!IsInjective, Injection, IsInjective
<1>7. Cardinality(1 .. n) = n
  BY <1>2, FS_Interval
<1>8. o \in Surjection(1 .. n, S)
  BY <1>6, <1>7, FS_Injection
<1>9. \A x \in S : \E i \in 1 .. n : o[i] = x
  BY <1>8 DEF Surjection
<1>10. DOMAIN o = 1 .. n
  BY <1>5
<1>11. o \in Seq(S)
  BY <1>2, <1>5
<1>12. \A i, j \in DOMAIN o : o[i] = o[j] => i = j
  BY <1>5 DEF Keyboard!IsInjective
<1> QED BY <1>9, <1>10, <1>11, <1>12 DEF o

\* The events of a focus change: one of each key.
LEMMA SynthesizedIs ==
  ASSUME NEW keys, IsFiniteSet(keys), keys \subseteq Keyboard!Keys, NEW state \in {"pressed", "released"}
  PROVE  /\ Keyboard!Synthesized(keys, state) \in Seq(KeyEvents)
         /\ \A i \in DOMAIN Keyboard!Synthesized(keys, state) :
              /\ Keyboard!Synthesized(keys, state)[i].key \in keys
              /\ Keyboard!Synthesized(keys, state)[i].state = state
              /\ WholeText(Keyboard!Synthesized(keys, state)[i])
         /\ \A i, j \in DOMAIN Keyboard!Synthesized(keys, state) :
              Keyboard!Synthesized(keys, state)[i].key = Keyboard!Synthesized(keys, state)[j].key => i = j
         /\ \A k \in keys : \E i \in DOMAIN Keyboard!Synthesized(keys, state) :
              Keyboard!Synthesized(keys, state)[i].key = k
<1> DEFINE o == Keyboard!SetToSeq(keys)
           e == Keyboard!Synthesized(keys, state)
<1>1. /\ o \in Seq(keys)
      /\ \A i, j \in DOMAIN o : o[i] = o[j] => i = j
      /\ \A x \in keys : \E i \in DOMAIN o : o[i] = x
  BY OrderIs
<1>2. e = [i \in DOMAIN o |-> Keyboard!KeyEvent(o[i], state, TRUE, 0)]
  BY DEF Keyboard!Synthesized
<1> HIDE DEF o, e
<1>3. \A i \in DOMAIN o : o[i] \in keys
  BY <1>1
<1>4. DOMAIN e = DOMAIN o
  BY <1>2
<1>5. \A i \in DOMAIN e : e[i] = Keyboard!KeyEvent(o[i], state, TRUE, 0)
  BY <1>2, <1>4
<1>6. \A i \in DOMAIN e : e[i].key = o[i] /\ e[i].state = state /\ e[i].is_synthetic = TRUE /\ e[i] \in KeyEvents
  <2> SUFFICES ASSUME NEW i \in DOMAIN e
               PROVE  e[i].key = o[i] /\ e[i].state = state /\ e[i].is_synthetic = TRUE /\ e[i] \in KeyEvents
    OBVIOUS
  <2>1. o[i] \in Keyboard!Keys
    BY <1>3, <1>4
  <2>2. e[i] = [key |-> o[i], state |-> state, is_synthetic |-> TRUE, chars |-> 0]
    BY <1>5 DEF Keyboard!KeyEvent
  <2> QED BY <2>1, <2>2 DEF KeyEvents
<1>7. e \in Seq(KeyEvents)
  <2>1. DOMAIN o = 1 .. Len(o) /\ Len(o) \in Nat
    BY <1>1
  <2> DEFINE n == Len(o)
  <2> HIDE DEF n
  <2>2. n \in Nat /\ e = [i \in 1 .. n |-> Keyboard!KeyEvent(o[i], state, TRUE, 0)]
    BY <1>2, <2>1 DEF n
  <2>3. e \in [1 .. n -> KeyEvents]
    BY <1>4, <1>6, <2>2
  <2>4. n \in Nat
    BY <2>2
  <2> QED BY <2>3, <2>4, SeqDef
<1>8. \A i \in DOMAIN e : WholeText(e[i])
  BY <1>6 DEF WholeText
<1>9. /\ \A i \in DOMAIN e : e[i].key \in keys /\ e[i].state = state /\ WholeText(e[i])
      /\ \A i, j \in DOMAIN e : e[i].key = e[j].key => i = j
      /\ \A k \in keys : \E i \in DOMAIN e : e[i].key = k
  BY <1>1, <1>3, <1>4, <1>6, <1>8
<1> QED BY <1>7, <1>9 DEF e

----
(* PendingEventQueue *)

\* What Typable says of the keys.
LEMMA KeyFacts ==
  ASSUME Typable
  PROVE  /\ Keyboard!Ctrl \in Keyboard!Keys /\ Kinds[Keyboard!Ctrl] = "ctrl" /\ Keyboard!Ctrl \in Pressable
         /\ \A k \in Keyboard!Keys : Kinds[k] = "ctrl" <=> k = Keyboard!Ctrl
         /\ \A k : k \in AltGrs <=> k \in Keyboard!Keys /\ Kinds[k] = "altgr"
         /\ AltGrs \subseteq Pressable /\ Keyboard!Ctrl \notin AltGrs
         /\ \A k : k \in SentKeys <=> k \in Keyboard!Keys /\ Kinds[k] = "sent"
         /\ SentKeys \cap Pressable = {} /\ SentKeys \subseteq Keyboard!Keys /\ Pressable \subseteq Keyboard!Keys
         /\ \A k \in Keyboard!Keys : k \in SentKeys \/ k \in Pressable
         /\ \A S : S \subseteq Pressable => IsFiniteSet(S)
<1>1. PICK c \in Keyboard!Keys : \A k \in Keyboard!Keys : Kinds[k] = "ctrl" <=> k = c
  BY DEF Typable
<1>2. Keyboard!Ctrl = c
  BY <1>1 DEF Keyboard!Ctrl
<1>3. \A k : k \in AltGrs <=> k \in Keyboard!Keys /\ Kinds[k] = "altgr"
  BY DEF AltGrs, Keyboard!KeysOf
<1>4. \A k : k \in SentKeys <=> k \in Keyboard!Keys /\ Kinds[k] = "sent"
  BY DEF SentKeys, Keyboard!KeysOf
<1>5. \A k : k \in Pressable <=> k \in Keyboard!Keys /\ Kinds[k] # "sent"
  BY DEF Pressable
<1>6. \A S : S \subseteq Pressable => IsFiniteSet(S)
  <2> SUFFICES ASSUME NEW S, S \subseteq Pressable PROVE IsFiniteSet(S)
    OBVIOUS
  <2>1. IsFiniteSet(Keyboard!Keys) /\ S \subseteq Keyboard!Keys
    BY <1>5 DEF Typable
  <2> QED BY <2>1, FS_Subset
<1>7. Kinds[c] = "ctrl"
  BY <1>1
<1> QED BY <1>1, <1>2, <1>3, <1>4, <1>5, <1>6, <1>7

\* The messages under way, the innermost one first.
LEMMA UnderwayIs ==
  ASSUME Typable, KeysTyped, Queueing, SentInside, nested # <<>>
  PROVE  /\ Head(nested) = nested[1] /\ Head(nested) \in KeyFrames /\ Len(nested) \in Nat \ {0}
         /\ Outermost \in KeyFrames
         /\ Tail(nested) \in Seq(KeyFrames) /\ Len(Tail(nested)) = Len(nested) - 1
         /\ \A i \in DOMAIN Tail(nested) : Tail(nested)[i] = nested[i + 1] /\ i + 1 \in DOMAIN nested
         /\ Len(nested) = 1 => Tail(nested) = <<>> /\ Outermost = Head(nested)
         /\ Len(nested) # 1 => /\ Tail(nested) # <<>> /\ Tail(nested)[Len(Tail(nested))] = Outermost
                               /\ Head(nested).key \in SentKeys /\ Head(nested).kind # "char"
         /\ pending # <<>> /\ (pending[1].token = Head(nested).token <=> Len(nested) = 1)
         /\ \E i \in DOMAIN pending : pending[i].token = Head(nested).token /\ pending[i].event = None
<1> DEFINE n == Len(nested)
<1>1. nested \in Seq(KeyFrames)
  BY DEF KeysTyped
<1>2. /\ Head(nested) = nested[1] /\ n \in Nat \ {0} /\ DOMAIN nested = 1 .. n
      /\ \A i \in 1 .. n : nested[i] \in KeyFrames
      /\ Tail(nested) \in Seq(KeyFrames) /\ Len(Tail(nested)) = n - 1 /\ DOMAIN Tail(nested) = 1 .. n - 1
      /\ \A i \in 1 .. n - 1 : Tail(nested)[i] = nested[i + 1]
  BY <1>1
<1>3. 1 \in 1 .. n /\ n \in 1 .. n /\ \A i \in 1 .. n - 1 : i + 1 \in 1 .. n
  BY <1>2
<1>4. pending # <<>> /\ pending[1].token = Outermost.token
  BY DEF Queueing
<1>5. \E i \in DOMAIN pending : pending[i].token = nested[1].token /\ pending[i].event = None
  BY <1>2, <1>3 DEF Queueing
<1>6. CASE n = 1
  <2>1. Tail(nested) = <<>>
    BY <1>2, <1>6, EmptySeq
  <2>2. Outermost = nested[1]
    BY <1>6 DEF Outermost
  <2> QED BY <1>2, <1>3, <1>4, <1>5, <1>6, <2>1, <2>2
<1>7. CASE n # 1
  <2>1. n > 1 /\ 1 < n /\ n - 1 \in 1 .. n - 1 /\ (n - 1) + 1 = n
    BY <1>2, <1>7
  <2>2. Tail(nested)[n - 1] = Outermost
    BY <1>2, <2>1 DEF Outermost
  <2>3. Tail(nested) # <<>>
    <3>1. Len(Tail(nested)) # 0
      BY <1>2, <2>1
    <3> QED BY <3>1, EmptySeq
  <2>4. nested[1].key \in SentKeys /\ nested[1].kind # "char"
    BY <1>2, <1>3, <2>1 DEF SentInside
  <2>5. nested[1].token > nested[n].token /\ nested[1].token \in Nat /\ nested[n].token \in Nat
    BY <1>2, <1>3, <2>1 DEF Queueing, KeyFrames
  <2>6. Outermost = nested[n]
    BY DEF Outermost
  <2>7. pending[1].token # nested[1].token
    BY <1>4, <2>5, <2>6
  <2> QED BY <1>2, <1>3, <1>4, <1>5, <1>7, <2>2, <2>3, <2>4, <2>6, <2>7
<1> QED BY <1>6, <1>7

\* The entries of the queue.
LEMMA PendingIs ==
  ASSUME KeysTyped, Queueing
  PROVE  /\ Len(pending) \in Nat /\ DOMAIN pending = 1 .. Len(pending)
         /\ \A i \in DOMAIN pending : /\ pending[i] \in PendingEntries /\ pending[i].token \in Nat
                                      /\ pending[i].event \in {None} \cup KeyEvents
         /\ \A i, j \in DOMAIN pending : pending[i].token = pending[j].token => i = j
<1>1. pending \in Seq(PendingEntries)
  BY DEF KeysTyped
<1>2. Len(pending) \in Nat /\ DOMAIN pending = 1 .. Len(pending) /\ \A i \in DOMAIN pending : pending[i] \in PendingEntries
  BY <1>1
<1>3. \A i \in DOMAIN pending : pending[i].token \in Nat /\ pending[i].event \in {None} \cup KeyEvents
  BY <1>2 DEF PendingEntries
<1>4. \A i, j \in DOMAIN pending : pending[i].token = pending[j].token => i = j
  <2> SUFFICES ASSUME NEW i \in DOMAIN pending, NEW j \in DOMAIN pending, pending[i].token = pending[j].token, i # j
               PROVE  FALSE
    OBVIOUS
  <2>1. i \in Nat /\ j \in Nat
    BY <1>2
  <2>2. i < j \/ j < i
    BY <2>1
  <2>3. pending[i].token < pending[j].token \/ pending[j].token < pending[i].token
    BY <2>2 DEF Queueing
  <2> QED BY <1>3, <2>3
<1> QED BY <1>2, <1>3, <1>4

\* With one message under way, nothing else in the queue is incomplete.
LEMMA OneIncomplete ==
  ASSUME Typable, KeysTyped, Queueing, SentInside, nested # <<>>, Len(nested) = 1
  PROVE  /\ 1 \in DOMAIN pending
         /\ \A i \in DOMAIN pending : pending[i].event = None <=> i = 1
<1>1. nested \in Seq(KeyFrames) /\ DOMAIN nested = {1} /\ Outermost = nested[1]
  <2>1. nested \in Seq(KeyFrames)
    BY DEF KeysTyped
  <2> QED BY <2>1 DEF Outermost
<1>2. pending # <<>> /\ pending[1].token = nested[1].token
  BY <1>1 DEF Queueing
<1>3. 1 \in DOMAIN pending
  BY <1>2, PendingIs
<1>4. \A i \in DOMAIN pending : pending[i].event = None => pending[i].token = nested[1].token
  BY <1>1 DEF Queueing
<1>5. PICK i \in DOMAIN pending : pending[i].token = nested[1].token /\ pending[i].event = None
  BY <1>1 DEF Queueing
<1> QED BY <1>2, <1>3, <1>4, <1>5, PendingIs

\* The last message under way is complete: all is told, the others after it.
ToldOf(k, dflt) == IF Spoken(pending, k) THEN SpokenDown(pending, k) ELSE dflt
LEMMA CompletesLast ==
  ASSUME Typable, KeysTyped, Queueing, SentInside, nested # <<>>, Len(nested) = 1, NEW e \in KeyEvents,
         \A i \in DOMAIN pending : pending[i].event # None => WholeText(pending[i].event), WholeText(e),
         Keyboard!CompletePending(Head(nested).token, e)
  PROVE  /\ pending' = <<>> /\ panicked' = panicked /\ heard' \in Seq(KeyEvents) /\ app_down' \subseteq Keyboard!Keys
         /\ \A i \in DOMAIN heard' : WholeText(heard'[i])
         /\ \A k : k \in app_down' <=> ToldOf(k, IF e.key = k THEN e.state = "pressed" ELSE k \in app_down)
<1> DEFINE token == Head(nested).token
           c == [i \in DOMAIN pending |->
                   IF pending[i].token = token THEN [pending[i] EXCEPT !.event = e] ELSE pending[i]]
           es == Keyboard!Events(c)
<1>1. /\ 1 \in DOMAIN pending /\ \A i \in DOMAIN pending : pending[i].event = None <=> i = 1
  BY OneIncomplete
<1>2. pending # <<>> /\ pending[1].token = token
  BY UnderwayIs
<1>3. /\ Len(pending) \in Nat /\ DOMAIN pending = 1 .. Len(pending)
      /\ \A i \in DOMAIN pending : /\ pending[i] \in PendingEntries
                                   /\ pending[i].event \in {None} \cup KeyEvents
      /\ \A i, j \in DOMAIN pending : pending[i].token = pending[j].token => i = j
  BY PendingIs
<1>4. None \notin KeyEvents
  BY DEF Typable
<1>5. DOMAIN c = DOMAIN pending
  OBVIOUS
<1>6. c[1] = [pending[1] EXCEPT !.event = e]
  BY <1>1, <1>2
<1>7. c[1].event = e
  BY <1>1, <1>3, <1>6 DEF PendingEntries
<1>8. \A i \in DOMAIN pending : i # 1 => c[i] = pending[i]
  BY <1>1, <1>2, <1>3
<1>9. Keyboard!Drained(c)
  BY <1>2 DEF Keyboard!CompletePending
<1> HIDE DEF c
<1>10. \A i \in DOMAIN c : c[i].event = (IF i = 1 THEN e ELSE pending[i].event) /\ c[i].event \in KeyEvents /\ c[i].event # None
  BY <1>1, <1>3, <1>4, <1>5, <1>7, <1>8
<1>11. pending' = <<>> /\ heard' = es /\ app_down' = Keyboard!After(app_down, es) /\ panicked' = panicked
  BY <1>9, <1>10 DEF Keyboard!Drained, Keyboard!Incomplete, Keyboard!Dispatch
<1>12. es = [i \in DOMAIN c |-> c[i].event]
  BY DEF Keyboard!Events
<1> HIDE DEF es
<1>13. DOMAIN es = 1 .. Len(pending) /\ es \in [1 .. Len(pending) -> KeyEvents]
  BY <1>3, <1>5, <1>10, <1>12
<1>14. es \in Seq(KeyEvents)
  BY <1>3, <1>13, SeqDef
<1>15. \A i \in DOMAIN es : es[i] = IF i = 1 THEN e ELSE pending[i].event
  BY <1>10, <1>12
<1>16. \A i \in DOMAIN es : WholeText(es[i])
  BY <1>1, <1>3, <1>13, <1>15
<1>17. ASSUME NEW k
       PROVE k \in app_down' <=> ToldOf(k, IF e.key = k THEN e.state = "pressed" ELSE k \in app_down)
  <2>1. k \in app_down' <=>
           \/ k \in app_down /\ \A i \in DOMAIN es : es[i].key # k
           \/ \E i \in DOMAIN es : /\ es[i].key = k /\ es[i].state = "pressed"
                                   /\ \A j \in DOMAIN es : j > i => es[j].key # k
    BY <1>11, <1>14, AfterIs
  <2>2. DOMAIN es = DOMAIN pending
    BY <1>3, <1>13
  <2>3. \A i \in DOMAIN es : i # 1 => es[i] = pending[i].event /\ pending[i].event # None
    BY <1>1, <1>15, <2>2
  <2>4. \A i \in DOMAIN es : i > 1 <=> i # 1
    BY <1>13
  <2>5. es[1] = e /\ 1 \in DOMAIN es
    BY <1>1, <1>15, <2>2
  <2>6. Spoken(pending, k) <=> \E i \in DOMAIN es : i # 1 /\ es[i].key = k
    BY <1>1, <2>2, <2>3 DEF Spoken
  <2>7. ASSUME Spoken(pending, k) PROVE k \in app_down' <=> SpokenDown(pending, k)
    <3>1. PICK i \in DOMAIN es : i # 1 /\ es[i].key = k
      BY <2>6, <2>7
    <3>2. k \in app_down' <=> \E j \in DOMAIN es : /\ es[j].key = k /\ es[j].state = "pressed"
                                                   /\ \A l \in DOMAIN es : l > j => es[l].key # k
      BY <2>1, <3>1
    <3>3. ASSUME NEW j \in DOMAIN es, es[j].key = k, \A l \in DOMAIN es : l > j => es[l].key # k PROVE j # 1
      BY <2>4, <3>1, <3>3
    <3>4. \A j \in DOMAIN es : j # 1 =>
            ((\A l \in DOMAIN es : l > j => es[l].key # k)
               <=> (\A l \in DOMAIN pending : l > j => pending[l].event = None \/ pending[l].event.key # k))
      <4> SUFFICES ASSUME NEW j \in DOMAIN es, j # 1
                   PROVE  (\A l \in DOMAIN es : l > j => es[l].key # k)
               <=> (\A l \in DOMAIN pending : l > j => pending[l].event = None \/ pending[l].event.key # k)
        OBVIOUS
      <4>1. \A l \in DOMAIN es : l > j => l # 1
        BY <1>13, <2>4
      <4> QED BY <2>2, <2>3, <4>1
    <3> QED BY <1>1, <2>2, <2>3, <3>2, <3>3, <3>4 DEF SpokenDown
  <2>8. ASSUME ~Spoken(pending, k)
        PROVE k \in app_down' <=> IF e.key = k THEN e.state = "pressed" ELSE k \in app_down
    <3>1. \A i \in DOMAIN es : i # 1 => es[i].key # k
      BY <2>6, <2>8
    <3>2. \A i \in DOMAIN es : es[i].key = k => i = 1
      BY <3>1
    <3>3. \A j \in DOMAIN es : j > 1 => es[j].key # k
      BY <2>4, <3>1
    <3> QED BY <2>1, <2>5, <3>2, <3>3
  <2> QED BY <2>7, <2>8 DEF ToldOf
<1>18. app_down' \subseteq Keyboard!Keys
  <2>1. app_down \subseteq Keyboard!Keys
    BY DEF KeysTyped
  <2>2. \A i \in DOMAIN es : es[i].key \in Keyboard!Keys
    BY <1>13 DEF KeyEvents
  <2> SUFFICES ASSUME NEW k \in app_down' PROVE k \in Keyboard!Keys
    OBVIOUS
  <2> QED BY <1>11, <1>14, <2>1, <2>2, AfterIs
<1> QED BY <1>11, <1>14, <1>16, <1>17, <1>18

\* The queue without an entry.
LEMMA WithoutIs ==
  ASSUME KeysTyped, Queueing, NEW at \in DOMAIN pending
  PROVE  LET w == Keyboard!Without(pending[at].token)
         IN  /\ w \in Seq(PendingEntries) /\ Len(w) = Len(pending) - 1 /\ DOMAIN w = 1 .. Len(pending) - 1
             /\ \A i \in DOMAIN w : w[i] = pending[IF i < at THEN i ELSE i + 1]
<1> DEFINE token == pending[at].token
           n == Len(pending)
           w == Keyboard!Without(token)
<1>1. /\ n \in Nat /\ DOMAIN pending = 1 .. n /\ \A i \in DOMAIN pending : pending[i] \in PendingEntries
      /\ \A i, j \in DOMAIN pending : pending[i].token = pending[j].token => i = j
  BY PendingIs
<1>2. (CHOOSE i \in DOMAIN pending : pending[i].token = token) = at
  BY <1>1
<1>3. w = [i \in 1 .. n - 1 |-> pending[IF i < at THEN i ELSE i + 1]]
  BY <1>2 DEF Keyboard!Without
<1> HIDE DEF w
<1>4. \A i \in 1 .. n - 1 : (IF i < at THEN i ELSE i + 1) \in DOMAIN pending
  BY <1>1
<1>5. \A i \in 1 .. n - 1 : w[i] \in PendingEntries
  BY <1>1, <1>3, <1>4
<1>6. n - 1 \in Nat
  BY <1>1
<1> DEFINE m == n - 1
<1> HIDE DEF m
<1>7. m \in Nat /\ w \in [1 .. m -> PendingEntries]
  BY <1>3, <1>5, <1>6 DEF m
<1>8. w \in Seq(PendingEntries) /\ Len(w) = m
  BY <1>7, SeqDef
<1> QED BY <1>3, <1>8 DEF w, m

\* The last message under way is dropped.
LEMMA RemovesLast ==
  ASSUME Typable, KeysTyped, Queueing, SentInside, nested # <<>>, Len(nested) = 1,
         \A i \in DOMAIN pending : pending[i].event # None => WholeText(pending[i].event),
         Keyboard!RemovePending(Head(nested).token)
  PROVE  /\ pending' = <<>> /\ panicked' = panicked /\ heard' \in Seq(KeyEvents) /\ app_down' \subseteq Keyboard!Keys
         /\ \A i \in DOMAIN heard' : WholeText(heard'[i])
         /\ \A k : k \in app_down' <=> ToldOf(k, k \in app_down)
<1> DEFINE w == Keyboard!Without(Head(nested).token)
           es == Keyboard!Events(w)
           n == Len(pending)
<1>1. /\ 1 \in DOMAIN pending /\ \A i \in DOMAIN pending : pending[i].event = None <=> i = 1
  BY OneIncomplete
<1>2. pending # <<>> /\ pending[1].token = Head(nested).token
  BY UnderwayIs
<1>3. /\ n \in Nat /\ DOMAIN pending = 1 .. n
      /\ \A i \in DOMAIN pending : pending[i] \in PendingEntries /\ pending[i].event \in {None} \cup KeyEvents
  BY PendingIs
<1>4. /\ w \in Seq(PendingEntries) /\ Len(w) = n - 1 /\ DOMAIN w = 1 .. n - 1
      /\ \A i \in DOMAIN w : w[i] = pending[IF i < 1 THEN i ELSE i + 1]
  BY <1>1, <1>2, WithoutIs
<1>5. Keyboard!Drained(w)
  BY <1>2 DEF Keyboard!RemovePending
<1> HIDE DEF w
<1>6. \A i \in DOMAIN w : w[i] = pending[i + 1] /\ i + 1 \in DOMAIN pending /\ i + 1 # 1
  BY <1>3, <1>4
<1>7. \A i \in DOMAIN w : w[i].event = pending[i + 1].event /\ w[i].event \in KeyEvents /\ w[i].event # None
  BY <1>1, <1>3, <1>6
<1>8. pending' = <<>> /\ heard' = es /\ app_down' = Keyboard!After(app_down, es) /\ panicked' = panicked
  BY <1>5, <1>7 DEF Keyboard!Drained, Keyboard!Incomplete, Keyboard!Dispatch
<1>9. es = [i \in DOMAIN w |-> w[i].event]
  BY DEF Keyboard!Events
<1> HIDE DEF es
<1> DEFINE m == n - 1
<1>10. m \in Nat
  BY <1>1, <1>3
<1>11. DOMAIN es = 1 .. m /\ es \in [1 .. m -> KeyEvents]
  BY <1>4, <1>7, <1>9
<1> HIDE DEF m
<1>12. es \in Seq(KeyEvents)
  BY <1>10, <1>11, SeqDef
<1>13. \A i \in DOMAIN es : es[i] = pending[i + 1].event /\ i + 1 \in DOMAIN pending /\ pending[i + 1].event # None
  BY <1>6, <1>7, <1>9
<1>14. \A i \in DOMAIN es : WholeText(es[i])
  BY <1>13
<1>15. \A j \in DOMAIN pending : j # 1 => j - 1 \in DOMAIN es /\ (j - 1) + 1 = j
  BY <1>3, <1>11 DEF m
<1>16. ASSUME NEW k PROVE k \in app_down' <=> ToldOf(k, k \in app_down)
  <2>1. k \in app_down' <=>
           \/ k \in app_down /\ \A i \in DOMAIN es : es[i].key # k
           \/ \E i \in DOMAIN es : /\ es[i].key = k /\ es[i].state = "pressed"
                                   /\ \A j \in DOMAIN es : j > i => es[j].key # k
    BY <1>8, <1>12, AfterIs
  <2>2. Spoken(pending, k) <=> \E i \in DOMAIN es : es[i].key = k
    <3>1. ASSUME NEW j \in DOMAIN pending, pending[j].event # None, pending[j].event.key = k
          PROVE \E i \in DOMAIN es : es[i].key = k
      BY <1>1, <1>13, <1>15, <3>1
    <3> QED BY <1>13, <3>1 DEF Spoken
  <2>3. SpokenDown(pending, k) <=>
          \E i \in DOMAIN es : /\ es[i].key = k /\ es[i].state = "pressed"
                               /\ \A j \in DOMAIN es : j > i => es[j].key # k
    <3>1. \A i, j \in DOMAIN es : j > i <=> j + 1 > i + 1
      BY <1>11
    <3>2. \A i \in DOMAIN es : (\A j \in DOMAIN es : j > i => es[j].key # k)
            <=> (\A l \in DOMAIN pending : l > i + 1 => pending[l].event = None \/ pending[l].event.key # k)
      <4> SUFFICES ASSUME NEW i \in DOMAIN es
                   PROVE  (\A j \in DOMAIN es : j > i => es[j].key # k)
            <=> (\A l \in DOMAIN pending : l > i + 1 => pending[l].event = None \/ pending[l].event.key # k)
        OBVIOUS
      <4>1. ASSUME \A j \in DOMAIN es : j > i => es[j].key # k,
                   NEW l \in DOMAIN pending, l > i + 1
            PROVE  pending[l].event.key # k
        <5>1. l # 1 /\ l \in Nat /\ i \in Nat
          BY <1>3, <1>11, <4>1
        <5>2. l - 1 \in DOMAIN es /\ (l - 1) + 1 = l /\ l - 1 > i
          BY <1>15, <4>1, <5>1
        <5> QED BY <1>13, <4>1, <5>2
      <4>2. ASSUME \A l \in DOMAIN pending : l > i + 1 => pending[l].event = None \/ pending[l].event.key # k,
                   NEW j \in DOMAIN es, j > i
            PROVE  es[j].key # k
        <5>1. j + 1 > i + 1
          BY <3>1, <4>2
        <5> QED BY <1>13, <4>2, <5>1
      <4> QED BY <4>1, <4>2
    <3>3. ASSUME NEW j \in DOMAIN pending, pending[j].event # None, pending[j].event.key = k,
                 pending[j].event.state = "pressed",
                 \A l \in DOMAIN pending : l > j => pending[l].event = None \/ pending[l].event.key # k
          PROVE \E i \in DOMAIN es : /\ es[i].key = k /\ es[i].state = "pressed"
                                     /\ \A l \in DOMAIN es : l > i => es[l].key # k
      <4>1. j - 1 \in DOMAIN es /\ (j - 1) + 1 = j
        BY <1>1, <1>15, <3>3
      <4>2. es[j - 1] = pending[j].event
        BY <1>13, <4>1
      <4> QED BY <3>2, <3>3, <4>1, <4>2
    <3>4. ASSUME NEW i \in DOMAIN es, es[i].key = k, es[i].state = "pressed",
                 \A l \in DOMAIN es : l > i => es[l].key # k
          PROVE SpokenDown(pending, k)
      BY <1>13, <3>2, <3>4 DEF SpokenDown
    <3> QED BY <3>3, <3>4 DEF SpokenDown
  <2> QED BY <2>1, <2>2, <2>3 DEF ToldOf
<1>17. app_down' \subseteq Keyboard!Keys
  <2>1. app_down \subseteq Keyboard!Keys
    BY DEF KeysTyped
  <2>2. \A i \in DOMAIN es : es[i].key \in Keyboard!Keys
    BY <1>11 DEF KeyEvents
  <2> SUFFICES ASSUME NEW k \in app_down' PROVE k \in Keyboard!Keys
    OBVIOUS
  <2> QED BY <1>8, <1>12, <2>1, <2>2, AfterIs
<1> QED BY <1>8, <1>12, <1>14, <1>16, <1>17

\* A message inside another ends: its entry was the only one of its token.
Alike(k) == (Spoken(pending', k) <=> Spoken(pending, k)) /\ (SpokenDown(pending', k) <=> SpokenDown(pending, k))
LEMMA Inside ==
  ASSUME Typable, KeysTyped, Queueing, SentInside, nested # <<>>, Len(nested) # 1
  PROVE  \E at \in DOMAIN pending :
           /\ pending[at].token = Head(nested).token /\ pending[at].event = None /\ at # 1 /\ 1 \in DOMAIN pending
           /\ \A i \in DOMAIN pending : pending[i].token = Head(nested).token <=> i = at
           /\ \A i \in DOMAIN pending : i # at /\ pending[i].event = None =>
                \E j \in DOMAIN Tail(nested) : Tail(nested)[j].token = pending[i].token
           /\ \A j \in DOMAIN Tail(nested) : \E i \in DOMAIN pending :
                i # at /\ pending[i].token = Tail(nested)[j].token /\ pending[i].event = None
           /\ \A i, j \in DOMAIN Tail(nested) : i < j => Tail(nested)[i].token > Tail(nested)[j].token
           /\ \A i \in DOMAIN Tail(nested) : i < Len(Tail(nested)) =>
                Tail(nested)[i].key \in SentKeys /\ Tail(nested)[i].kind # "char"
<1> DEFINE n == Len(nested)
           t == Tail(nested)
<1>1. /\ Head(nested) = nested[1] /\ n \in Nat \ {0}
      /\ t \in Seq(KeyFrames) /\ Len(t) = n - 1
      /\ \A i \in DOMAIN t : t[i] = nested[i + 1] /\ i + 1 \in DOMAIN nested
      /\ pending # <<>> /\ pending[1].token # Head(nested).token
      /\ \E i \in DOMAIN pending : pending[i].token = Head(nested).token /\ pending[i].event = None
  BY UnderwayIs
<1>2. /\ DOMAIN nested = 1 .. n /\ DOMAIN t = 1 .. n - 1
      /\ \A i \in DOMAIN nested : nested[i].token \in Nat
  <2>1. nested \in Seq(KeyFrames)
    BY DEF KeysTyped
  <2>2. DOMAIN nested = 1 .. n /\ \A i \in DOMAIN nested : nested[i] \in KeyFrames
    BY <2>1
  <2>3. \A i \in DOMAIN nested : nested[i].token \in Nat
    BY <2>2 DEF KeyFrames
  <2>4. DOMAIN t = 1 .. n - 1
    BY <1>1
  <2> QED BY <2>2, <2>3, <2>4
<1>3. PICK at \in DOMAIN pending : pending[at].token = Head(nested).token /\ pending[at].event = None
  BY <1>1
<1>4. /\ Len(pending) \in Nat /\ DOMAIN pending = 1 .. Len(pending)
      /\ \A i, j \in DOMAIN pending : pending[i].token = pending[j].token => i = j
  BY PendingIs
<1>5. 1 \in DOMAIN pending
  BY <1>1, <1>4
<1>6. at # 1
  BY <1>1, <1>3
<1>7. \A i \in DOMAIN pending : pending[i].token = Head(nested).token <=> i = at
  BY <1>3, <1>4
<1>8. \A i, j \in DOMAIN nested : i < j => nested[i].token > nested[j].token
  BY DEF Queueing
<1>9. \A j \in DOMAIN t : nested[1].token > t[j].token /\ t[j].token \in Nat /\ nested[1].token \in Nat
  <2> SUFFICES ASSUME NEW j \in DOMAIN t
               PROVE nested[1].token > t[j].token /\ t[j].token \in Nat /\ nested[1].token \in Nat
    OBVIOUS
  <2>1. 1 \in DOMAIN nested /\ j + 1 \in DOMAIN nested /\ 1 < j + 1 /\ t[j] = nested[j + 1]
    BY <1>1, <1>2
  <2> QED BY <1>2, <1>8, <2>1
<1>10. ASSUME NEW i \in DOMAIN pending, i # at, pending[i].event = None
       PROVE \E j \in DOMAIN t : t[j].token = pending[i].token
  <2>1. PICK j \in DOMAIN nested : nested[j].token = pending[i].token
    BY <1>10 DEF Queueing
  <2>2. j # 1
    BY <1>1, <1>7, <1>10, <2>1
  <2>3. j - 1 \in DOMAIN t /\ (j - 1) + 1 = j
    BY <1>2, <2>2
  <2> QED BY <1>1, <2>1, <2>3
<1>11. ASSUME NEW j \in DOMAIN t
       PROVE \E i \in DOMAIN pending : i # at /\ pending[i].token = t[j].token /\ pending[i].event = None
  <2>1. PICK i \in DOMAIN pending : pending[i].token = nested[j + 1].token /\ pending[i].event = None
    BY <1>1, <1>11 DEF Queueing
  <2>2. pending[i].token # nested[1].token
    BY <1>1, <1>9, <1>11, <2>1
  <2> QED BY <1>1, <1>3, <1>11, <2>1, <2>2
<1>12. ASSUME NEW i \in DOMAIN t, NEW j \in DOMAIN t, i < j PROVE t[i].token > t[j].token
  <2>1. i + 1 < j + 1 /\ i + 1 \in DOMAIN nested /\ j + 1 \in DOMAIN nested
    BY <1>1, <1>2, <1>12
  <2>2. nested[i + 1].token > nested[j + 1].token
    BY <1>8, <2>1
  <2> QED BY <1>1, <1>12, <2>2
<1>13. ASSUME NEW i \in DOMAIN t, i < Len(t) PROVE t[i].key \in SentKeys /\ t[i].kind # "char"
  <2>1. i + 1 < n /\ i + 1 \in DOMAIN nested
    BY <1>1, <1>2, <1>13
  <2>2. nested[i + 1].key \in SentKeys /\ nested[i + 1].kind # "char"
    BY <2>1 DEF SentInside
  <2> QED BY <1>1, <1>13, <2>2
<1> QED BY <1>3, <1>5, <1>6, <1>7, <1>10, <1>11, <1>12, <1>13

\* It is complete: what it tells waits for the messages begun before it.
LEMMA CompletesInside ==
  ASSUME Typable, KeysTyped, Queueing, SentInside, nested # <<>>, Len(nested) # 1, NEW e \in KeyEvents,
         e.key \in SentKeys, WholeText(e),
         \A i \in DOMAIN pending : pending[i].event # None => WholeText(pending[i].event),
         Keyboard!CompletePending(Head(nested).token, e), nested' = Tail(nested), next_id' = next_id
  PROVE  /\ pending' \in Seq(PendingEntries) /\ panicked' = panicked /\ heard' = <<>> /\ app_down' = app_down
         /\ Queueing' /\ SentInside'
         /\ \A i \in DOMAIN pending' : pending'[i].event # None => WholeText(pending'[i].event)
         /\ \A k \in Pressable : Alike(k)
<1> DEFINE token == Head(nested).token
           t == Tail(nested)
           c == [i \in DOMAIN pending |->
                   IF pending[i].token = token THEN [pending[i] EXCEPT !.event = e] ELSE pending[i]]
<1>1. PICK at \in DOMAIN pending :
           /\ pending[at].token = token /\ pending[at].event = None /\ at # 1 /\ 1 \in DOMAIN pending
           /\ \A i \in DOMAIN pending : pending[i].token = token <=> i = at
           /\ \A i \in DOMAIN pending : i # at /\ pending[i].event = None =>
                \E j \in DOMAIN t : t[j].token = pending[i].token
           /\ \A j \in DOMAIN t : \E i \in DOMAIN pending :
                i # at /\ pending[i].token = t[j].token /\ pending[i].event = None
           /\ \A i, j \in DOMAIN t : i < j => t[i].token > t[j].token
           /\ \A i \in DOMAIN t : i < Len(t) => t[i].key \in SentKeys /\ t[i].kind # "char"
  BY Inside
<1>2. /\ Len(pending) \in Nat /\ DOMAIN pending = 1 .. Len(pending)
      /\ \A i \in DOMAIN pending : /\ pending[i] \in PendingEntries
                                   /\ pending[i].event \in {None} \cup KeyEvents
  BY PendingIs
<1>3. None \notin KeyEvents
  BY DEF Typable
<1>4. DOMAIN c = DOMAIN pending
  OBVIOUS
<1>5. \A i \in DOMAIN pending : i # at => c[i] = pending[i]
  BY <1>1
<1>6. c[at] = [pending[at] EXCEPT !.event = e]
  BY <1>1
<1>7. c[at].event = e /\ c[at].token = pending[at].token /\ c[at] \in PendingEntries
  <2>1. pending[at] \in PendingEntries
    BY <1>2
  <2> HIDE DEF c
  <2> QED BY <1>6, <2>1 DEF PendingEntries
<1>8. pending[1].token # token
  BY <1>1
<1>9. /\ pending' = c /\ heard' = <<>> /\ app_down' = Keyboard!After(app_down, <<>>) /\ panicked' = panicked
  BY <1>1, <1>8 DEF Keyboard!CompletePending, Keyboard!Dispatch
<1> DEFINE n == Len(pending)
<1> HIDE DEF c, t
<1>10. c \in Seq(PendingEntries)
  <2>1. n \in Nat
    BY <1>2
  <2>2. DOMAIN c = 1 .. n
    BY <1>2, <1>4
  <2>3. \A i \in 1 .. n : c[i] \in PendingEntries
    BY <1>2, <1>5, <1>7
  <2>4. c = [i \in 1 .. n |-> c[i]]
    BY <1>2 DEF c
  <2> HIDE DEF n
  <2>5. c \in [1 .. n -> PendingEntries]
    BY <2>2, <2>3, <2>4
  <2> QED BY <2>1, <2>5, SeqDef
<1>11. app_down' = app_down
  BY <1>9, NothingHeard
<1>12. \A i \in DOMAIN c : c[i].token = pending[i].token
  BY <1>4, <1>5, <1>7
<1>13. \A i \in DOMAIN c : i # at => c[i].event = pending[i].event
  BY <1>4, <1>5
<1>14. c[at].event # None
  BY <1>3, <1>7
<1>15. \A k \in Pressable : e.key # k
  BY KeyFacts
<1>16. ASSUME NEW k \in Pressable
       PROVE (Spoken(c, k) <=> Spoken(pending, k)) /\ (SpokenDown(c, k) <=> SpokenDown(pending, k))
  <2>1. \A i \in DOMAIN c : (c[i].event # None /\ c[i].event.key = k)
                              <=> (pending[i].event # None /\ pending[i].event.key = k)
    BY <1>1, <1>4, <1>7, <1>13, <1>15, <1>16
  <2>2. \A i \in DOMAIN c : c[i].event # None /\ c[i].event.key = k => c[i].event = pending[i].event
    BY <1>7, <1>13, <1>15, <1>16
  <2>3. Spoken(c, k) <=> Spoken(pending, k)
    BY <1>4, <2>1 DEF Spoken
  <2>4. \A i \in DOMAIN c : (\A j \in DOMAIN c : j > i => c[j].event = None \/ c[j].event.key # k)
                   <=> (\A j \in DOMAIN pending : j > i => pending[j].event = None \/ pending[j].event.key # k)
    BY <1>4, <2>1
  <2>5. SpokenDown(c, k) <=> SpokenDown(pending, k)
    BY <1>4, <2>1, <2>2, <2>4 DEF SpokenDown
  <2> QED BY <2>3, <2>5
<1>17. \A i \in DOMAIN c : c[i].event # None => WholeText(c[i].event)
  BY <1>4, <1>7, <1>13
<1>18. nested' = t
  BY DEF t
<1>19. /\ t # <<>> /\ t[Len(t)] = Outermost
  BY UnderwayIs DEF t
<1>20. Queueing'
  <2>1. \A i, j \in DOMAIN c : i < j => c[i].token < c[j].token
    BY <1>4, <1>12 DEF Queueing
  <2>2. \A i \in DOMAIN c : c[i].token < next_id
    BY <1>4, <1>12 DEF Queueing
  <2>3. \A i \in DOMAIN c : c[i].event = None => \E j \in DOMAIN t : t[j].token = c[i].token
    BY <1>1, <1>4, <1>12, <1>13, <1>14
  <2>4. \A j \in DOMAIN t : \E i \in DOMAIN c : c[i].token = t[j].token /\ c[i].event = None
    BY <1>1, <1>4, <1>12, <1>13
  <2>5. c # <<>>
    BY <1>1, <1>4, EmptySeq
  <2>6. c[1].token = t[Len(t)].token
    <3>1. pending[1].token = Outermost.token
      BY DEF Queueing
    <3> QED BY <1>1, <1>4, <1>12, <1>19, <3>1
  <2>7. ~panicked'
    BY <1>9 DEF Queueing
  <2>8. pending' = c /\ nested' = t /\ next_id' = next_id /\ heard' = <<>>
    BY <1>9, <1>18
  <2>9. Outermost' = t[Len(t)]
    BY <1>18 DEF Outermost
  <2>10. /\ \A i, j \in DOMAIN pending' : i < j => pending'[i].token < pending'[j].token
         /\ \A i \in DOMAIN pending' : pending'[i].token < next_id'
         /\ \A i, j \in DOMAIN nested' : i < j => nested'[i].token > nested'[j].token
    BY <1>1, <2>1, <2>2, <2>8
  <2>11. /\ \A i \in DOMAIN pending' : pending'[i].event = None =>
              \E j \in DOMAIN nested' : nested'[j].token = pending'[i].token
         /\ \A j \in DOMAIN nested' :
              \E i \in DOMAIN pending' : pending'[i].token = nested'[j].token /\ pending'[i].event = None
    <3>1. \A i \in DOMAIN c : c[i].event = None => \E j \in DOMAIN t : t[j].token = c[i].token
      BY <2>3
    <3>2. \A j \in DOMAIN t : \E i \in DOMAIN c : c[i].token = t[j].token /\ c[i].event = None
      BY <2>4
    <3> HIDE DEF c, t
    <3> QED BY <2>8, <3>1, <3>2
  <2>12. /\ nested' # <<>> /\ pending' # <<>> /\ pending'[1].token = Outermost'.token
         /\ heard' = <<>>
    BY <1>19, <2>5, <2>6, <2>8, <2>9
  <2> QED BY <2>7, <2>10, <2>11, <2>12 DEF Queueing
<1>21. SentInside'
  BY <1>1, <1>18 DEF SentInside
<1> QED BY <1>9, <1>10, <1>11, <1>16, <1>17, <1>20, <1>21 DEF Alike

\* It tells nothing: its entry goes, and the others keep their order.
LEMMA RemovesInside ==
  ASSUME Typable, KeysTyped, Queueing, SentInside, nested # <<>>, Len(nested) # 1,
         \A i \in DOMAIN pending : pending[i].event # None => WholeText(pending[i].event),
         Keyboard!RemovePending(Head(nested).token), nested' = Tail(nested), next_id' = next_id
  PROVE  /\ pending' \in Seq(PendingEntries) /\ panicked' = panicked /\ heard' = <<>> /\ app_down' = app_down
         /\ Queueing' /\ SentInside'
         /\ \A i \in DOMAIN pending' : pending'[i].event # None => WholeText(pending'[i].event)
         /\ \A k \in Pressable : Alike(k)
<1> DEFINE token == Head(nested).token
           t == Tail(nested)
           c == Keyboard!Without(token)
           n == Len(pending)
<1>1. PICK at \in DOMAIN pending :
           /\ pending[at].token = token /\ pending[at].event = None /\ at # 1 /\ 1 \in DOMAIN pending
           /\ \A i \in DOMAIN pending : pending[i].token = token <=> i = at
           /\ \A i \in DOMAIN pending : i # at /\ pending[i].event = None =>
                \E j \in DOMAIN t : t[j].token = pending[i].token
           /\ \A j \in DOMAIN t : \E i \in DOMAIN pending :
                i # at /\ pending[i].token = t[j].token /\ pending[i].event = None
           /\ \A i, j \in DOMAIN t : i < j => t[i].token > t[j].token
           /\ \A i \in DOMAIN t : i < Len(t) => t[i].key \in SentKeys /\ t[i].kind # "char"
  BY Inside
<1>2. /\ n \in Nat /\ DOMAIN pending = 1 .. n
      /\ \A i \in DOMAIN pending : /\ pending[i] \in PendingEntries
                                   /\ pending[i].event \in {None} \cup KeyEvents
  BY PendingIs
<1>3. /\ c \in Seq(PendingEntries) /\ Len(c) = n - 1 /\ DOMAIN c = 1 .. n - 1
      /\ \A i \in DOMAIN c : c[i] = pending[IF i < at THEN i ELSE i + 1]
  BY <1>1, WithoutIs
<1> DEFINE f(i) == IF i < at THEN i ELSE i + 1
           g(i) == IF i < at THEN i ELSE i - 1
<1>4. \A i \in DOMAIN c : f(i) \in DOMAIN pending /\ f(i) # at /\ c[i] = pending[f(i)] /\ g(f(i)) = i
  BY <1>2, <1>3
<1>5. \A i, j \in DOMAIN c : i < j <=> f(i) < f(j)
  BY <1>2, <1>3
<1>6. \A i \in DOMAIN pending : i # at => g(i) \in DOMAIN c /\ f(g(i)) = i
  BY <1>2, <1>3
<1>7. pending[1].token # token
  BY <1>1
<1>8. /\ pending' = c /\ heard' = <<>> /\ app_down' = Keyboard!After(app_down, <<>>) /\ panicked' = panicked
  BY <1>1, <1>7 DEF Keyboard!RemovePending, Keyboard!Dispatch
<1>9. 1 \in DOMAIN c /\ c[1] = pending[1]
  <2>1. g(1) = 1 /\ f(1) = 1
    BY <1>1, <1>2
  <2> QED BY <1>1, <1>4, <1>6, <2>1
<1> HIDE DEF c, t, f, g
<1>10. app_down' = app_down
  BY <1>8, NothingHeard
<1>11. ASSUME NEW k \in Pressable
       PROVE (Spoken(c, k) <=> Spoken(pending, k)) /\ (SpokenDown(c, k) <=> SpokenDown(pending, k))
  <2>1. \A i \in DOMAIN pending : pending[i].event # None => i # at
    BY <1>1
  <2>2. Spoken(c, k) <=> Spoken(pending, k)
    <3>1. ASSUME Spoken(c, k) PROVE Spoken(pending, k)
      BY <1>4, <3>1 DEF Spoken
    <3>2. ASSUME Spoken(pending, k) PROVE Spoken(c, k)
      <4>1. PICK i \in DOMAIN pending : pending[i].event # None /\ pending[i].event.key = k
        BY <3>2 DEF Spoken
      <4>2. g(i) \in DOMAIN c /\ c[g(i)] = pending[i]
        BY <1>4, <1>6, <2>1, <4>1
      <4> QED BY <4>1, <4>2 DEF Spoken
    <3> QED BY <3>1, <3>2
  <2>3. \A i \in DOMAIN c : (\A j \in DOMAIN c : j > i => c[j].event = None \/ c[j].event.key # k)
                <=> (\A j \in DOMAIN pending : j > f(i) => pending[j].event = None \/ pending[j].event.key # k)
    <3> SUFFICES ASSUME NEW i \in DOMAIN c
                 PROVE  (\A j \in DOMAIN c : j > i => c[j].event = None \/ c[j].event.key # k)
                <=> (\A j \in DOMAIN pending : j > f(i) => pending[j].event = None \/ pending[j].event.key # k)
      OBVIOUS
    <3>1. ASSUME \A j \in DOMAIN c : j > i => c[j].event = None \/ c[j].event.key # k,
                 NEW j \in DOMAIN pending, j > f(i), pending[j].event # None
          PROVE  pending[j].event.key # k
      <4>1. g(j) \in DOMAIN c /\ f(g(j)) = j /\ c[g(j)] = pending[j]
        BY <1>4, <1>6, <2>1, <3>1
      <4>2. f(i) < f(g(j))
        BY <1>2, <1>4, <3>1, <4>1
      <4>3. i < g(j)
        BY <1>5, <4>1, <4>2
      <4>4. g(j) > i
        BY <1>2, <1>3, <4>1, <4>3
      <4> QED BY <3>1, <4>1, <4>4
    <3>2. ASSUME \A j \in DOMAIN pending : j > f(i) => pending[j].event = None \/ pending[j].event.key # k,
                 NEW j \in DOMAIN c, j > i
          PROVE  c[j].event = None \/ c[j].event.key # k
      <4>1. f(j) > f(i)
        <5>1. i < j
          BY <1>3, <3>2
        <5>2. f(i) < f(j)
          BY <1>5, <5>1
        <5> QED BY <1>2, <1>4, <5>2
      <4> QED BY <1>4, <3>2, <4>1
    <3> QED BY <3>1, <3>2
  <2>4. SpokenDown(c, k) <=> SpokenDown(pending, k)
    <3>1. ASSUME SpokenDown(c, k) PROVE SpokenDown(pending, k)
      BY <1>4, <2>3, <3>1 DEF SpokenDown
    <3>2. ASSUME SpokenDown(pending, k) PROVE SpokenDown(c, k)
      <4>1. PICK i \in DOMAIN pending :
              /\ pending[i].event # None /\ pending[i].event.key = k /\ pending[i].event.state = "pressed"
              /\ \A j \in DOMAIN pending : j > i => pending[j].event = None \/ pending[j].event.key # k
        BY <3>2 DEF SpokenDown
      <4>2. g(i) \in DOMAIN c /\ c[g(i)] = pending[i] /\ f(g(i)) = i
        BY <1>4, <1>6, <2>1, <4>1
      <4> QED BY <2>3, <4>1, <4>2 DEF SpokenDown
    <3> QED BY <3>1, <3>2
  <2> QED BY <2>2, <2>4
<1>12. \A i \in DOMAIN c : c[i].event # None => WholeText(c[i].event)
  BY <1>4
<1>13. nested' = t
  BY DEF t
<1>14. /\ t # <<>> /\ t[Len(t)] = Outermost
  BY UnderwayIs DEF t
<1>15. Queueing'
  <2>1. \A i, j \in DOMAIN c : i < j => c[i].token < c[j].token
    <3>1. \A i, j \in DOMAIN pending : i < j => pending[i].token < pending[j].token
      BY DEF Queueing
    <3> QED BY <1>4, <1>5, <3>1
  <2>2. \A i \in DOMAIN c : c[i].token < next_id
    BY <1>4 DEF Queueing
  <2>3. \A i \in DOMAIN c : c[i].event = None => \E j \in DOMAIN t : t[j].token = c[i].token
    BY <1>1, <1>4
  <2>4. ASSUME NEW j \in DOMAIN t PROVE \E i \in DOMAIN c : c[i].token = t[j].token /\ c[i].event = None
    <3>1. PICK i \in DOMAIN pending : i # at /\ pending[i].token = t[j].token /\ pending[i].event = None
      BY <1>1, <2>4
    <3>2. g(i) \in DOMAIN c /\ c[g(i)] = pending[i]
      BY <1>4, <1>6, <3>1
    <3> QED BY <3>1, <3>2
  <2>5. c # <<>>
    BY <1>9, EmptySeq
  <2>6. c[1].token = t[Len(t)].token
    <3>1. pending[1].token = Outermost.token
      BY DEF Queueing
    <3> QED BY <1>9, <1>14, <3>1
  <2>7. ~panicked'
    BY <1>8 DEF Queueing
  <2>8. pending' = c /\ nested' = t /\ next_id' = next_id /\ heard' = <<>>
    BY <1>8, <1>13
  <2>9. Outermost' = t[Len(t)]
    BY <1>13 DEF Outermost
  <2>10. /\ \A i, j \in DOMAIN pending' : i < j => pending'[i].token < pending'[j].token
         /\ \A i \in DOMAIN pending' : pending'[i].token < next_id'
         /\ \A i, j \in DOMAIN nested' : i < j => nested'[i].token > nested'[j].token
    BY <1>1, <2>1, <2>2, <2>8
  <2>11. /\ \A i \in DOMAIN pending' : pending'[i].event = None =>
              \E j \in DOMAIN nested' : nested'[j].token = pending'[i].token
         /\ \A j \in DOMAIN nested' :
              \E i \in DOMAIN pending' : pending'[i].token = nested'[j].token /\ pending'[i].event = None
    BY <2>3, <2>4, <2>8
  <2>12. /\ nested' # <<>> /\ pending' # <<>> /\ pending'[1].token = Outermost'.token
         /\ heard' = <<>>
    BY <1>14, <2>5, <2>6, <2>8, <2>9
  <2> QED BY <2>7, <2>10, <2>11, <2>12 DEF Queueing
<1>16. SentInside'
  BY <1>1, <1>13 DEF SentInside
<1> QED BY <1>3, <1>8, <1>10, <1>11, <1>12, <1>15, <1>16 DEF Alike

\* A message begins, before all that are under way.
LEMMA Begun ==
  ASSUME Typable, KeysTyped, Queueing, SentInside, NEW f \in KeyFrames, f.token = next_id,
         nested' = <<f>> \o nested, pending' = Keyboard!AddPending, next_id' = next_id + 1,
         panicked' = panicked, heard' = <<>>, nested # <<>> => f.key \in SentKeys /\ f.kind # "char",
         \A i \in DOMAIN pending : pending[i].event # None => WholeText(pending[i].event)
  PROVE  /\ nested' \in Seq(KeyFrames) /\ pending' \in Seq(PendingEntries) /\ next_id' \in Nat
         /\ nested' # <<>> /\ Len(nested') = Len(nested) + 1 /\ nested'[1] = f
         /\ Outermost' = IF nested = <<>> THEN f ELSE Outermost
         /\ Queueing' /\ SentInside'
         /\ \A i \in DOMAIN pending' : pending'[i].event # None => WholeText(pending'[i].event)
         /\ \A k : Alike(k)
<1> DEFINE x == [token |-> next_id, event |-> None]
           c == Append(pending, x)
           t == <<f>> \o nested
           n == Len(pending)
           l == Len(nested)
<1>1. nested \in Seq(KeyFrames) /\ pending \in Seq(PendingEntries) /\ next_id \in Nat
  BY DEF KeysTyped
<1>2. /\ n \in Nat /\ DOMAIN pending = 1 .. n
      /\ \A i \in DOMAIN pending : /\ pending[i] \in PendingEntries /\ pending[i].token \in Nat
  BY PendingIs
<1>3. x \in PendingEntries /\ x.token = next_id /\ x.event = None
  BY <1>1 DEF PendingEntries
<1>4. pending' = c
  BY DEF Keyboard!AddPending
<1> HIDE DEF x
<1>5. /\ c \in Seq(PendingEntries) /\ Len(c) = n + 1 /\ DOMAIN c = 1 .. n + 1 /\ c[n + 1] = x
      /\ \A i \in 1 .. n : c[i] = pending[i]
  BY <1>1, <1>3
<1>6. /\ l \in Nat /\ DOMAIN nested = 1 .. l /\ \A i \in DOMAIN nested : nested[i] \in KeyFrames
  BY <1>1
<1>7. /\ t \in Seq(KeyFrames) /\ Len(t) = l + 1 /\ DOMAIN t = 1 .. l + 1 /\ t[1] = f
      /\ \A i \in 1 .. l : t[i + 1] = nested[i]
  BY <1>1
<1>8. /\ n + 1 \in DOMAIN c /\ \A i \in DOMAIN c : i # n + 1 => i \in 1 .. n /\ i \in DOMAIN pending /\ c[i] = pending[i]
      /\ \A i \in DOMAIN pending : i \in DOMAIN c /\ c[i] = pending[i] /\ i < n + 1 /\ ~(n + 1 < i)
  BY <1>2, <1>5
<1>9. /\ 1 \in DOMAIN t /\ \A i \in DOMAIN t : i # 1 => i - 1 \in DOMAIN nested /\ (i - 1) + 1 = i /\ t[i] = nested[i - 1]
      /\ \A i \in DOMAIN nested : i + 1 \in DOMAIN t /\ t[i + 1] = nested[i]
  BY <1>6, <1>7
<1>10. nested' = t /\ next_id' = next_id + 1
  OBVIOUS
<1> HIDE DEF c, t, n, l
<1>11. \A j \in DOMAIN nested : nested[j].token \in Nat /\ nested[j].token < next_id
  <2> SUFFICES ASSUME NEW j \in DOMAIN nested PROVE nested[j].token \in Nat /\ nested[j].token < next_id
    OBVIOUS
  <2>1. PICK i \in DOMAIN pending : pending[i].token = nested[j].token
    BY DEF Queueing
  <2> QED BY <1>2, <2>1 DEF Queueing
<1>12. t # <<>>
  BY <1>6, <1>7, EmptySeq
<1>13. Outermost' = IF nested = <<>> THEN f ELSE Outermost
  <2>1. Outermost' = t[l + 1]
    BY <1>7, <1>10 DEF Outermost
  <2>2. CASE nested = <<>>
    <3>1. l = 0
      BY <2>2 DEF l
    <3> QED BY <1>7, <2>1, <2>2, <3>1
  <2>3. CASE nested # <<>>
    <3>1. l # 0
      BY <1>1, <2>3, EmptySeq DEF l
    <3>2. l \in 1 .. l
      BY <1>6, <3>1
    <3> QED BY <1>7, <2>1, <2>3, <3>2 DEF Outermost, l
  <2> QED BY <2>2, <2>3
<1>14. Queueing'
  <2>1. ASSUME NEW i \in DOMAIN c, NEW j \in DOMAIN c, i < j PROVE c[i].token < c[j].token
    <3>1. i \in DOMAIN pending /\ c[i] = pending[i]
      BY <1>2, <1>5, <1>8, <2>1
    <3>2. CASE j = n + 1
      BY <1>3, <1>5, <3>1, <3>2 DEF Queueing
    <3>3. CASE j # n + 1
      BY <1>8, <2>1, <3>1, <3>3 DEF Queueing
    <3> QED BY <3>2, <3>3
  <2>2. ASSUME NEW i \in DOMAIN c PROVE c[i].token < next_id + 1
    <3>1. CASE i = n + 1
      BY <1>1, <1>3, <1>5, <3>1
    <3>2. CASE i # n + 1
      <4>1. c[i] = pending[i] /\ i \in DOMAIN pending
        BY <1>8, <3>2
      <4>2. pending[i].token < next_id /\ pending[i].token \in Nat
        BY <1>2, <4>1 DEF Queueing
      <4> QED BY <1>1, <4>1, <4>2
    <3> QED BY <3>1, <3>2
  <2>3. ASSUME NEW i \in DOMAIN t, NEW j \in DOMAIN t, i < j PROVE t[i].token > t[j].token
    <3>1. j # 1 /\ j - 1 \in DOMAIN nested /\ t[j] = nested[j - 1]
      BY <1>6, <1>7, <1>9, <2>3
    <3>2. CASE i = 1
      BY <1>1, <1>7, <1>11, <3>1, <3>2
    <3>3. CASE i # 1
      <4>1. i - 1 \in DOMAIN nested /\ t[i] = nested[i - 1] /\ i - 1 < j - 1
        BY <1>6, <1>7, <1>9, <2>3, <3>3
      <4> QED BY <3>1, <4>1 DEF Queueing
    <3> QED BY <3>2, <3>3
  <2>4. ASSUME NEW i \in DOMAIN c, c[i].event = None PROVE \E j \in DOMAIN t : t[j].token = c[i].token
    <3>1. CASE i = n + 1
      BY <1>3, <1>5, <1>7, <1>9, <3>1
    <3>2. CASE i # n + 1
      <4>1. c[i] = pending[i] /\ i \in DOMAIN pending
        BY <1>8, <3>2
      <4>2. PICK j \in DOMAIN nested : nested[j].token = pending[i].token
        BY <2>4, <4>1 DEF Queueing
      <4> QED BY <1>9, <4>1, <4>2
    <3> QED BY <3>1, <3>2
  <2>5. ASSUME NEW j \in DOMAIN t PROVE \E i \in DOMAIN c : c[i].token = t[j].token /\ c[i].event = None
    <3>1. CASE j = 1
      BY <1>3, <1>5, <1>7, <1>8, <3>1
    <3>2. CASE j # 1
      <4>1. j - 1 \in DOMAIN nested /\ t[j] = nested[j - 1]
        BY <1>9, <3>2
      <4>2. PICK i \in DOMAIN pending : pending[i].token = nested[j - 1].token /\ pending[i].event = None
        BY <4>1 DEF Queueing
      <4> QED BY <1>8, <4>1, <4>2
    <3> QED BY <3>1, <3>2
  <2>6. c # <<>>
    BY <1>8, EmptySeq
  <2>7. c[1].token = Outermost'.token
    <3>1. CASE nested = <<>>
      <4>1. pending = <<>>
        BY <3>1 DEF Queueing
      <4>2. n = 0
        BY <4>1 DEF n
      <4> QED BY <1>3, <1>5, <1>13, <3>1, <4>2
    <3>2. CASE nested # <<>>
      <4>1. pending # <<>> /\ pending[1].token = Outermost.token
        BY <3>2 DEF Queueing
      <4>2. 1 \in DOMAIN pending
        <5>1. n # 0
          BY <1>1, <4>1, EmptySeq DEF n
        <5> QED BY <1>2, <5>1
      <4> QED BY <1>8, <1>13, <3>2, <4>1, <4>2
    <3> QED BY <3>1, <3>2
  <2>8. ~panicked'
    BY DEF Queueing
  <2>9. /\ \A i, j \in DOMAIN pending' : i < j => pending'[i].token < pending'[j].token
        /\ \A i \in DOMAIN pending' : pending'[i].token < next_id'
        /\ \A i, j \in DOMAIN nested' : i < j => nested'[i].token > nested'[j].token
    BY <1>4, <1>10, <2>1, <2>2, <2>3
  <2>12. \A i \in DOMAIN pending' : pending'[i].event = None =>
           \E j \in DOMAIN nested' : nested'[j].token = pending'[i].token
    BY <1>4, <1>10, <2>4
  <2>10. \A j \in DOMAIN nested' :
           \E i \in DOMAIN pending' : pending'[i].token = nested'[j].token /\ pending'[i].event = None
    BY <1>4, <1>10, <2>5
  <2>11. /\ nested' # <<>> /\ pending' # <<>> /\ pending'[1].token = Outermost'.token
         /\ heard' = <<>>
    BY <1>4, <1>10, <1>12, <2>6, <2>7
  <2> QED BY <2>8, <2>9, <2>10, <2>11, <2>12 DEF Queueing
<1>15. SentInside'
  <2>1. ASSUME NEW i \in DOMAIN t, i < Len(t) PROVE t[i].key \in SentKeys /\ t[i].kind # "char"
    <3>1. CASE i = 1
      <4>1. nested # <<>>
        <5>1. l # 0
          BY <1>6, <1>7, <2>1, <3>1
        <5> QED BY <5>1 DEF l
      <4> QED BY <1>7, <3>1, <4>1
    <3>2. CASE i # 1
      <4>1. i - 1 \in DOMAIN nested /\ t[i] = nested[i - 1] /\ i - 1 < l
        BY <1>6, <1>7, <1>9, <2>1, <3>2
      <4>2. i - 1 < Len(nested)
        BY <4>1 DEF l
      <4> QED BY <4>1, <4>2 DEF SentInside
    <3> QED BY <3>1, <3>2
  <2> QED BY <1>10, <2>1 DEF SentInside
<1>16. \A i \in DOMAIN c : c[i].event # None => WholeText(c[i].event)
  BY <1>3, <1>5, <1>8
<1>17. ASSUME NEW k PROVE (Spoken(c, k) <=> Spoken(pending, k)) /\ (SpokenDown(c, k) <=> SpokenDown(pending, k))
  <2>1. \A i \in DOMAIN c : c[i].event # None => i \in DOMAIN pending /\ c[i] = pending[i]
    BY <1>3, <1>5, <1>8
  <2>2. Spoken(c, k) <=> Spoken(pending, k)
    BY <1>8, <2>1 DEF Spoken
  <2>3. \A i \in DOMAIN pending : (\A j \in DOMAIN c : j > i => c[j].event = None \/ c[j].event.key # k)
           <=> (\A j \in DOMAIN pending : j > i => pending[j].event = None \/ pending[j].event.key # k)
    BY <1>8, <2>1
  <2>4. SpokenDown(c, k) <=> SpokenDown(pending, k)
    BY <1>8, <2>1, <2>3 DEF SpokenDown
  <2> QED BY <2>2, <2>4
<1>18. \A k : Alike(k)
  BY <1>4, <1>17 DEF Alike
<1>19. Len(nested') = Len(nested) + 1 /\ nested'[1] = f /\ nested' \in Seq(KeyFrames)
  BY <1>7, <1>10 DEF l
<1>20. pending' \in Seq(PendingEntries) /\ next_id' \in Nat
  BY <1>1, <1>4, <1>5, <1>10
<1> QED BY <1>4, <1>10, <1>12, <1>13, <1>14, <1>15, <1>16, <1>18, <1>19, <1>20

\* The events of a focus change: told at once, or after what waits.
LEMMA Multi ==
  ASSUME Typable, KeysTyped, Queueing, SentInside, NEW keys, keys \subseteq Pressable,
         NEW state \in {"pressed", "released"},
         Keyboard!CompleteMulti(Keyboard!Synthesized(keys, state)), nested' = nested, panicked' = panicked,
         \A i \in DOMAIN pending : pending[i].event # None => WholeText(pending[i].event)
  PROVE  /\ pending' \in Seq(PendingEntries) /\ next_id' \in Nat
         /\ heard' \in Seq(KeyEvents) /\ app_down' \subseteq Keyboard!Keys
         /\ \A i \in DOMAIN heard' : WholeText(heard'[i])
         /\ \A i \in DOMAIN pending' : pending'[i].event # None => WholeText(pending'[i].event)
         /\ Queueing' /\ SentInside'
         /\ nested = <<>> => pending = <<>> /\ pending' = <<>>
         /\ nested = <<>> => \A k : k \in app_down' <=> IF k \in keys THEN state = "pressed" ELSE k \in app_down
         /\ nested # <<>> => /\ app_down' = app_down
                             /\ \A k : Spoken(pending', k) <=> Spoken(pending, k) \/ k \in keys
                             /\ \A k : SpokenDown(pending', k) <=>
                                  IF k \in keys THEN state = "pressed" ELSE SpokenDown(pending, k)
<1> DEFINE e == Keyboard!Synthesized(keys, state)
           n == Len(pending)
           m == Len(e)
           w == [i \in DOMAIN e |-> [token |-> next_id + i - 1, event |-> e[i]]]
           c == pending \o w
<1>1. /\ e \in Seq(KeyEvents)
      /\ \A i \in DOMAIN e : e[i].key \in keys /\ e[i].state = state /\ WholeText(e[i])
      /\ \A i, j \in DOMAIN e : e[i].key = e[j].key => i = j
      /\ \A k \in keys : \E i \in DOMAIN e : e[i].key = k
  <2>1. IsFiniteSet(keys) /\ keys \subseteq Keyboard!Keys
    BY KeyFacts
  <2>2. e \in Seq(KeyEvents)
    BY <2>1, SynthesizedIs
  <2>3. \A i \in DOMAIN e : e[i].key \in keys /\ e[i].state = state /\ WholeText(e[i])
    BY <2>1, SynthesizedIs
  <2>4. \A i, j \in DOMAIN e : e[i].key = e[j].key => i = j
    BY <2>1, SynthesizedIs
  <2>5. \A k \in keys : \E i \in DOMAIN e : e[i].key = k
    BY <2>1, SynthesizedIs
  <2> QED BY <2>2, <2>3, <2>4, <2>5
<1>2. CASE pending = <<>>
  <2>1. nested = <<>>
    BY <1>2 DEF Queueing
  <2>2. heard' = e /\ app_down' = Keyboard!After(app_down, e) /\ pending' = pending /\ next_id' = next_id
    BY <1>2 DEF Keyboard!CompleteMulti, Keyboard!Dispatch
  <2> HIDE DEF e
  <2>3. ASSUME NEW k PROVE k \in app_down' <=> IF k \in keys THEN state = "pressed" ELSE k \in app_down
    <3>1. k \in app_down' <=>
           \/ k \in app_down /\ \A i \in DOMAIN e : e[i].key # k
           \/ \E i \in DOMAIN e : /\ e[i].key = k /\ e[i].state = "pressed"
                                  /\ \A j \in DOMAIN e : j > i => e[j].key # k
      BY <1>1, <2>2, AfterIs
    <3>2. CASE k \in keys
      <4>1. PICK i \in DOMAIN e : e[i].key = k
        BY <1>1, <3>2
      <4>2. e[i].state = state /\ \A j \in DOMAIN e : j > i => e[j].key # k
        <5>1. i \in Nat
          BY <1>1, <4>1
        <5> QED BY <1>1, <4>1, <5>1
      <4>3. \A j \in DOMAIN e : e[j].state = state
        BY <1>1
      <4> QED BY <3>1, <3>2, <4>1, <4>2, <4>3
    <3>3. CASE k \notin keys
      BY <1>1, <3>1, <3>3
    <3> QED BY <3>2, <3>3
  <2>4. app_down' \subseteq Keyboard!Keys
    BY <2>3, KeyFacts DEF KeysTyped
  <2>5. \A i \in DOMAIN heard' : WholeText(heard'[i])
    BY <1>1, <2>2
  <2>6. Queueing'
    BY <2>1, <2>2 DEF Queueing, Outermost
  <2>7. SentInside'
    BY DEF SentInside
  <2>8. pending' \in Seq(PendingEntries) /\ next_id' \in Nat
    BY <2>2 DEF KeysTyped
  <2>9. \A i \in DOMAIN pending' : pending'[i].event # None => WholeText(pending'[i].event)
    BY <2>2
  <2>10. heard' \in Seq(KeyEvents) /\ pending' = <<>>
    BY <1>1, <1>2, <2>2
  <2> QED BY <1>2, <2>1, <2>3, <2>4, <2>5, <2>6, <2>7, <2>8, <2>9, <2>10
<1>3. CASE pending # <<>>
  <2>1. nested # <<>>
    BY <1>3 DEF Queueing
  <2>2. /\ heard' = <<>> /\ app_down' = Keyboard!After(app_down, <<>>) /\ pending' = c
        /\ next_id' = next_id + Len(e)
    BY <1>3 DEF Keyboard!CompleteMulti, Keyboard!Dispatch
  <2>3. app_down' = app_down
    BY <2>2, NothingHeard
  <2> HIDE DEF e
  <2>4. /\ n \in Nat /\ DOMAIN pending = 1 .. n
        /\ \A i \in DOMAIN pending : /\ pending[i] \in PendingEntries /\ pending[i].token \in Nat
    BY PendingIs
  <2>5. m \in Nat /\ DOMAIN e = 1 .. m /\ next_id \in Nat /\ pending \in Seq(PendingEntries)
    BY <1>1 DEF KeysTyped
  <2>6. \A i \in DOMAIN e : e[i] \in KeyEvents
    BY <1>1
  <2>7. ASSUME NEW i \in DOMAIN e
        PROVE w[i] \in PendingEntries /\ w[i].token = next_id + i - 1 /\ w[i].event = e[i] /\ w[i].token \in Nat
    BY <2>5, <2>6 DEF PendingEntries
  <2>8. DOMAIN w = 1 .. m
    BY <2>5
  <2> HIDE DEF m, n, w
  <2>9. w \in Seq(PendingEntries) /\ Len(w) = m
    <3>1. w = [i \in 1 .. m |-> w[i]]
      BY <2>5 DEF w
    <3>2. w \in [1 .. m -> PendingEntries]
      BY <2>5, <2>7, <2>8, <3>1
    <3> QED BY <2>5, <3>2, SeqDef
  <2>10. /\ c \in Seq(PendingEntries) /\ Len(c) = n + m /\ DOMAIN c = 1 .. n + m
         /\ \A i \in 1 .. n : c[i] = pending[i]
         /\ \A i \in 1 .. m : c[n + i] = w[i]
    <3> DEFINE p == pending
    <3>1. p \in Seq(PendingEntries) /\ Len(p) = n /\ w \in Seq(PendingEntries) /\ Len(w) = m /\ c = p \o w
      BY <2>5, <2>9 DEF n
    <3> HIDE DEF p, c
    <3>2. c \in Seq(PendingEntries) /\ Len(c) = n + m
      BY <3>1, ConcatProperties
    <3>6. \A i \in 1 .. n + m : c[i] = IF i <= n THEN p[i] ELSE w[i - n]
      BY <3>1, ConcatProperties
    <3>3. DOMAIN c = 1 .. n + m
      BY <3>2
    <3>4. \A i \in 1 .. n : c[i] = p[i]
      BY <2>4, <2>5, <3>6
    <3>5. \A i \in 1 .. m : c[n + i] = w[i]
      <4> SUFFICES ASSUME NEW i \in 1 .. m PROVE c[n + i] = w[i]
        OBVIOUS
      <4>1. n + i \in 1 .. n + m /\ ~(n + i <= n) /\ (n + i) - n = i
        BY <2>4, <2>5
      <4> QED BY <3>6, <4>1
    <3> QED BY <3>2, <3>3, <3>4, <3>5 DEF p
  <2> HIDE DEF c
  <2>11. /\ \A i \in DOMAIN pending : i \in DOMAIN c /\ c[i] = pending[i]
         /\ \A i \in DOMAIN c : i \in DOMAIN pending \/ (i > n /\ i - n \in DOMAIN e /\ c[i] = w[i - n])
         /\ \A i \in DOMAIN e : n + i \in DOMAIN c /\ c[n + i] = w[i] /\ n + i > n
         /\ \A i \in DOMAIN pending : ~(i > n)
    <3>1. \A i \in DOMAIN c : i > n => i - n \in 1 .. m /\ n + (i - n) = i
      BY <2>4, <2>5, <2>10
    <3>2. \A i \in DOMAIN c : ~(i > n) => i \in 1 .. n
      BY <2>4, <2>5, <2>10
    <3>3. \A i \in 1 .. n : i \in DOMAIN c /\ ~(i > n)
      BY <2>4, <2>5, <2>10
    <3>4. \A i \in 1 .. m : n + i \in DOMAIN c /\ n + i > n
      BY <2>4, <2>5, <2>10
    <3> QED BY <2>4, <2>5, <2>10, <3>1, <3>2, <3>3, <3>4
  <2>12. \A i \in DOMAIN c : c[i].event # None \/ i \in DOMAIN pending
    <3>1. None \notin KeyEvents
      BY DEF Typable
    <3> QED BY <2>6, <2>7, <2>11, <3>1
  <2>13. \A i \in DOMAIN c : c[i].event # None => WholeText(c[i].event)
    BY <1>1, <2>7, <2>11
  <2>14. Queueing'
    <3>1. ASSUME NEW i \in DOMAIN c, NEW j \in DOMAIN c, i < j PROVE c[i].token < c[j].token
      <4>1. CASE j \in DOMAIN pending
        <5>1. i \in DOMAIN pending
          BY <2>4, <2>10, <3>1, <4>1
        <5> QED BY <2>11, <3>1, <4>1, <5>1 DEF Queueing
      <4>2. CASE j \notin DOMAIN pending /\ i \in DOMAIN pending
        <5>1. j - n \in DOMAIN e /\ c[j].token = next_id + (j - n) - 1
          BY <2>7, <2>11, <4>2
        <5>2. c[i].token < next_id /\ c[i].token \in Nat
          BY <2>4, <2>11, <4>2 DEF Queueing
        <5>3. j - n \in Nat /\ j - n > 0
          BY <2>5, <5>1
        <5> DEFINE d == j - n
        <5> HIDE DEF d
        <5>4. d \in Nat /\ d > 0 /\ c[j].token = next_id + d - 1
          BY <5>1, <5>3 DEF d
        <5> QED BY <2>5, <5>2, <5>4
      <4>3. CASE j \notin DOMAIN pending /\ i \notin DOMAIN pending
        <5>1. /\ j - n \in DOMAIN e /\ c[j].token = next_id + (j - n) - 1
              /\ i - n \in DOMAIN e /\ c[i].token = next_id + (i - n) - 1
          BY <2>7, <2>11, <4>3
        <5> QED BY <2>4, <2>5, <2>10, <3>1, <5>1
      <4> QED BY <4>1, <4>2, <4>3
    <3>2. ASSUME NEW i \in DOMAIN c PROVE c[i].token < next_id + m
      <4>1. CASE i \in DOMAIN pending
        <5>1. c[i].token < next_id /\ c[i].token \in Nat
          BY <2>4, <2>11, <4>1 DEF Queueing
        <5> QED BY <2>5, <5>1
      <4>2. CASE i \notin DOMAIN pending
        <5>1. i - n \in DOMAIN e /\ c[i].token = next_id + (i - n) - 1
          BY <2>7, <2>11, <4>2
        <5> DEFINE d == i - n
        <5> HIDE DEF d
        <5>2. d \in 1 .. m /\ c[i].token = next_id + d - 1
          BY <2>5, <5>1 DEF d
        <5> QED BY <2>5, <5>2
      <4> QED BY <4>1, <4>2
    <3>3. ASSUME NEW i \in DOMAIN c, c[i].event = None PROVE \E j \in DOMAIN nested : nested[j].token = c[i].token
      BY <2>11, <2>12, <3>3 DEF Queueing
    <3>4. ASSUME NEW j \in DOMAIN nested PROVE \E i \in DOMAIN c : c[i].token = nested[j].token /\ c[i].event = None
      <4>1. PICK i \in DOMAIN pending : pending[i].token = nested[j].token /\ pending[i].event = None
        BY DEF Queueing
      <4> QED BY <2>11, <4>1
    <3>5. 1 \in DOMAIN pending
      <4>1. n # 0
        BY <1>3, <2>5, EmptySeq DEF n
      <4> QED BY <2>4, <4>1
    <3>6. c # <<>> /\ c[1].token = Outermost.token
      <4>1. pending[1].token = Outermost.token
        BY <2>1 DEF Queueing
      <4> QED BY <2>11, <3>5, <4>1, EmptySeq
    <3>7. Outermost' = Outermost
      BY DEF Outermost
    <3>8. ~panicked'
      BY DEF Queueing
    <3>9. pending' = c /\ next_id' = next_id + m /\ heard' = <<>>
      BY <2>2 DEF m
    <3>10. /\ \A i, j \in DOMAIN pending' : i < j => pending'[i].token < pending'[j].token
           /\ \A i \in DOMAIN pending' : pending'[i].token < next_id'
           /\ \A i, j \in DOMAIN nested' : i < j => nested'[i].token > nested'[j].token
      BY <3>1, <3>2, <3>9 DEF Queueing
    <3>11. /\ \A i \in DOMAIN pending' : pending'[i].event = None =>
                \E j \in DOMAIN nested' : nested'[j].token = pending'[i].token
           /\ \A j \in DOMAIN nested' :
                \E i \in DOMAIN pending' : pending'[i].token = nested'[j].token /\ pending'[i].event = None
      BY <3>3, <3>4, <3>9
    <3>12. /\ nested' # <<>> /\ pending' # <<>> /\ pending'[1].token = Outermost'.token
           /\ heard' = <<>>
      BY <2>1, <3>6, <3>7, <3>9
    <3> QED BY <3>8, <3>10, <3>11, <3>12 DEF Queueing
  <2>15. ASSUME NEW k
         PROVE  /\ Spoken(c, k) <=> Spoken(pending, k) \/ k \in keys
                /\ SpokenDown(c, k) <=> IF k \in keys THEN state = "pressed" ELSE SpokenDown(pending, k)
    <3>1. \A i \in DOMAIN c : i \notin DOMAIN pending =>
            i - n \in DOMAIN e /\ i > n /\ c[i].event = e[i - n] /\ c[i].event # None
      BY <2>7, <2>11, <2>12
    <3>2. CASE k \in keys
      <4>1. PICK i \in DOMAIN e : e[i].key = k
        BY <1>1, <3>2
      <4>2. n + i \in DOMAIN c /\ c[n + i].event = e[i] /\ n + i > n /\ n + i \notin DOMAIN pending
        BY <2>7, <2>11, <4>1
      <4>3. c[n + i].event # None /\ c[n + i].event.key = k /\ c[n + i].event.state = state
        BY <1>1, <2>12, <4>1, <4>2
      <4>4. ASSUME NEW j \in DOMAIN c, j > n + i PROVE c[j].event.key # k
        <5>1. j > n
          BY <2>4, <2>5, <2>10, <4>1, <4>4
        <5>2. j - n \in DOMAIN e /\ c[j].event = e[j - n] /\ j - n # i
          BY <2>4, <2>5, <2>10, <2>11, <3>1, <4>1, <4>4, <5>1
        <5> QED BY <1>1, <4>1, <5>2
      <4>5. ASSUME NEW j \in DOMAIN c, c[j].event # None, c[j].event.key = k,
                   \A l \in DOMAIN c : l > j => c[l].event = None \/ c[l].event.key # k
            PROVE  c[j].event.state = state
        <5>1. ~(n + i > j)
          BY <4>2, <4>3, <4>5
        <5>2. ~(j > n + i)
          BY <4>4, <4>5
        <5>3. j = n + i
          <6>1. j \in Nat /\ n + i \in Nat
            BY <2>4, <2>5, <2>10, <4>2
          <6> QED BY <5>1, <5>2, <6>1
        <5> QED BY <4>3, <5>3
      <4>6. Spoken(c, k)
        BY <4>2, <4>3 DEF Spoken
      <4>7. SpokenDown(c, k) <=> state = "pressed"
        <5>1. ASSUME SpokenDown(c, k) PROVE state = "pressed"
          BY <4>5, <5>1 DEF SpokenDown
        <5>2. ASSUME state = "pressed" PROVE SpokenDown(c, k)
          BY <4>2, <4>3, <4>4, <5>2 DEF SpokenDown
        <5> QED BY <5>1, <5>2
      <4> QED BY <3>2, <4>6, <4>7
    <3>3. CASE k \notin keys
      <4>1. \A i \in DOMAIN c : c[i].event # None /\ c[i].event.key = k => i \in DOMAIN pending /\ c[i] = pending[i]
        BY <1>1, <2>11, <3>1, <3>3
      <4>2. Spoken(c, k) <=> Spoken(pending, k)
        BY <2>11, <4>1 DEF Spoken
      <4>3. \A i \in DOMAIN pending : (\A j \in DOMAIN c : j > i => c[j].event = None \/ c[j].event.key # k)
               <=> (\A j \in DOMAIN pending : j > i => pending[j].event = None \/ pending[j].event.key # k)
        BY <2>11, <4>1
      <4>4. SpokenDown(c, k) <=> SpokenDown(pending, k)
        BY <2>11, <4>1, <4>3 DEF SpokenDown
      <4> QED BY <3>3, <4>2, <4>4
    <3> QED BY <3>2, <3>3
  <2>16. next_id' \in Nat
    BY <2>2, <2>5 DEF m
  <2>17. SentInside'
    BY DEF SentInside
  <2>18. \A k : /\ Spoken(pending', k) <=> Spoken(pending, k) \/ k \in keys
                /\ SpokenDown(pending', k) <=> IF k \in keys THEN state = "pressed" ELSE SpokenDown(pending, k)
    BY <2>2, <2>15
  <2>19. app_down' \subseteq Keyboard!Keys /\ heard' \in Seq(KeyEvents)
    BY <2>2, <2>3 DEF KeysTyped
  <2>20. \A i \in DOMAIN heard' : WholeText(heard'[i])
    BY <2>2
  <2>21. pending' \in Seq(PendingEntries) /\ \A i \in DOMAIN pending' : pending'[i].event # None => WholeText(pending'[i].event)
    BY <2>2, <2>10, <2>13
  <2> QED BY <2>1, <2>3, <2>14, <2>16, <2>17, <2>18, <2>19, <2>20, <2>21
<1> QED BY <1>2, <1>3

----
(* The user strikes keys *)

\* What a key adds to the messages of the queue.
LEMMA HardwareIs ==
  ASSUME Typable, NEW s \in Seq(InputMessages), NEW kind \in {"keydown", "keyup"}, NEW k \in Pressable
  PROVE  /\ Keyboard!Message(kind, k) \in InputMessages /\ Keyboard!Message(kind, Keyboard!Ctrl) \in InputMessages
         /\ k \notin AltGrs => s \o Keyboard!Hardware(kind, k) = Append(s, Keyboard!Message(kind, k))
         /\ k \in AltGrs => s \o Keyboard!Hardware(kind, k) =
              Append(Append(s, Keyboard!Message(kind, Keyboard!Ctrl)), Keyboard!Message(kind, k))
<1> DEFINE m == Keyboard!Message(kind, k)
           c == Keyboard!Message(kind, Keyboard!Ctrl)
<1>1. m \in InputMessages /\ c \in InputMessages
  BY KeyFacts DEF Keyboard!Message, InputMessages
<1>2. k \in Keyboard!Keys /\ (k \in AltGrs <=> Kinds[k] = "altgr")
  BY KeyFacts
<1>3. Keyboard!Hardware(kind, k) = IF k \in AltGrs THEN <<c, m>> ELSE <<m>>
  BY <1>2 DEF Keyboard!Hardware
<1> HIDE DEF m, c
<1>4. s \o <<m>> = Append(s, m)
  BY <1>1
<1>5. s \o <<c, m>> = Append(Append(s, c), m)
  BY <1>1
<1> QED BY <1>1, <1>3, <1>4, <1>5 DEF m, c

StrokeOf(keys, s, kind, k, t) ==
  /\ t \in Seq(InputMessages) /\ t # <<>>
  /\ \A i \in DOMAIN s : i \in DOMAIN t /\ t[i] = s[i]
  /\ \A i \in DOMAIN t : \/ i \in DOMAIN s
                         \/ /\ i = Len(s) + 1 /\ t[i].kind = kind
                            /\ t[i].key = IF k \in AltGrs THEN Keyboard!Ctrl ELSE k
                         \/ /\ i = Len(s) + 2 /\ k \in AltGrs /\ t[i] = Keyboard!Message(kind, k)
                            /\ t[i - 1] = Keyboard!Message(kind, Keyboard!Ctrl)
  /\ \A n \in 0 .. Len(s) : \A q : DownAt(keys, t, n, q) <=> DownAt(keys, s, n, q)
  /\ \A q : DownAt(keys, t, Len(t), q) <=>
       IF q = k \/ (k \in AltGrs /\ q = Keyboard!Ctrl) THEN kind = "keydown" ELSE DownAt(keys, s, Len(s), q)
  /\ \A q : (\E i \in DOMAIN t : t[i].key = q) =>
       q = k \/ (k \in AltGrs /\ q = Keyboard!Ctrl) \/ (\E i \in DOMAIN s : s[i].key = q)
  /\ \A i \in DOMAIN t : FakeAt(t, i) <=> (i \in DOMAIN s /\ FakeAt(s, i)) \/ (k \in AltGrs /\ i = Len(s) + 1)
  /\ \A n \in 0 .. Len(s) : AltGrAt(keys, t, n) <=> AltGrAt(keys, s, n)
LEMMA StrokeIs ==
  ASSUME Typable, NEW keys, NEW s \in Seq(InputMessages), NEW kind \in {"keydown", "keyup"}, NEW k \in Pressable,
         NEW t, t = s \o Keyboard!Hardware(kind, k)
  PROVE  StrokeOf(keys, s, kind, k, t)
<1> DEFINE m == Keyboard!Message(kind, k)
           c == Keyboard!Message(kind, Keyboard!Ctrl)
           l == Len(s)
<1>1. /\ m \in InputMessages /\ c \in InputMessages
      /\ k \notin AltGrs => t = Append(s, m)
      /\ k \in AltGrs => t = Append(Append(s, c), m)
  BY HardwareIs
<1>2. l \in Nat /\ DOMAIN s = 1 .. l
  OBVIOUS
<1>3. m.kind = kind /\ m.key = k /\ c.kind = kind /\ c.key = Keyboard!Ctrl
  BY DEF Keyboard!Message
<1>4. Keyboard!Ctrl \notin AltGrs /\ \A i \in DOMAIN s : s[i].key \in Pressable
  <2>1. \A i \in DOMAIN s : s[i] \in InputMessages
    OBVIOUS
  <2> QED BY <2>1, KeyFacts DEF InputMessages
<1> HIDE DEF m, c, l
<1>5. CASE k \notin AltGrs
  <2>1. /\ t \in Seq(InputMessages) /\ Len(t) = l + 1 /\ DOMAIN t = 1 .. l + 1 /\ t[l + 1] = m
        /\ \A i \in 1 .. l : t[i] = s[i]
    <3>1. t = Append(s, m)
      BY <1>1, <1>5
    <3>2. /\ Append(s, m) \in Seq(InputMessages) /\ Len(Append(s, m)) = l + 1 /\ Append(s, m)[l + 1] = m
          /\ \A i \in 1 .. l : Append(s, m)[i] = s[i]
      BY <1>1, AppendProperties DEF l
    <3>3. t \in Seq(InputMessages) /\ Len(t) = l + 1
      BY <3>1, <3>2
    <3>4. DOMAIN t = 1 .. l + 1
      BY <3>3
    <3> QED BY <3>1, <3>2, <3>3, <3>4
  <2>2. t # <<>>
    BY <1>2, <2>1, EmptySeq
  <2>3. \A i \in DOMAIN t : i \in DOMAIN s \/ i = l + 1
    BY <1>2, <2>1
  <2>4. \A i \in DOMAIN s : i \in DOMAIN t
    BY <1>2, <2>1
  <2>5. \A n \in 0 .. l : \A q : DownAt(keys, t, n, q) <=> DownAt(keys, s, n, q)
    <3>1. \A n \in 0 .. l : \A q : DownAt(keys, Append(s, m), n, q) <=> DownAt(keys, s, n, q)
      BY <1>1, DownAtBefore DEF l
    <3>2. t = Append(s, m)
      BY <1>1, <1>5
    <3> QED BY <3>1, <3>2
  <2>6. \A q : DownAt(keys, t, Len(t), q) <=> IF q = k THEN kind = "keydown" ELSE DownAt(keys, s, l, q)
    <3> SUFFICES ASSUME NEW q
                 PROVE DownAt(keys, t, Len(t), q) <=> IF q = k THEN kind = "keydown" ELSE DownAt(keys, s, l, q)
      OBVIOUS
    <3>1. DownAt(keys, Append(s, m), l + 1, q) <=> IF m.key = q THEN m.kind = "keydown" ELSE DownAt(keys, s, l, q)
      BY <1>1, DownAtAfter DEF l
    <3> QED BY <1>1, <1>3, <1>5, <2>1, <3>1
  <2>7. ASSUME NEW i \in DOMAIN t PROVE FakeAt(t, i) <=> i \in DOMAIN s /\ FakeAt(s, i)
    <3>1. CASE i = l + 1
      BY <1>2, <2>1, <3>1 DEF FakeAt
    <3>2. CASE i = l
      <4>1. t[i + 1] = m
        BY <2>1, <3>2
      <4> QED BY <1>3, <1>5, <3>2, <4>1 DEF FakeAt, l
    <3>3. CASE i # l /\ i # l + 1
      <4>0. i \in 1 .. l + 1 /\ l \in Nat /\ i # l /\ i # l + 1
        BY <1>2, <2>1, <3>3
      <4>1. i \in DOMAIN s /\ i + 1 \in 1 .. l /\ i < l /\ i < l + 1 /\ i \in 1 .. l
        <5>1. i + 1 \in 1 .. l /\ i < l /\ i < l + 1 /\ i \in 1 .. l
          BY <4>0
        <5> QED BY <1>2, <5>1
      <4>2. t[i] = s[i] /\ t[i + 1] = s[i + 1]
        BY <2>1, <4>1
      <4> QED BY <2>1, <4>1, <4>2 DEF FakeAt, l
    <3> QED BY <3>1, <3>2, <3>3
  <2>8. \A n \in 0 .. l : AltGrAt(keys, t, n) <=> AltGrAt(keys, s, n)
    BY <2>5 DEF AltGrAt
  <2>9. \A i \in DOMAIN t : i \in DOMAIN s \/ (i = l + 1 /\ t[i].kind = kind /\ t[i].key = k)
    BY <1>3, <2>1, <2>3
  <2>10. \A i \in DOMAIN s : t[i] = s[i]
    BY <1>2, <2>1
  <2>11. \A q : (\E i \in DOMAIN t : t[i].key = q) => q = k \/ (\E i \in DOMAIN s : s[i].key = q)
    BY <2>9, <2>10
  <2> QED BY <1>5, <2>1, <2>2, <2>4, <2>5, <2>6, <2>7, <2>8, <2>9, <2>10, <2>11 DEF StrokeOf, l
<1>6. CASE k \in AltGrs
  <2> DEFINE u == Append(s, c)
  <2>1. /\ u \in Seq(InputMessages) /\ Len(u) = l + 1 /\ DOMAIN u = 1 .. l + 1 /\ u[l + 1] = c
        /\ \A i \in 1 .. l : u[i] = s[i]
    BY <1>1 DEF l
  <2>2. t = Append(u, m)
    BY <1>1, <1>6
  <2>3. \A n \in 0 .. l : \A q : DownAt(keys, u, n, q) <=> DownAt(keys, s, n, q)
    BY <1>1, DownAtBefore DEF l
  <2>4. \A q : DownAt(keys, u, l + 1, q) <=> IF c.key = q THEN c.kind = "keydown" ELSE DownAt(keys, s, l, q)
    BY <1>1, DownAtAfter DEF l
  <2> HIDE DEF u
  <2>5. /\ t \in Seq(InputMessages) /\ Len(t) = l + 2 /\ DOMAIN t = 1 .. l + 2 /\ t[l + 2] = m
        /\ \A i \in 1 .. l + 1 : t[i] = u[i]
    <3>1. t \in Seq(InputMessages) /\ Len(t) = l + 2
      BY <1>1, <1>2, <2>1, <2>2
    <3>2. DOMAIN t = 1 .. l + 2 /\ l + 2 = Len(u) + 1
      BY <1>2, <2>1, <3>1
    <3>3. t[Len(u) + 1] = m /\ \A i \in 1 .. Len(u) : t[i] = u[i]
      BY <1>1, <2>1, <2>2
    <3> QED BY <2>1, <3>1, <3>2, <3>3
  <2>6. t[l + 1] = c /\ (\A i \in 1 .. l : t[i] = s[i]) /\ l + 1 \in 1 .. l + 1 /\ (l + 2) - 1 = l + 1
    <3>1. l + 1 \in 1 .. l + 1 /\ (\A i \in 1 .. l : i \in 1 .. l + 1) /\ (l + 2) - 1 = l + 1
      BY <1>2
    <3> QED BY <2>1, <2>5, <3>1
  <2>7. t # <<>>
    BY <1>2, <2>5, EmptySeq
  <2>8. \A i \in DOMAIN t : i \in DOMAIN s \/ i = l + 1 \/ i = l + 2
    BY <1>2, <2>5
  <2>9. \A i \in DOMAIN s : i \in DOMAIN t
    BY <1>2, <2>5
  <2>10. \A n \in 0 .. l + 1 : \A q : DownAt(keys, t, n, q) <=> DownAt(keys, u, n, q)
    BY <1>1, <2>1, <2>2, DownAtBefore
  <2>11. \A n \in 0 .. l : \A q : DownAt(keys, t, n, q) <=> DownAt(keys, s, n, q)
    <3>1. \A n \in 0 .. l : n \in 0 .. l + 1
      BY <1>2
    <3> QED BY <2>3, <2>10, <3>1
  <2>12. ASSUME NEW q
         PROVE DownAt(keys, t, Len(t), q) <=>
                 IF q = k \/ q = Keyboard!Ctrl THEN kind = "keydown" ELSE DownAt(keys, s, l, q)
    <3>1. DownAt(keys, Append(u, m), Len(u) + 1, q) <=> IF m.key = q THEN m.kind = "keydown" ELSE DownAt(keys, u, Len(u), q)
      BY <1>1, <2>1, DownAtAfter
    <3>2. Len(u) + 1 = Len(t)
      BY <1>2, <2>1, <2>5
    <3> QED BY <1>3, <2>1, <2>2, <2>4, <3>1, <3>2
  <2>13. ASSUME NEW i \in DOMAIN t PROVE FakeAt(t, i) <=> (i \in DOMAIN s /\ FakeAt(s, i)) \/ i = l + 1
    <3>1. CASE i = l + 1
      <4>1. i < Len(t) /\ t[i] = c /\ t[i + 1] = m
        <5>1. i + 1 = l + 2 /\ i < l + 2
          BY <1>2, <3>1
        <5> QED BY <2>5, <2>6, <3>1, <5>1
      <4> QED BY <1>3, <1>6, <3>1, <4>1 DEF FakeAt
    <3>2. CASE i = l + 2
      BY <1>2, <2>5, <3>2 DEF FakeAt
    <3>3. CASE i = l
      <4>1. t[i + 1] = c
        BY <2>6, <3>3
      <4>3. ~(l < l) /\ l # l + 1
        BY <1>2
      <4>2. ~(i < Len(s)) /\ i # l + 1
        BY <3>3, <4>3 DEF l
      <4> QED BY <1>3, <1>4, <4>1, <4>2 DEF FakeAt
    <3>4. CASE i # l /\ i # l + 1 /\ i # l + 2
      <4>1. i \in DOMAIN s /\ i + 1 \in 1 .. l /\ i < l /\ i < l + 2 /\ i \in 1 .. l
        BY <1>2, <2>5, <3>4
      <4>2. t[i] = s[i] /\ t[i + 1] = s[i + 1]
        BY <2>6, <4>1
      <4> QED BY <2>5, <3>4, <4>1, <4>2 DEF FakeAt, l
    <3> QED BY <3>1, <3>2, <3>3, <3>4
  <2>14. \A n \in 0 .. l : AltGrAt(keys, t, n) <=> AltGrAt(keys, s, n)
    BY <2>11 DEF AltGrAt
  <2>15. \A i \in DOMAIN t : \/ i \in DOMAIN s
                             \/ i = l + 1 /\ t[i].kind = kind /\ t[i].key = Keyboard!Ctrl
                             \/ i = l + 2 /\ t[i] = m /\ t[i - 1] = c
    BY <1>3, <2>5, <2>6, <2>8
  <2>16. \A i \in DOMAIN s : t[i] = s[i]
    BY <1>2, <2>6
  <2>17. \A q : (\E i \in DOMAIN t : t[i].key = q) => q = k \/ q = Keyboard!Ctrl \/ (\E i \in DOMAIN s : s[i].key = q)
    BY <1>3, <2>15, <2>16
  <2> QED BY <1>6, <2>5, <2>7, <2>9, <2>11, <2>12, <2>13, <2>14, <2>15, <2>16, <2>17 DEF StrokeOf, l, m, c
<1> QED BY <1>5, <1>6

\* What a step that leaves the messages under way alone leaves alone.
LEMMA StageSame ==
  ASSUME event_info' = event_info, posted' = posted, nested' = nested
  PROVE  /\ Outermost' = Outermost /\ (Wordless' <=> Wordless) /\ (Spelling' <=> Spelling)
         /\ (sent' = sent => (Translated' <=> Translated))
<1>1. Outermost' = Outermost
  BY DEF Outermost
<1>2. Wordless' <=> Wordless
  BY <1>1 DEF Wordless
<1>3. Spelling' <=> Spelling
  BY DEF Spelling
<1>4. Keyboard!Characters(Outermost)' = Keyboard!Characters(Outermost)
  BY <1>1 DEF Keyboard!Characters
<1>5. sent' = sent => (Translated' <=> Translated)
  BY <1>1, <1>4 DEF Translated
<1> QED BY <1>1, <1>2, <1>3, <1>5

LEMMA OutlookSame ==
  ASSUME event_info' = event_info, posted' = posted, nested' = nested, pending' = pending, app_down' = app_down,
         NextIsAltGr' <=> NextIsAltGr, NEW k
  PROVE  /\ Outlook(k)' <=> Outlook(k)
         /\ Spoken(pending, k)' <=> Spoken(pending, k)
<1>1. Outermost' = Outermost /\ (Spelling' <=> Spelling)
  BY StageSame
<1>2. Spoken(pending, k)' <=> Spoken(pending, k)
  BY DEF Spoken
<1>3. SpokenDown(pending, k)' <=> SpokenDown(pending, k)
  BY DEF SpokenDown
<1>4. Underway(k)' <=> Underway(k)
  BY <1>1 DEF Underway
<1> QED BY <1>1, <1>2, <1>3, <1>4 DEF Outlook

LEMMA FocusSame ==
  ASSUME sent' = sent, foreground' = foreground, is_active' = is_active, is_focused' = is_focused
  PROVE  /\ Focused' <=> Focused
         /\ Gaining' <=> Gaining
         /\ Gained' <=> Gained
         /\ Losing' <=> Losing
         /\ Lost' <=> Lost
         /\ Unfocused' <=> Unfocused
BY DEF Focused, Gaining, Gained, Losing, Lost, Unfocused

\* With the focus and nothing sent, the focus is known of.
LEMMA FocusIs ==
  ASSUME FocusTold
  PROVE  /\ sent = <<>> => Focused \/ Unfocused
         /\ foreground => Focused \/ Gaining \/ Gained
         /\ ~foreground => Losing \/ Lost \/ Unfocused
         /\ Gaining \/ Gained \/ Losing \/ Lost => ~Focused /\ sent # <<>>
         /\ Focused => ~Gaining /\ ~Gained /\ ~Losing /\ ~Lost /\ ~Unfocused
BY DEF FocusTold, Focused, Gaining, Gained, Losing, Lost, Unfocused

\* A key is pressed or released.
LEMMA Struck ==
  ASSUME Typable, KeyInv, NEW k \in Pressable, NEW kind \in {"keydown", "keyup"}, heard' = <<>>,
         event_info' = event_info, pending' = pending, next_id' = next_id, panicked' = panicked, nested' = nested,
         is_active' = is_active, is_focused' = is_focused, modifiers_state' = modifiers_state,
         kbd_state' = kbd_state, posted' = posted, sent' = sent, foreground' = foreground, env' = env,
         app_down' = app_down, app_modifiers' = app_modifiers,
         input' = IF foreground THEN input \o Keyboard!Hardware(kind, k) ELSE input,
         kind = "keydown" => /\ down' = down \cup {k}
                             /\ k = Keyboard!Ctrl => down \cap AltGrs = {}
                             /\ k \in AltGrs => Keyboard!Ctrl \notin down /\ sent = <<>>,
         kind = "keyup" => k \in down /\ down' = down \ {k}
  PROVE  KeyInv'
<1>0. KeysTyped /\ Queueing /\ SentInside /\ Texts /\ FocusTold /\ Leading /\ Paired /\ Apiece /\ Truthful
  BY DEF KeyInv
<1> DEFINE own(q) == q = k \/ (k \in AltGrs /\ q = Keyboard!Ctrl)
<1>1. input \in Seq(InputMessages) /\ down \subseteq Pressable /\ DOMAIN input = 1 .. Len(input) /\ Len(input) \in Nat
  <2>1. input \in Seq(InputMessages) /\ down \subseteq Pressable
    BY <1>0 DEF KeysTyped
  <2> QED BY <2>1
<1>2. foreground =>
         /\ input' \in Seq(InputMessages) /\ input' # <<>>
         /\ \A i \in DOMAIN input : i \in DOMAIN input' /\ input'[i] = input[i]
         /\ \A i \in DOMAIN input' : \/ i \in DOMAIN input
                                \/ /\ i = Len(input) + 1 /\ input'[i].kind = kind
                                   /\ input'[i].key = IF k \in AltGrs THEN Keyboard!Ctrl ELSE k
                                \/ /\ i = Len(input) + 2 /\ k \in AltGrs /\ input'[i] = Keyboard!Message(kind, k)
                                   /\ input'[i - 1] = Keyboard!Message(kind, Keyboard!Ctrl)
         /\ \A n \in 0 .. Len(input) : \A q : DownAt(kbd_state, input', n, q) <=> DownAt(kbd_state, input, n, q)
         /\ \A q : DownAt(kbd_state, input', Len(input'), q) <=>
              IF own(q) THEN kind = "keydown" ELSE DownAt(kbd_state, input, Len(input), q)
         /\ \A q : (\E i \in DOMAIN input' : input'[i].key = q) =>
              own(q) \/ (\E i \in DOMAIN input : input[i].key = q)
         /\ \A i \in DOMAIN input' : FakeAt(input', i) <=>
              (i \in DOMAIN input /\ FakeAt(input, i)) \/ (k \in AltGrs /\ i = Len(input) + 1)
         /\ \A n \in 0 .. Len(input) : AltGrAt(kbd_state, input', n) <=> AltGrAt(kbd_state, input, n)
  <2> SUFFICES ASSUME foreground PROVE StrokeOf(kbd_state, input, kind, k, input')
    BY DEF StrokeOf
  <2>1. input' = input \o Keyboard!Hardware(kind, k)
    OBVIOUS
  <2> QED BY <1>1, <2>1, StrokeIs
<1>3. /\ Keyboard!Ctrl \notin AltGrs /\ AltGrs \subseteq Pressable /\ Keyboard!Ctrl \in Pressable
      /\ \A j, l \in AltGrs : j = l
      /\ AltGrs = Keyboard!KeysOf("altgr")
  BY KeyFacts DEF Typable, AltGrs
<1>4. /\ down' \subseteq Pressable
      /\ \A q : q # k => (q \in down' <=> q \in down)
      /\ k \in down' <=> kind = "keydown"
  BY <1>1
<1>5. /\ Focused' <=> Focused
      /\ Gaining' <=> Gaining
      /\ Gained' <=> Gained
      /\ Losing' <=> Losing
      /\ Lost' <=> Lost
      /\ Unfocused' <=> Unfocused
  BY FocusSame
<1>6. KeysTyped'
  BY <1>0, <1>1, <1>2, <1>4 DEF KeysTyped
<1>7. Queueing' /\ SentInside'
  BY <1>0 DEF Queueing, SentInside, Outermost
<1>8. Texts'
  <2>1. (Wordless' <=> Wordless) /\ (Translated' <=> Translated) /\ (Spelling' <=> Spelling)
    BY StageSame
  <2>2. \A q : Spoken(pending', q) <=> Spoken(pending, q)
    OBVIOUS
  <2> QED BY <1>0, <2>1, <2>2 DEF Texts
<1>9. FocusTold'
  <2>1. ~foreground' => input' = <<>>
    BY <1>0 DEF FocusTold
  <2>2. Keyboard!AgnosticMods(kbd_state)' = Keyboard!AgnosticMods(kbd_state)
    BY DEF Keyboard!AgnosticMods
  <2> QED BY <1>0, <1>5, <2>1, <2>2 DEF FocusTold
<1>10. \A q : q \in Keyboard!Async <=> q \in down \/ (q = Keyboard!Ctrl /\ down \cap AltGrs # {})
  BY <1>3 DEF Keyboard!Async
<1>11. \A q : q \in Keyboard!Async' <=> q \in down' \/ (q = Keyboard!Ctrl /\ down' \cap AltGrs # {})
  BY <1>3 DEF Keyboard!Async
<1>12. \A q \in AltGrs : q \in down => Keyboard!Ctrl \notin down
  BY <1>0 DEF Apiece
<1>13. foreground /\ (Focused \/ (\E i \in DOMAIN input : input[i].key = Keyboard!Ctrl)) =>
         (DownAt(kbd_state, input, Len(input), Keyboard!Ctrl) <=> Keyboard!Ctrl \in Keyboard!Async)
  BY <1>0, <1>3 DEF Leading
<1>14. Leading'
  <2> SUFFICES ASSUME foreground', NEW q \in Pressable, Focused' \/ (\E i \in DOMAIN input' : input'[i].key = q)
               PROVE  DownAt(kbd_state', input', Len(input'), q) <=> q \in Keyboard!Async'
    BY DEF Leading
  <2>1. foreground
    OBVIOUS
  <2>2. CASE own(q)
    <3>1. DownAt(kbd_state', input', Len(input'), q) <=> kind = "keydown"
      BY <1>2, <2>1, <2>2
    <3>2. CASE kind = "keydown"
      <4>1. k \in down' /\ (k \in AltGrs => down' \cap AltGrs # {})
        BY <1>4, <3>2
      <4> QED BY <1>11, <2>2, <3>1, <3>2, <4>1
    <3>3. CASE kind = "keyup"
      <4>1. k \in down /\ k \notin down'
        BY <3>3
      <4>2. CASE k \in AltGrs
        <5>1. down' \cap AltGrs = {} /\ Keyboard!Ctrl \notin down /\ Keyboard!Ctrl \notin down'
          BY <1>3, <1>4, <1>12, <4>1, <4>2
        <5> QED BY <1>11, <2>2, <3>1, <3>3, <4>1, <5>1
      <4>3. CASE k \notin AltGrs
        <5>1. q = k
          BY <2>2, <4>3
        <5>2. q = Keyboard!Ctrl => down' \cap AltGrs = {}
          BY <1>4, <1>12, <4>1, <5>1
        <5> QED BY <1>11, <3>1, <3>3, <4>1, <5>1, <5>2
      <4> QED BY <4>2, <4>3
    <3> QED BY <3>2, <3>3
  <2>3. CASE ~own(q)
    <3>1. Focused \/ (\E i \in DOMAIN input : input[i].key = q)
      BY <1>2, <1>5, <2>1, <2>3
    <3>2. DownAt(kbd_state, input, Len(input), q) <=> q \in Keyboard!Async
      BY <1>0, <2>1, <3>1 DEF Leading
    <3>3. DownAt(kbd_state', input', Len(input'), q) <=> DownAt(kbd_state, input, Len(input), q)
      BY <1>2, <2>1, <2>3
    <3>4. q \in down' <=> q \in down
      BY <1>4, <2>3
    <3>5. q = Keyboard!Ctrl => (down' \cap AltGrs # {} <=> down \cap AltGrs # {})
      BY <1>4, <2>3
    <3> QED BY <1>10, <1>11, <3>2, <3>3, <3>4, <3>5
  <2> QED BY <2>2, <2>3
<1>15. CASE ~foreground
  <2>1. input' = input /\ input = <<>>
    BY <1>0, <1>15 DEF FocusTold
  <2>2. Paired'
    BY <2>1 DEF Paired
  <2>3. Apiece'
    <3>1. \A q \in AltGrs : q \in down' => Keyboard!Ctrl \notin down'
      BY <1>3, <1>4, <1>12
    <3>2. ~(Gaining \/ Gained)
      BY <1>15 DEF Gaining, Gained
    <3> QED BY <1>5, <2>1, <3>1, <3>2 DEF Apiece
  <2>4. Truthful'
    <3>1. NextIsAltGr' <=> NextIsAltGr
      BY <2>1 DEF NextIsAltGr
    <3>2. Beside' <=> Beside
      BY <2>1 DEF Beside
    <3>3. \A q : (Outlook(q)' <=> Outlook(q)) /\ (Spoken(pending, q)' <=> Spoken(pending, q))
      BY <3>1, OutlookSame
    <3>4. \A q : Meant(q)' <=> Meant(q)
      BY <3>2 DEF Meant
    <3>5. Outermost' = Outermost
      BY DEF Outermost
    <3> QED BY <1>0, <1>5, <3>3, <3>4, <3>5 DEF Truthful
  <2> QED BY <1>6, <1>7, <1>8, <1>9, <1>14, <2>2, <2>3, <2>4 DEF KeyInv
<1>16. CASE foreground
  <2>1. Len(input) + 1 \notin DOMAIN input /\ Len(input) + 2 \notin DOMAIN input /\ Len(input) \in 0 .. Len(input)
    BY <1>1
  <2>2. \A i \in DOMAIN input : i - 1 \in 0 .. Len(input)
    BY <1>1
  <2>3. \A i \in DOMAIN input' : input'[i].key \in AltGrs /\ i \notin DOMAIN input =>
          /\ k \in AltGrs /\ input'[i] = Keyboard!Message(kind, k)
          /\ input'[i - 1] = Keyboard!Message(kind, Keyboard!Ctrl) /\ i > 1
    BY <1>1, <1>2, <1>3, <1>16
  <2>4. input # <<>> => 1 \in DOMAIN input
    BY <1>1, EmptySeq
  <2>5. 1 \in DOMAIN input' /\ (input'[1].key \in AltGrs => 1 \in DOMAIN input /\ input # <<>>)
    <3>1. 1 \in DOMAIN input'
      BY <1>2, <1>16, EmptySeq
    <3>2. 1 \in DOMAIN input => input # <<>>
      OBVIOUS
    <3>3. input'[1].key \in AltGrs => 1 \in DOMAIN input
      <4>1. input'[1].key \in AltGrs /\ 1 \notin DOMAIN input => 1 > 1
        BY <2>3, <3>1
      <4>2. ~(1 > 1)
        OBVIOUS
      <4> QED BY <4>1, <4>2
    <3> QED BY <3>1, <3>2, <3>3
  <2>6. Paired'
    <3>1. ASSUME NEW i \in DOMAIN input', i > 1, input'[i].key \in AltGrs
          PROVE  input'[i - 1] = Keyboard!Message(input'[i].kind, Keyboard!Ctrl)
      <4>1. CASE i \in DOMAIN input
        <5>1. i - 1 \in DOMAIN input
          BY <1>1, <3>1, <4>1
        <5> QED BY <1>0, <1>2, <1>16, <3>1, <4>1, <5>1 DEF Paired
      <4>2. CASE i \notin DOMAIN input
        BY <2>3, <3>1, <4>2 DEF Keyboard!Message
      <4> QED BY <4>1, <4>2
    <3>2. ASSUME input'[1].key \in AltGrs PROVE input'[1].kind = "keydown" <=> Keyboard!Ctrl \in kbd_state'
      BY <1>0, <1>2, <1>16, <2>5, <3>2 DEF Paired
    <3> QED BY <3>1, <3>2 DEF Paired
  <2>7. Apiece'
    <3>1. \A q \in AltGrs : q \in down' => Keyboard!Ctrl \notin down'
      BY <1>3, <1>4, <1>12
    <3>2. ASSUME NEW i \in DOMAIN input', FakeAt(input', i), input'[i].kind = "keydown"
          PROVE  ~DownAt(kbd_state', input', i - 1, Keyboard!Ctrl) \/ AltGrAt(kbd_state', input', i - 1)
      <4>1. CASE i \in DOMAIN input /\ FakeAt(input, i)
        BY <1>0, <1>2, <1>16, <2>2, <3>2, <4>1 DEF Apiece
      <4>2. CASE k \in AltGrs /\ i = Len(input) + 1
        <5>6. i \notin DOMAIN input /\ i - 1 = Len(input) /\ i # Len(input) + 2
          BY <1>1, <2>1, <4>2
        <5>7. input'[i].kind = kind
          BY <1>2, <1>16, <3>2, <5>6
        <5>1. kind = "keydown" /\ i - 1 = Len(input)
          BY <3>2, <5>6, <5>7
        <5>2. Keyboard!Ctrl \notin down /\ sent = <<>>
          BY <4>2, <5>1
        <5>3. Focused
          BY <1>0, <1>16, <5>2, FocusIs DEF Unfocused
        <5>4. CASE k \in down
          <6>1. DownAt(kbd_state, input, Len(input), k)
            BY <1>0, <1>10, <1>16, <5>3, <5>4 DEF Leading
          <6>2. AltGrAt(kbd_state, input, Len(input))
            BY <4>2, <6>1 DEF AltGrAt
          <6> QED BY <1>2, <1>16, <2>1, <5>1, <6>2
        <5>5. CASE k \notin down
          <6>1. down \cap AltGrs = {}
            BY <1>3, <4>2, <5>5
          <6>2. ~DownAt(kbd_state, input, Len(input), Keyboard!Ctrl)
            BY <1>10, <1>13, <1>16, <5>2, <5>3, <6>1
          <6> QED BY <1>2, <1>16, <2>1, <5>1, <6>2
        <5> QED BY <5>4, <5>5
      <4> QED BY <1>2, <1>16, <3>2, <4>1, <4>2
    <3>3. ASSUME NEW i \in DOMAIN input', FakeAt(input', i), input'[i].kind = "keyup"
          PROVE  AltGrAt(kbd_state', input', i - 1)
      <4>1. CASE i \in DOMAIN input /\ FakeAt(input, i)
        BY <1>0, <1>2, <1>16, <2>2, <3>3, <4>1 DEF Apiece
      <4>2. CASE k \in AltGrs /\ i = Len(input) + 1
        <5>6. i \notin DOMAIN input /\ i - 1 = Len(input) /\ i # Len(input) + 2
          BY <1>1, <2>1, <4>2
        <5>7. input'[i].kind = kind
          BY <1>2, <1>16, <3>3, <5>6
        <5>1. kind = "keyup" /\ i - 1 = Len(input)
          BY <3>3, <5>6, <5>7
        <5>2. k \in down /\ k \in Keyboard!Async
          BY <1>10, <5>1
        <5>3. Focused
          BY <1>0, <1>16, <4>2, <5>2, FocusIs DEF Apiece
        <5>4. DownAt(kbd_state, input, Len(input), k)
          BY <1>0, <1>16, <5>2, <5>3 DEF Leading
        <5>5. AltGrAt(kbd_state, input, Len(input))
          BY <4>2, <5>4 DEF AltGrAt
        <5> QED BY <1>2, <1>16, <2>1, <5>1, <5>5
      <4> QED BY <1>2, <1>16, <3>3, <4>1, <4>2
    <3>4. ASSUME Focused', NEW i \in DOMAIN input', ~FakeAt(input', i), input'[i].key = Keyboard!Ctrl,
                 input'[i].kind = "keydown"
          PROVE  ~AltGrAt(kbd_state', input', i - 1)
      <4>1. CASE i \in DOMAIN input
        <5>1. ~FakeAt(input, i) /\ input'[i] = input[i] /\ Focused
          BY <1>2, <1>5, <1>16, <3>4, <4>1
        <5>2. ~AltGrAt(kbd_state, input, i - 1)
          BY <1>0, <3>4, <4>1, <5>1 DEF Apiece
        <5> QED BY <1>2, <1>16, <2>2, <4>1, <5>2
      <4>2. CASE i \notin DOMAIN input
        <5>1. k \notin AltGrs /\ k = Keyboard!Ctrl /\ i = Len(input) + 1 /\ kind = "keydown"
          BY <1>2, <1>3, <1>16, <3>4, <4>2 DEF Keyboard!Message
        <5>2. down \cap AltGrs = {}
          BY <5>1
        <5>3. \A q \in AltGrs : ~DownAt(kbd_state, input, Len(input), q)
          <6>1. \A q \in AltGrs : q \notin Keyboard!Async
            BY <1>3, <1>10, <5>2
          <6> QED BY <1>0, <1>3, <1>5, <1>16, <3>4, <6>1 DEF Leading
        <5>4. ~AltGrAt(kbd_state, input, Len(input)) /\ i - 1 = Len(input)
          BY <1>1, <5>1, <5>3 DEF AltGrAt
        <5> QED BY <1>2, <1>16, <2>1, <5>4
      <4> QED BY <4>1, <4>2
    <3>5. ASSUME Gaining' \/ Gained' PROVE down' \cap AltGrs = {} /\ \A i \in DOMAIN input' : input'[i].key \notin AltGrs
      <4>1. down \cap AltGrs = {} /\ (\A i \in DOMAIN input : input[i].key \notin AltGrs) /\ sent # <<>>
        BY <1>0, <1>5, <3>5, FocusIs DEF Apiece
      <4>2. k \notin AltGrs
        BY <4>1
      <4> QED BY <1>2, <1>4, <1>16, <2>3, <4>1, <4>2
    <3> QED BY <3>1, <3>2, <3>3, <3>4, <3>5 DEF Apiece
  <2>8. Truthful'
    <3>1. /\ input'[1].key \in AltGrs <=> input # <<>> /\ input[1].key \in AltGrs
          /\ input # <<>> => input'[1] = input[1]
          /\ input' # <<>>
      BY <1>2, <1>16, <2>4, <2>5
    <3>2. NextIsAltGr' <=> NextIsAltGr
      BY <3>1 DEF NextIsAltGr
    <3>3. Beside' <=> Beside
      BY <3>1 DEF Beside
    <3>4. \A q : (Outlook(q)' <=> Outlook(q)) /\ (Spoken(pending, q)' <=> Spoken(pending, q))
      BY <3>2, OutlookSame
    <3>5. \A q : Meant(q)' <=> Meant(q)
      BY <3>3 DEF Meant
    <3>6. Outermost' = Outermost
      BY DEF Outermost
    <3> QED BY <1>0, <1>5, <3>4, <3>5, <3>6 DEF Truthful
  <2> QED BY <1>6, <1>7, <1>8, <1>9, <1>14, <2>6, <2>7, <2>8 DEF KeyInv
<1> QED BY <1>15, <1>16

\* The focus moves: the thread learns of it later.
LEMMA FocusMoved ==
  ASSUME Typable, KeyInv, Keyboard!FocusMoves
  PROVE  KeyInv'
<1>0. KeysTyped /\ Queueing /\ SentInside /\ Texts /\ FocusTold /\ Leading /\ Paired /\ Apiece /\ Truthful
  BY DEF KeyInv
<1>1. /\ heard' = <<>> /\ sent = <<>> /\ foreground' = ~foreground /\ input' = <<>>
      /\ sent' = IF foreground THEN <<Keyboard!Message("inactive", None), Keyboard!Message("killfocus", None)>>
                 ELSE <<Keyboard!Message("active", None), Keyboard!Message("setfocus", None)>>
      /\ event_info' = event_info /\ pending' = pending /\ next_id' = next_id /\ panicked' = panicked
      /\ nested' = nested /\ is_active' = is_active /\ is_focused' = is_focused
      /\ modifiers_state' = modifiers_state /\ kbd_state' = kbd_state /\ posted' = posted /\ down' = down
      /\ env' = env /\ app_down' = app_down /\ app_modifiers' = app_modifiers
  BY DEF Keyboard!FocusMoves, Keyboard!Stroke, Keyboard!builder, Keyboard!window
<1>2. event_info = None /\ posted = <<>> /\ (~foreground => down \cap AltGrs = {})
  <2>1. env \in KeyEnvironments
    BY <1>0 DEF KeysTyped
  <2>2. env.steals = "between" /\ env.holds = FALSE
    BY <2>1 DEF Typable
  <2> QED BY <2>2 DEF Keyboard!FocusMoves, AltGrs
<1>3. /\ foreground => Focused
      /\ ~foreground => Unfocused
      /\ foreground' <=> ~foreground
      /\ foreground \in BOOLEAN
  BY <1>0, <1>1, FocusIs DEF Focused, Unfocused, KeysTyped
<1> DEFINE M(kind) == Keyboard!Message(kind, None)
<1>4. /\ sent' = IF foreground THEN <<M("inactive"), M("killfocus")>> ELSE <<M("active"), M("setfocus")>>
      /\ \A kind \in {"active", "inactive", "setfocus", "killfocus"} : M(kind) \in FocusMessages /\ M(kind).kind = kind
      /\ \A kind \in {"active", "inactive", "setfocus", "killfocus"} : M(kind) \notin SentPresses
  BY <1>1 DEF Keyboard!Message, FocusMessages, SentPresses
<1> HIDE DEF M
<1>5. /\ Head(sent') = IF foreground THEN M("inactive") ELSE M("active")
      /\ Len(sent') = 2 /\ sent' # <<>> /\ sent' \in Seq(FocusMessages) /\ sent' \notin Seq(SentPresses)
      /\ sent'[1] = IF foreground THEN M("inactive") ELSE M("active")
  BY <1>4
<1>6. /\ foreground => Losing'
      /\ ~foreground => Gaining'
  BY <1>1, <1>3, <1>4 DEF Losing, Gaining, Focused, Unfocused, M
<1>7. ~Focused' /\ ~Gained' /\ ~Lost' /\ ~Unfocused'
  <2>1. ~Focused' /\ ~Unfocused'
    BY <1>5 DEF Focused, Unfocused
  <2>2. M("active").kind # "setfocus" /\ M("inactive").kind # "setfocus" /\ M("setfocus").kind = "setfocus"
    BY <1>4
  <2>3. Head(sent') # M("setfocus")
    BY <1>5, <2>2
  <2>4. ~Gained'
    BY <2>3 DEF Gained, M
  <2>5. ~Lost'
    <3>1. Len(<<M("killfocus")>>) = 1
      OBVIOUS
    <3> QED BY <1>5, <3>1 DEF Lost, M
  <2> QED BY <2>1, <2>4, <2>5
<1>8. foreground => ~Gaining'
  BY <1>1, <1>3 DEF Gaining
<1>9. ~foreground => ~Losing'
  BY <1>1, <1>3 DEF Losing
<1>10. KeysTyped'
  <2>1. sent' \in Seq(SentPresses \cup FocusMessages)
    BY <1>5
  <2> QED BY <1>0, <1>1, <2>1 DEF KeysTyped
<1>11. Queueing' /\ SentInside'
  BY <1>0, <1>1 DEF Queueing, SentInside, Outermost
<1>12. Texts'
  <2>1. (Wordless' <=> Wordless) /\ Wordless
    BY <1>0, <1>1, <1>2, StageSame DEF Texts, Translated, Spelling
  <2> QED BY <1>0, <1>1, <1>2, <2>1 DEF Texts
<1>13. FocusTold'
  <2>1. Keyboard!AgnosticMods(kbd_state)' = Keyboard!AgnosticMods(kbd_state)
    BY <1>1 DEF Keyboard!AgnosticMods
  <2> QED BY <1>0, <1>1, <1>6, <2>1 DEF FocusTold
<1>14. Leading'
  BY <1>1, <1>7 DEF Leading
<1>15. Paired'
  BY <1>1 DEF Paired
<1>16. Apiece'
  BY <1>0, <1>1, <1>2, <1>7, <1>8 DEF Apiece
<1>17. ~NextIsAltGr'
  BY <1>1 DEF NextIsAltGr
<1>18. Outermost' = Outermost /\ ~Spelling /\ ~Spelling'
  BY <1>1, <1>2, StageSame DEF Spelling
<1>19. \A q : (Spoken(pending, q)' <=> Spoken(pending, q)) /\ (SpokenDown(pending, q)' <=> SpokenDown(pending, q))
  BY <1>1
<1>20. \A q : Outlook(q)' <=>
         IF Spoken(pending, q) THEN SpokenDown(pending, q)
         ELSE IF nested # <<>> /\ Outermost.kind # "char" /\ Outermost.key = q THEN Outermost.kind = "keydown"
         ELSE q \in app_down
  BY <1>1, <1>17, <1>18, <1>19 DEF Outlook, Underway
<1>21. Truthful'
  <2>1. ASSUME foreground, NEW q \in Pressable, Outlook(q)' PROVE q \in kbd_state
    <3>1. Focused
      BY <1>3, <2>1
    <3>2. Outlook(q) => q \in kbd_state
      BY <1>0, <3>1 DEF Truthful, Meant
    <3>3. CASE Spoken(pending, q)
      BY <1>20, <2>1, <3>2, <3>3 DEF Outlook
    <3>4. CASE ~Spoken(pending, q) /\ nested # <<>> /\ Outermost.kind # "char" /\ Outermost.key = q
      BY <1>0, <1>20, <2>1, <3>1, <3>4 DEF Truthful
    <3>5. CASE ~Spoken(pending, q) /\ ~(nested # <<>> /\ Outermost.kind # "char" /\ Outermost.key = q)
      BY <1>18, <1>20, <2>1, <3>2, <3>5 DEF Outlook, Underway
    <3> QED BY <3>3, <3>4, <3>5
  <2>2. ASSUME ~foreground, NEW q \in Pressable PROVE ~Outlook(q)'
    <3>1. Unfocused /\ ~Outlook(q)
      BY <1>0, <1>3, <2>2 DEF Truthful
    <3>2. input = <<>> /\ ~NextIsAltGr
      BY <1>0, <2>2 DEF FocusTold, NextIsAltGr
    <3> QED BY <1>18, <1>20, <3>1, <3>2 DEF Outlook, Underway
  <2> QED BY <1>1, <1>7, <1>8, <1>9, <2>1, <2>2 DEF Truthful
<1> QED BY <1>10, <1>11, <1>12, <1>13, <1>14, <1>15, <1>16, <1>21 DEF KeyInv

\* Another program sends a key.
LEMMA KeyWasSent ==
  ASSUME Typable, KeyInv, NEW k \in Keyboard!Keys, NEW kind \in {"keydown", "keyup"}, Keyboard!KeySent(k, kind)
  PROVE  KeyInv'
<1>0. KeysTyped /\ Queueing /\ SentInside /\ Texts /\ FocusTold /\ Leading /\ Paired /\ Apiece /\ Truthful
  BY DEF KeyInv
<1> DEFINE m == Keyboard!Message(kind, k)
<1>1. /\ heard' = <<>> /\ Kinds[k] = "sent" /\ Len(sent) < 2 /\ foreground
      /\ sent' = Append(sent, m) /\ foreground' = foreground /\ input' = input
      /\ event_info' = event_info /\ pending' = pending /\ next_id' = next_id /\ panicked' = panicked
      /\ nested' = nested /\ is_active' = is_active /\ is_focused' = is_focused
      /\ modifiers_state' = modifiers_state /\ kbd_state' = kbd_state /\ posted' = posted /\ down' = down
      /\ env' = env /\ app_down' = app_down /\ app_modifiers' = app_modifiers
  BY DEF Keyboard!KeySent, Keyboard!Stroke, Keyboard!builder, Keyboard!window
<1>2. event_info = None
  <2>1. env \in KeyEnvironments
    BY <1>0 DEF KeysTyped
  <2>2. env.sends = "never" \/ env.sends = "between"
    BY <2>1 DEF Typable
  <2> QED BY <2>2 DEF Keyboard!KeySent
<1>3. m \in SentPresses
  BY <1>1, KeyFacts DEF Keyboard!Message, SentPresses
<1>4. sent \in Seq(SentPresses \cup FocusMessages)
  BY <1>0 DEF KeysTyped
<1> HIDE DEF m
<1>5. /\ sent' # <<>> /\ sent' \in Seq(SentPresses \cup FocusMessages)
      /\ sent \in Seq(SentPresses) => sent' \in Seq(SentPresses)
  BY <1>1, <1>3, <1>4
<1>6. Focused \/ Gained
  <2>1. ~Gaining
    <3>1. Gaining => Len(sent) = 2
      BY DEF Gaining
    <3>2. ~(2 < 2)
      OBVIOUS
    <3> QED BY <1>1, <3>1, <3>2
  <2> QED BY <1>0, <1>1, <2>1, FocusIs
<1>7. Focused => Focused'
  BY <1>1, <1>5 DEF Focused
<1>8. Gained => Gained'
  <2> SUFFICES ASSUME Gained PROVE Gained'
    OBVIOUS
  <2>1. sent # <<>> /\ Tail(sent) \in Seq(SentPresses)
    BY DEF Gained
  <2>2. Head(sent') = Head(sent) /\ Tail(sent') = Append(Tail(sent), m)
    BY <1>1, <1>3, <1>4, <2>1
  <2>3. Tail(sent') \in Seq(SentPresses)
    <3> DEFINE u == Tail(sent)
    <3>1. u \in Seq(SentPresses) /\ Tail(sent') = Append(u, m)
      BY <2>1, <2>2
    <3> HIDE DEF u
    <3>2. Append(u, m) \in Seq(SentPresses)
      BY <1>3, <3>1
    <3> QED BY <3>1, <3>2
  <2> QED BY <1>1, <1>5, <2>2, <2>3 DEF Gained
<1>9. /\ Gained' => Gained
      /\ ~Losing' /\ ~Lost' /\ ~Unfocused'
      /\ Focused' => Focused
      /\ ~Gaining'
  <2>1. ~Losing' /\ ~Lost' /\ ~Unfocused'
    BY <1>1 DEF Losing, Lost, Unfocused
  <2>2. ~Gaining'
    BY <1>1, <1>6 DEF Gaining, Focused, Gained
  <2>3. Focused' => Focused
    BY <1>1, <1>6 DEF Focused, Gained
  <2>4. Gained' => Gained
    BY <1>1, <1>6 DEF Focused, Gained
  <2> QED BY <2>1, <2>2, <2>3, <2>4
<1>10. KeysTyped'
  BY <1>0, <1>1, <1>5 DEF KeysTyped
<1>11. Queueing' /\ SentInside'
  BY <1>0, <1>1 DEF Queueing, SentInside, Outermost
<1>12. Texts'
  <2>1. (Wordless' <=> Wordless) /\ (Spelling' <=> Spelling) /\ Outermost' = Outermost
    BY <1>1, StageSame
  <2>2. Translated => Translated'
    <3>1. Keyboard!Characters(Outermost)' = Keyboard!Characters(Outermost)
      BY <2>1 DEF Keyboard!Characters
    <3> QED BY <1>1, <1>5, <2>1, <3>1 DEF Translated
  <2>3. Wordless' \/ Translated' \/ Spelling'
    BY <1>0, <2>1, <2>2 DEF Texts
  <2>4. \A q : Spoken(pending', q) <=> Spoken(pending, q)
    BY <1>1
  <2> QED BY <1>0, <1>1, <1>2, <2>3, <2>4 DEF Texts
<1>13. FocusTold'
  <2>1. Keyboard!AgnosticMods(kbd_state)' = Keyboard!AgnosticMods(kbd_state)
    BY <1>1 DEF Keyboard!AgnosticMods
  <2> QED BY <1>0, <1>1, <1>6, <1>7, <1>8, <2>1 DEF FocusTold
<1>14. Leading'
  <2>1. Keyboard!Async' = Keyboard!Async
    BY <1>1 DEF Keyboard!Async
  <2>2. \A q : DownAt(kbd_state', input', Len(input'), q) <=> DownAt(kbd_state, input, Len(input), q)
    BY <1>1
  <2> QED BY <1>0, <1>1, <1>9, <2>1, <2>2 DEF Leading
<1>15. Paired'
  BY <1>0, <1>1 DEF Paired
<1>16. Apiece'
  <2>1. \A i, q : DownAt(kbd_state', input', i, q) <=> DownAt(kbd_state, input, i, q)
    BY <1>1
  <2>2. \A i : AltGrAt(kbd_state', input', i) <=> AltGrAt(kbd_state, input, i)
    BY <1>1
  <2>3. \A i : FakeAt(input', i) <=> FakeAt(input, i)
    BY <1>1
  <2> QED BY <1>0, <1>1, <1>9, <2>1, <2>2, <2>3 DEF Apiece
<1>17. (NextIsAltGr' <=> NextIsAltGr) /\ (Beside' <=> Beside) /\ Outermost' = Outermost
  BY <1>1 DEF NextIsAltGr, Beside, Outermost
<1>18. Truthful'
  <2>1. \A q : (Outlook(q)' <=> Outlook(q)) /\ (Spoken(pending, q)' <=> Spoken(pending, q))
    BY <1>1, <1>17, OutlookSame
  <2>2. \A q : Meant(q)' <=> Meant(q)
    BY <1>1, <1>17 DEF Meant
  <2> QED BY <1>0, <1>1, <1>9, <1>17, <2>1, <2>2 DEF Truthful
<1> QED BY <1>10, <1>11, <1>12, <1>13, <1>14, <1>15, <1>16, <1>18 DEF KeyInv

----
(* The thread retrieves messages *)

\* What is under way when the queue has characters, and when nothing is.
LEMMA Stages ==
  ASSUME Typable, KeyInv
  PROVE  /\ posted # <<>> => Translated \/ Spelling
         /\ nested = <<>> => Wordless \/ Spelling
         /\ nested = <<>> /\ posted = <<>> => Wordless /\ event_info = None
         /\ nested = <<>> /\ posted # <<>> => Spelling
         /\ sent # <<>> => event_info = None
         /\ \A m \in FocusMessages : sent # <<>> /\ Head(sent) = m => Wordless
<1>1. Wordless \/ Translated \/ Spelling
  BY DEF KeyInv, Texts
<1>2. sent # <<>> => event_info = None
  BY DEF KeyInv, Texts
<1>3. \A m \in FocusMessages : m \notin SentPresses
  BY DEF FocusMessages, SentPresses
<1>4. ASSUME NEW m \in FocusMessages, sent # <<>>, Head(sent) = m PROVE Wordless
  <2>1. sent \notin Seq(SentPresses)
    <3> SUFFICES ASSUME sent \in Seq(SentPresses) PROVE FALSE
      OBVIOUS
    <3>1. Head(sent) \in SentPresses
      BY <1>4
    <3> QED BY <1>3, <1>4, <3>1
  <2> QED BY <1>1, <1>2, <1>4, <2>1 DEF Translated, Spelling
<1>5. nested = <<>> => Wordless \/ Spelling
  BY <1>1 DEF Translated
<1>6. nested = <<>> /\ posted = <<>> => Wordless /\ event_info = None
  <2>1. ASSUME nested = <<>>, posted = <<>>, Spelling PROVE FALSE
    <3>1. Len(nested) # 1
      BY <2>1
    <3> QED BY <2>1, <3>1 DEF Spelling
  <2> QED BY <1>5, <2>1 DEF Wordless
<1> QED BY <1>1, <1>2, <1>4, <1>5, <1>6 DEF Wordless

\* A message of the keyboard is retrieved.
LEMMA Received ==
  ASSUME Typable, KeyInv, Keyboard!KeyMessage
  PROVE  KeyInv'
<1>0. KeysTyped /\ Queueing /\ SentInside /\ Texts /\ FocusTold /\ Leading /\ Paired /\ Apiece /\ Truthful
  BY DEF KeyInv
<1> DEFINE m == Head(input)
           f == [kind |-> m.kind, key |-> m.key, token |-> next_id]
           n == Len(input)
<1>1. /\ ~panicked /\ nested = <<>> /\ sent = <<>> /\ posted = <<>> /\ input # <<>>
      /\ input' = Tail(input) /\ posted' = Keyboard!Characters(m)
      /\ kbd_state' = IF m.kind = "keydown" THEN kbd_state \cup {m.key} ELSE kbd_state \ {m.key}
      /\ event_info' = event_info /\ is_active' = is_active /\ is_focused' = is_focused /\ sent' = sent
      /\ foreground' = foreground /\ down' = down /\ env' = env
  BY DEF Keyboard!KeyMessage, Keyboard!user
<1>2. /\ pending' = Keyboard!AddPending /\ next_id' = next_id + 1 /\ nested' = <<f>> \o nested
      /\ Keyboard!UpdateModifiers(kbd_state') /\ heard' = <<>> /\ panicked' = panicked /\ app_down' = app_down
  BY DEF Keyboard!KeyMessage, Keyboard!Begins
<1>3. /\ input \in Seq(InputMessages) /\ m \in InputMessages /\ m = input[1]
      /\ n \in Nat \ {0} /\ DOMAIN input = 1 .. n
      /\ input' \in Seq(InputMessages) /\ Len(input') = n - 1 /\ DOMAIN input' = 1 .. n - 1
      /\ \A i \in DOMAIN input' : input'[i] = input[i + 1] /\ i + 1 \in DOMAIN input
      /\ 1 \in DOMAIN input
  <2>1. input \in Seq(InputMessages)
    BY <1>0 DEF KeysTyped
  <2>2. m = input[1] /\ m \in InputMessages /\ n \in Nat \ {0} /\ DOMAIN input = 1 .. n
    BY <1>1, <2>1
  <2>3. Tail(input) \in Seq(InputMessages) /\ Len(Tail(input)) = n - 1
    BY <1>1, <2>1
  <2>4. DOMAIN Tail(input) = 1 .. n - 1
    BY <2>3
  <2>5. \A i \in 1 .. n - 1 : Tail(input)[i] = input[i + 1] /\ i + 1 \in 1 .. n
    BY <1>1, <2>1, <2>2
  <2>6. 1 \in 1 .. n
    BY <2>2
  <2> QED BY <1>1, <2>1, <2>2, <2>3, <2>4, <2>5, <2>6
<1>4. m.kind \in {"keydown", "keyup"} /\ m.key \in Pressable /\ m.key \in Keyboard!Keys
  BY <1>3, KeyFacts DEF InputMessages
<1>5. f \in KeyFrames /\ f.token = next_id /\ f.kind = m.kind /\ f.key = m.key
  BY <1>0, <1>4 DEF KeyFrames, KeysTyped
<1>6. kbd_state' = Retrieved(kbd_state, m) /\ (m.key \in kbd_state' <=> m.kind = "keydown")
      /\ (\A q : q # m.key => (q \in kbd_state' <=> q \in kbd_state)) /\ kbd_state' \subseteq Pressable
  <2>1. kbd_state \subseteq Pressable
    BY <1>0 DEF KeysTyped
  <2> QED BY <1>1, <1>4, <2>1 DEF Retrieved
<1>7. /\ Keyboard!Ctrl \notin AltGrs /\ AltGrs \subseteq Pressable /\ Keyboard!Ctrl \in Pressable
      /\ \A j, l \in AltGrs : j = l
      /\ AltGrs = Keyboard!KeysOf("altgr")
  BY KeyFacts DEF Typable, AltGrs
<1>8. foreground /\ Focused
  <2>1. foreground
    BY <1>0, <1>1 DEF FocusTold
  <2> QED BY <1>0, <1>1, <2>1, FocusIs DEF Unfocused
<1>9. Focused' /\ ~Gaining' /\ ~Gained' /\ ~Losing' /\ ~Lost' /\ ~Unfocused'
  BY <1>1, <1>8 DEF Focused, Gaining, Gained, Losing, Lost, Unfocused
<1>10. Wordless /\ event_info = None /\ pending = <<>>
  BY <1>0, <1>1, Stages DEF Queueing
<1> HIDE DEF f
<1>11. /\ nested' \in Seq(KeyFrames) /\ pending' \in Seq(PendingEntries) /\ next_id' \in Nat
       /\ nested' # <<>> /\ Outermost' = f
       /\ Queueing' /\ SentInside'
       /\ \A i \in DOMAIN pending' : pending'[i].event # None => WholeText(pending'[i].event)
       /\ \A k : Alike(k)
  <2>1. \A i \in DOMAIN pending : pending[i].event # None => WholeText(pending[i].event)
    BY <1>10
  <2>2. nested # <<>> => f.key \in SentKeys /\ f.kind # "char"
    BY <1>1
  <2> QED BY <1>0, <1>1, <1>2, <1>5, <2>1, <2>2, Begun
<1>12. \A k : ~Spoken(pending', k)
  <2>1. \A k : ~Spoken(pending, k)
    BY <1>10 DEF Spoken
  <2> QED BY <1>11, <2>1 DEF Alike
<1>13. posted' \in Seq(CharMessages) /\ (posted' # <<>> => m.kind = "keydown" /\ Kinds[m.key] \in Textual)
       /\ (m.kind = "keydown" /\ Kinds[m.key] \in Textual => posted' # <<>>)
  <2>1. Keyboard!Message("char", m.key) \in CharMessages /\ Keyboard!Message("deadchar", m.key) \in CharMessages
    BY <1>4 DEF Keyboard!Message, CharMessages
  <2> DEFINE C(kind) == Keyboard!Message(kind, m.key)
  <2>2. posted' = Keyboard!Characters(m)
    BY <1>1
  <2>3. m.kind = "keyup" => posted' = <<>>
    BY <2>2 DEF Keyboard!Characters
  <2>4. m.kind = "keydown" /\ Kinds[m.key] = "letter" => posted' = <<C("char")>>
    BY <2>2 DEF Keyboard!Characters
  <2>5. m.kind = "keydown" /\ Kinds[m.key] = "pair" => posted' = <<C("char"), C("char")>>
    BY <2>2 DEF Keyboard!Characters
  <2>6. m.kind = "keydown" /\ Kinds[m.key] = "dead" => posted' = <<C("deadchar")>>
    BY <2>2 DEF Keyboard!Characters
  <2>7. m.kind = "keydown" /\ Kinds[m.key] \notin Textual => posted' = <<>>
    BY <2>2 DEF Keyboard!Characters, Textual
  <2>8. C("char") \in CharMessages /\ C("deadchar") \in CharMessages
    BY <2>1
  <2> HIDE DEF C
  <2>9. m.kind = "keyup" \/ Kinds[m.key] \in Textual \/ posted' = <<>>
    BY <1>4, <2>7
  <2>10. CASE posted' = <<>>
    <3>1. ~(m.kind = "keydown" /\ Kinds[m.key] \in Textual)
      <4>1. \A c, d : <<c>> # <<>> /\ <<c, d>> # <<>>
        OBVIOUS
      <4> QED BY <2>4, <2>5, <2>6, <2>10, <4>1 DEF Textual
    <3> QED BY <2>10, <3>1
  <2>11. CASE posted' # <<>>
    <3>1. m.kind = "keydown" /\ Kinds[m.key] \in Textual
      BY <1>4, <2>3, <2>9, <2>11
    <3>2. posted' = <<C("char")>> \/ posted' = <<C("char"), C("char")>> \/ posted' = <<C("deadchar")>>
      BY <2>4, <2>5, <2>6, <3>1 DEF Textual
    <3>3. \A c \in CharMessages : <<c>> \in Seq(CharMessages) /\ <<c, c>> \in Seq(CharMessages)
      OBVIOUS
    <3>4. posted' \in Seq(CharMessages)
      BY <2>8, <3>2, <3>3
    <3> QED BY <2>11, <3>1, <3>4
  <2> QED BY <2>10, <2>11
<1>14. KeysTyped'
  BY <1>0, <1>1, <1>2, <1>3, <1>6, <1>11, <1>13 DEF KeysTyped
<1>15. Texts'
  <2>1. CASE posted' = <<>>
    <3>1. Wordless'
      BY <1>1, <1>4, <1>5, <1>10, <1>11, <1>13, <2>1 DEF Wordless
    <3> QED BY <1>1, <1>2, <1>11, <1>12, <3>1 DEF Texts
  <2>2. CASE posted' # <<>>
    <3>1. Keyboard!Characters(m) = Keyboard!Characters(Outermost)'
      BY <1>5, <1>11 DEF Keyboard!Characters
    <3>2. Translated'
      BY <1>1, <1>5, <1>11, <1>13, <2>2, <3>1 DEF Translated
    <3> QED BY <1>1, <1>2, <1>11, <1>12, <3>2 DEF Texts
  <2> QED BY <2>1, <2>2
<1>16. FocusTold'
  <2>1. modifiers_state' = Keyboard!AgnosticMods(kbd_state') /\ app_modifiers' = modifiers_state'
    <3>1. app_modifiers = modifiers_state
      BY <1>0 DEF FocusTold
    <3> QED BY <1>2, <3>1 DEF Keyboard!UpdateModifiers
  <2>2. is_active' /\ is_focused' /\ foreground'
    BY <1>9 DEF Focused
  <2>3. Keyboard!AgnosticMods(kbd_state)' = Keyboard!AgnosticMods(kbd_state')
    BY DEF Keyboard!AgnosticMods
  <2> QED BY <1>9, <2>1, <2>2, <2>3 DEF FocusTold
<1>17. \A i \in 0 .. n - 1 : \A q : DownAt(kbd_state', input', i, q) <=> DownAt(kbd_state, input, i + 1, q)
  BY <1>1, <1>3, <1>6, DownAtTail
<1>18. Leading'
  <2>1. Keyboard!Async' = Keyboard!Async
    BY <1>1 DEF Keyboard!Async
  <2>2. n - 1 \in 0 .. n - 1 /\ (n - 1) + 1 = n
    BY <1>3
  <2>3. \A q : DownAt(kbd_state', input', Len(input'), q) <=> DownAt(kbd_state, input, n, q)
    BY <1>3, <1>17, <2>2
  <2> QED BY <1>0, <1>8, <2>1, <2>3 DEF Leading
<1>19. \A i \in DOMAIN input' : i # 1 => i > 1 /\ i - 1 \in DOMAIN input' /\ (i - 1) + 1 = i /\ (i + 1) - 1 = i
  BY <1>3
<1>20. input' # <<>> => 2 \in DOMAIN input /\ input'[1] = input[2] /\ 1 \in DOMAIN input'
  <2>1. input' # <<>> => 1 \in DOMAIN input'
    BY <1>3, EmptySeq
  <2>2. 1 + 1 = 2
    OBVIOUS
  <2> QED BY <1>3, <2>1, <2>2
<1>21. input' # <<>> /\ input'[1].key \in AltGrs => m = Keyboard!Message(input'[1].kind, Keyboard!Ctrl)
  <2>1. 2 > 1 /\ 2 - 1 = 1
    OBVIOUS
  <2> QED BY <1>0, <1>3, <1>20, <2>1 DEF Paired
<1>22. Paired'
  <2>1. ASSUME NEW i \in DOMAIN input', i > 1, input'[i].key \in AltGrs
        PROVE  input'[i - 1] = Keyboard!Message(input'[i].kind, Keyboard!Ctrl)
    <3>1. i # 1
      BY <2>1
    <3>2. i - 1 \in DOMAIN input' /\ input'[i - 1] = input[i] /\ i + 1 \in DOMAIN input /\ i + 1 > 1
          /\ (i + 1) - 1 = i /\ input'[i] = input[i + 1]
      BY <1>3, <1>19, <2>1, <3>1
    <3>3. input[(i + 1) - 1] = Keyboard!Message(input[i + 1].kind, Keyboard!Ctrl)
      BY <1>0, <2>1, <3>2 DEF Paired
    <3> QED BY <3>2, <3>3
  <2>2. ASSUME input' # <<>>, input'[1].key \in AltGrs
        PROVE  input'[1].kind = "keydown" <=> Keyboard!Ctrl \in kbd_state'
    <3>1. m.key = Keyboard!Ctrl /\ m.kind = input'[1].kind
      BY <1>21, <2>2 DEF Keyboard!Message
    <3> QED BY <1>6, <3>1
  <2> QED BY <2>1, <2>2 DEF Paired
<1>23. \A i \in DOMAIN input' : FakeAt(input', i) <=> FakeAt(input, i + 1)
  <2> SUFFICES ASSUME NEW i \in DOMAIN input' PROVE FakeAt(input', i) <=> FakeAt(input, i + 1)
    OBVIOUS
  <2>1. i < Len(input') <=> i + 1 < Len(input)
    BY <1>3
  <2>2. i < Len(input') => input'[i + 1] = input[(i + 1) + 1]
    <3>1. i < Len(input') => i + 1 \in DOMAIN input'
      BY <1>3
    <3> QED BY <1>3, <3>1
  <2> QED BY <1>3, <2>1, <2>2 DEF FakeAt
<1>24. \A i \in DOMAIN input' : i - 1 \in 0 .. n - 1 /\ (i - 1) + 1 = i /\ (i + 1) - 1 = i
  BY <1>3
<1>25. \A i \in DOMAIN input' : AltGrAt(kbd_state', input', i - 1) <=> AltGrAt(kbd_state, input, i)
  BY <1>17, <1>24 DEF AltGrAt
<1>26. Apiece'
  <2>1. \A q \in AltGrs : q \in down' => Keyboard!Ctrl \notin down'
    BY <1>0, <1>1 DEF Apiece
  <2>2. ASSUME NEW i \in DOMAIN input', FakeAt(input', i), input'[i].kind = "keydown"
        PROVE  ~DownAt(kbd_state', input', i - 1, Keyboard!Ctrl) \/ AltGrAt(kbd_state', input', i - 1)
    <3>1. FakeAt(input, i + 1) /\ i + 1 \in DOMAIN input /\ input[i + 1].kind = "keydown" /\ (i + 1) - 1 = i
      BY <1>3, <1>23, <1>24, <2>2
    <3>2. ~DownAt(kbd_state, input, i, Keyboard!Ctrl) \/ AltGrAt(kbd_state, input, i)
      BY <1>0, <3>1 DEF Apiece
    <3> QED BY <1>17, <1>24, <1>25, <2>2, <3>2
  <2>3. ASSUME NEW i \in DOMAIN input', FakeAt(input', i), input'[i].kind = "keyup"
        PROVE  AltGrAt(kbd_state', input', i - 1)
    <3>1. FakeAt(input, i + 1) /\ i + 1 \in DOMAIN input /\ input[i + 1].kind = "keyup" /\ (i + 1) - 1 = i
      BY <1>3, <1>23, <1>24, <2>3
    <3>2. AltGrAt(kbd_state, input, i)
      BY <1>0, <3>1 DEF Apiece
    <3> QED BY <1>25, <2>3, <3>2
  <2>4. ASSUME NEW i \in DOMAIN input', ~FakeAt(input', i), input'[i].key = Keyboard!Ctrl, input'[i].kind = "keydown"
        PROVE  ~AltGrAt(kbd_state', input', i - 1)
    <3>1. /\ ~FakeAt(input, i + 1) /\ i + 1 \in DOMAIN input /\ input[i + 1].kind = "keydown" /\ (i + 1) - 1 = i
          /\ input[i + 1].key = Keyboard!Ctrl
      BY <1>3, <1>23, <1>24, <2>4
    <3>2. ~AltGrAt(kbd_state, input, i)
      BY <1>0, <1>8, <3>1 DEF Apiece
    <3> QED BY <1>25, <2>4, <3>2
  <2> QED BY <1>9, <2>1, <2>2, <2>3, <2>4 DEF Apiece
<1>27. /\ \A q : DownAt(kbd_state, input, 0, q) <=> q \in kbd_state
       /\ AltGrAt(kbd_state, input, 0) <=> kbd_state \cap AltGrs # {}
  <2>1. \A q : DownAt(kbd_state, input, 0, q) <=> q \in kbd_state
    BY DownAtFirst
  <2> QED BY <2>1 DEF AltGrAt
<1>28. /\ FakeAt(input, 1) <=> m.key = Keyboard!Ctrl /\ input' # <<>> /\ input'[1].key \in AltGrs
       /\ 1 - 1 = 0
  <2>1. 1 < n <=> input' # <<>>
    <3>1. input' # <<>> <=> n - 1 # 0
      BY <1>3, EmptySeq
    <3> QED BY <1>3, <3>1
  <2>2. 1 + 1 = 2 /\ 1 - 1 = 0
    OBVIOUS
  <2> QED BY <1>3, <1>20, <2>1, <2>2 DEF FakeAt
<1>29. Truthful'
  <2> SUFFICES ASSUME NEW k \in Pressable
               PROVE  /\ Outlook(k)' <=> Meant(k)'
                      /\ nested' # <<>> /\ Outermost'.kind # "char" /\ Outermost'.key = k =>
                           (Outermost'.kind = "keydown" <=> k \in kbd_state')
    BY <1>9 DEF Truthful
  <2>1. ~Spelling /\ ~Spelling'
    BY <1>1, <1>10 DEF Spelling
  <2>2. Outlook(k)' <=> IF m.key = k /\ ~(k = Keyboard!Ctrl /\ NextIsAltGr') THEN m.kind = "keydown" ELSE k \in app_down
    <3>1. Spoken(pending, k)' <=> FALSE
      BY <1>12
    <3>2. Underway(k)' <=> m.key = k /\ ~(k = Keyboard!Ctrl /\ NextIsAltGr')
      BY <1>4, <1>5, <1>11 DEF Underway
    <3>3. Outermost'.kind = m.kind
      BY <1>5, <1>11
    <3> QED BY <1>2, <2>1, <3>1, <3>2, <3>3 DEF Outlook
  <2>3. k \in app_down <=> Meant(k)
    <3>1. Outlook(k) <=> k \in app_down
      <4>1. ~Spoken(pending, k)
        BY <1>10 DEF Spoken
      <4> QED BY <1>1, <2>1, <4>1 DEF Outlook, Underway
    <3> QED BY <1>0, <1>8, <3>1 DEF Truthful
  <2>4. ASSUME k # Keyboard!Ctrl PROVE Outlook(k)' <=> Meant(k)'
    BY <1>6, <2>2, <2>3, <2>4 DEF Meant
  <2>5. ASSUME k = Keyboard!Ctrl PROVE Outlook(k)' <=> Meant(k)'
    <3>1. (NextIsAltGr' <=> input' # <<>> /\ input'[1].key \in AltGrs /\ posted' = <<>>)
      BY DEF NextIsAltGr
    <3>2. m.key = Keyboard!Ctrl => posted' = <<>>
      BY <1>13, KeyFacts DEF Textual
    <3>3. CASE m.key = Keyboard!Ctrl /\ FakeAt(input, 1)
      <4>1. NextIsAltGr' /\ input'[1].kind = m.kind /\ input' # <<>> /\ input'[1].key \in AltGrs
        BY <1>21, <1>28, <3>1, <3>2, <3>3 DEF Keyboard!Message
      <4>2. ~Meant(k)
        <5>1. CASE m.kind = "keydown"
          BY <1>0, <1>3, <1>27, <1>28, <2>5, <3>3, <5>1 DEF Apiece, Meant, Beside
        <5>2. CASE m.kind = "keyup"
          BY <1>0, <1>3, <1>27, <1>28, <2>5, <3>3, <5>2 DEF Apiece, Meant, Beside
        <5> QED BY <1>4, <5>1, <5>2
      <4>3. ~Meant(k)'
        BY <1>4, <1>6, <2>5, <3>3, <4>1 DEF Meant, Beside
      <4> QED BY <2>2, <2>3, <2>5, <4>1, <4>2, <4>3
    <3>4. CASE m.key = Keyboard!Ctrl /\ ~FakeAt(input, 1)
      <4>1. ~NextIsAltGr' /\ ~(input' # <<>> /\ input'[1].key \in AltGrs)
        BY <1>28, <3>1, <3>4
      <4>2. m.kind = "keydown" => kbd_state' \cap AltGrs = {}
        <5> SUFFICES ASSUME m.kind = "keydown" PROVE kbd_state' \cap AltGrs = {}
          OBVIOUS
        <5>1. ~AltGrAt(kbd_state, input, 0)
          BY <1>0, <1>3, <1>8, <1>28, <3>4 DEF Apiece
        <5> QED BY <1>6, <1>7, <1>27, <3>4, <5>1
      <4>3. Meant(k)' <=> m.kind = "keydown"
        BY <1>6, <2>5, <3>4, <4>1, <4>2 DEF Meant, Beside
      <4> QED BY <2>2, <2>5, <3>4, <4>1, <4>3
    <3>5. CASE m.key # Keyboard!Ctrl
      <4>1. Outlook(k)' <=> Meant(k)
        BY <2>2, <2>3, <2>5, <3>5
      <4>2. ~(input' # <<>> /\ input'[1].key \in AltGrs)
        BY <1>21, <3>5 DEF Keyboard!Message
      <4>3. k \in kbd_state' <=> k \in kbd_state
        BY <1>6, <2>5, <3>5
      <4>4. CASE m.key \in AltGrs
        <5>1. input # <<>> /\ input[1].key \in AltGrs /\ input[1].kind = m.kind
          BY <1>1, <1>3, <4>4
        <5>2. m.kind = "keydown" <=> k \in kbd_state
          BY <1>0, <2>5, <5>1 DEF Paired
        <5>3. m.kind = "keydown" => Beside /\ Beside'
          BY <1>6, <4>4, <5>1 DEF Beside
        <5> QED BY <2>5, <4>1, <4>3, <5>2, <5>3 DEF Meant
      <4>5. CASE m.key \notin AltGrs
        <5>1. ~(input # <<>> /\ input[1].key \in AltGrs)
          BY <1>3, <4>5
        <5>2. kbd_state' \cap AltGrs # {} <=> kbd_state \cap AltGrs # {}
          BY <1>6, <4>5
        <5>3. Beside' <=> Beside
          BY <4>2, <5>1, <5>2 DEF Beside
        <5> QED BY <4>1, <4>3, <5>3 DEF Meant
      <4> QED BY <4>4, <4>5
    <3> QED BY <3>3, <3>4, <3>5
  <2>6. nested' # <<>> /\ Outermost'.kind # "char" /\ Outermost'.key = k =>
                           (Outermost'.kind = "keydown" <=> k \in kbd_state')
    BY <1>5, <1>6, <1>11
  <2> QED BY <2>4, <2>5, <2>6
<1> QED BY <1>11, <1>14, <1>15, <1>16, <1>18, <1>22, <1>26, <1>29 DEF KeyInv

\* What a step that concerns only the messages under way leaves alone.
LEMMA OthersSame ==
  ASSUME KeyInv, is_active' = is_active, is_focused' = is_focused, modifiers_state' = modifiers_state,
         app_modifiers' = app_modifiers, kbd_state' = kbd_state, input' = input, sent' = sent,
         foreground' = foreground, down' = down
  PROVE  /\ FocusTold' /\ Leading' /\ Paired' /\ Apiece'
         /\ Focused' <=> Focused
         /\ Gaining' <=> Gaining
         /\ Gained' <=> Gained
         /\ Losing' <=> Losing
         /\ Lost' <=> Lost
         /\ Unfocused' <=> Unfocused
         /\ \A q : Meant(q)' <=> Meant(q)
<1>0. FocusTold /\ Leading /\ Paired /\ Apiece
  BY DEF KeyInv
<1>1. /\ Focused' <=> Focused
      /\ Gaining' <=> Gaining
      /\ Gained' <=> Gained
      /\ Losing' <=> Losing
      /\ Lost' <=> Lost
      /\ Unfocused' <=> Unfocused
  BY FocusSame
<1>2. FocusTold'
  <2>1. Keyboard!AgnosticMods(kbd_state)' = Keyboard!AgnosticMods(kbd_state)
    BY DEF Keyboard!AgnosticMods
  <2> QED BY <1>0, <1>1, <2>1 DEF FocusTold
<1>3. Leading'
  <2>1. Keyboard!Async' = Keyboard!Async
    BY DEF Keyboard!Async
  <2>2. \A q : DownAt(kbd_state', input', Len(input'), q) <=> DownAt(kbd_state, input, Len(input), q)
    OBVIOUS
  <2> QED BY <1>0, <1>1, <2>1, <2>2 DEF Leading
<1>4. Paired'
  BY <1>0 DEF Paired
<1>5. Apiece'
  <2>1. \A i, q : DownAt(kbd_state', input', i, q) <=> DownAt(kbd_state, input, i, q)
    OBVIOUS
  <2>2. \A i : AltGrAt(kbd_state', input', i) <=> AltGrAt(kbd_state, input, i)
    OBVIOUS
  <2>3. \A i : FakeAt(input', i) <=> FakeAt(input, i)
    OBVIOUS
  <2> QED BY <1>0, <1>1, <2>1, <2>2, <2>3 DEF Apiece
<1>6. Beside' <=> Beside
  BY DEF Beside
<1>7. \A q : Meant(q)' <=> Meant(q)
  BY <1>6 DEF Meant
<1> QED BY <1>1, <1>2, <1>3, <1>4, <1>5, <1>7

LEMMA TruthKept ==
  ASSUME KeyInv, kbd_state' = kbd_state,
         Focused' <=> Focused, Gaining' <=> Gaining, Gained' <=> Gained, Losing' <=> Losing, Lost' <=> Lost,
         Unfocused' <=> Unfocused, \A q : Meant(q)' <=> Meant(q),
         \A q \in Pressable : Outlook(q)' <=> Outlook(q),
         \A q \in Pressable : nested' # <<>> /\ Outermost'.kind # "char" /\ Outermost'.key = q /\ ~Spoken(pending', q) =>
           nested # <<>> /\ Outermost = Outermost' /\ ~Spoken(pending, q)
  PROVE  Truthful'
<1>1. Truthful
  BY DEF KeyInv
<1> SUFFICES ASSUME NEW q \in Pressable
             PROVE  /\ Focused' => (Outlook(q)' <=> Meant(q)')
                    /\ Losing' \/ Lost' => (Outlook(q)' => q \in kbd_state')
                    /\ Gaining' \/ Gained' \/ Unfocused' => ~Outlook(q)'
                    /\ Focused' /\ nested' # <<>> /\ Outermost'.kind # "char" /\ Outermost'.key = q
                         /\ ~Spoken(pending', q) => (Outermost'.kind = "keydown" <=> q \in kbd_state')
  BY DEF Truthful
<1>2. (Outlook(q)' <=> Outlook(q)) /\ (Meant(q)' <=> Meant(q))
  OBVIOUS
<1>3. /\ Focused => (Outlook(q) <=> Meant(q))
      /\ Losing \/ Lost => (Outlook(q) => q \in kbd_state)
      /\ Gaining \/ Gained \/ Unfocused => ~Outlook(q)
      /\ Focused /\ nested # <<>> /\ Outermost.kind # "char" /\ Outermost.key = q /\ ~Spoken(pending, q) =>
           (Outermost.kind = "keydown" <=> q \in kbd_state)
  BY <1>1 DEF Truthful
<1> QED BY <1>2, <1>3

\* A character of a press is retrieved.
LEMMA Composed ==
  ASSUME Typable, KeyInv, Keyboard!CharMessage
  PROVE  KeyInv'
<1>0. KeysTyped /\ Queueing /\ SentInside /\ Texts /\ FocusTold /\ Truthful
  BY DEF KeyInv
<1> DEFINE f == [kind |-> "char", key |-> event_info.key, token |-> next_id]
<1>1. /\ ~panicked /\ nested = <<>> /\ sent = <<>> /\ posted # <<>> /\ Head(posted).kind = "char"
      /\ posted' = Tail(posted) /\ is_active' = is_active /\ is_focused' = is_focused
      /\ modifiers_state' = modifiers_state /\ kbd_state' = kbd_state /\ input' = input /\ sent' = sent
      /\ foreground' = foreground /\ down' = down /\ env' = env /\ app_modifiers' = app_modifiers
  BY DEF Keyboard!CharMessage, Keyboard!window, Keyboard!user
<1>2. Spelling
  BY <1>1, Stages
<1>3. event_info # None /\ event_info.key \in Pressable
  BY <1>2 DEF Spelling
<1>4. /\ event_info' = [event_info EXCEPT !.chars = @ + 1] /\ pending' = Keyboard!AddPending
      /\ next_id' = next_id + 1 /\ nested' = <<f>> /\ heard' = <<>> /\ panicked' = panicked /\ app_down' = app_down
  BY <1>3 DEF Keyboard!CharMessage
<1>5. event_info \in Infos /\ event_info.chars \in Nat /\ event_info.key \in Keyboard!Keys
  <2>1. event_info \in Infos
    BY <1>0, <1>3 DEF KeysTyped
  <2> QED BY <2>1 DEF Infos
<1>6. event_info'.key = event_info.key /\ event_info'.chars = event_info.chars + 1 /\ event_info' \in Infos
      /\ event_info' # None
  <2>1. event_info'.key = event_info.key /\ event_info'.chars = event_info.chars + 1 /\ event_info' \in Infos
    BY <1>4, <1>5 DEF Infos
  <2>2. None \notin Infos
    BY DEF Typable
  <2> QED BY <2>1, <2>2
<1>7. posted \in Seq(CharMessages) /\ posted[1] = Head(posted) /\ 1 \in DOMAIN posted
      /\ posted' \in Seq(CharMessages) /\ Len(posted') = Len(posted) - 1
      /\ \A i \in DOMAIN posted' : posted'[i] = posted[i + 1] /\ i + 1 \in DOMAIN posted
      /\ Len(posted) \in Nat
  <2>1. posted \in Seq(CharMessages)
    BY <1>0 DEF KeysTyped
  <2> QED BY <1>1, <2>1
<1>8. /\ \A i \in DOMAIN posted : posted[i] = Keyboard!Message("char", event_info.key)
      /\ event_info.chars + Len(posted) = Units(event_info.key)
  <2>1. posted # <<Keyboard!Message("deadchar", event_info.key)>>
    BY <1>1 DEF Keyboard!Message
  <2> QED BY <1>2, <2>1 DEF Spelling
<1>9. f \in KeyFrames /\ f.token = next_id /\ f.kind = "char" /\ f.key = event_info.key
  BY <1>0, <1>5 DEF KeyFrames, KeysTyped
<1>10. pending = <<>>
  BY <1>0, <1>1 DEF Queueing
<1> HIDE DEF f
<1>11. /\ nested' \in Seq(KeyFrames) /\ pending' \in Seq(PendingEntries) /\ next_id' \in Nat
       /\ nested' # <<>> /\ Len(nested') = 1 /\ nested'[1] = f /\ Outermost' = f
       /\ Queueing' /\ SentInside'
       /\ \A i \in DOMAIN pending' : pending'[i].event # None => WholeText(pending'[i].event)
       /\ \A k : Alike(k)
  <2>1. \A i \in DOMAIN pending : pending[i].event # None => WholeText(pending[i].event)
    BY <1>10
  <2>2. nested # <<>> => f.key \in SentKeys /\ f.kind # "char"
    BY <1>1
  <2>3. nested' = <<f>> \o nested /\ Len(nested) = 0
    BY <1>1, <1>4
  <2>4. Len(nested') = 1
    BY <1>4
  <2> QED BY <1>0, <1>1, <1>4, <1>9, <2>1, <2>2, <2>3, <2>4, Begun
<1>12. \A k : ~Spoken(pending', k) /\ ~Spoken(pending, k)
  <2>1. \A k : ~Spoken(pending, k)
    BY <1>10 DEF Spoken
  <2> QED BY <1>11, <2>1 DEF Alike
<1>13. KeysTyped'
  BY <1>0, <1>1, <1>4, <1>6, <1>7, <1>11 DEF KeysTyped
<1>14. Spelling'
  <2>1. \A i \in DOMAIN posted' : posted'[i] = Keyboard!Message("char", event_info'.key)
    BY <1>6, <1>7, <1>8
  <2>2. event_info'.chars + Len(posted') = Units(event_info.key)
    BY <1>5, <1>6, <1>7, <1>8
  <2>3. Units(event_info'.key) = Units(event_info.key)
    BY <1>6
  <2> QED BY <1>3, <1>6, <1>9, <1>11, <2>1, <2>2, <2>3 DEF Spelling
<1>15. Texts'
  BY <1>1, <1>4, <1>11, <1>12, <1>14 DEF Texts
<1>16. /\ FocusTold' /\ Leading' /\ Paired' /\ Apiece'
       /\ Focused' <=> Focused
       /\ Gaining' <=> Gaining
       /\ Gained' <=> Gained
       /\ Losing' <=> Losing
       /\ Lost' <=> Lost
       /\ Unfocused' <=> Unfocused
       /\ \A q : Meant(q)' <=> Meant(q)
  BY <1>1, OthersSame
<1>17. Truthful'
  <2>1. \A q \in Pressable : Outlook(q)' <=> Outlook(q)
    <3>1. \A q : Outlook(q) <=> IF event_info.key = q THEN TRUE ELSE q \in app_down
      BY <1>1, <1>2, <1>12 DEF Outlook, Underway
    <3>2. \A q : Outlook(q)' <=> IF event_info.key = q THEN TRUE ELSE q \in app_down
      <4>1. \A q : ~Underway(q)'
        BY <1>9, <1>11 DEF Underway
      <4>2. \A q : ~Spoken(pending, q)'
        BY <1>12
      <4> QED BY <1>4, <1>6, <1>14, <4>1, <4>2 DEF Outlook
    <3> QED BY <3>1, <3>2
  <2>2. Outermost'.kind = "char"
    BY <1>9, <1>11
  <2> QED BY <1>1, <1>16, <2>1, <2>2, TruthKept
<1> QED BY <1>11, <1>13, <1>15, <1>16, <1>17 DEF KeyInv

\* The dead character of a press: the press is told at once.
LEMMA DeadHeard ==
  ASSUME Typable, KeyInv, Keyboard!DeadChar
  PROVE  KeyInv'
<1>0. KeysTyped /\ Queueing /\ SentInside /\ Texts /\ FocusTold /\ Truthful
  BY DEF KeyInv
<1> DEFINE e == Keyboard!KeyEvent(event_info.key, "pressed", FALSE, 0)
<1>1. /\ ~panicked /\ nested = <<>> /\ sent = <<>> /\ posted # <<>> /\ Head(posted).kind = "deadchar"
      /\ posted' = Tail(posted) /\ is_active' = is_active /\ is_focused' = is_focused
      /\ modifiers_state' = modifiers_state /\ kbd_state' = kbd_state /\ input' = input /\ sent' = sent
      /\ foreground' = foreground /\ down' = down /\ env' = env /\ app_modifiers' = app_modifiers
      /\ nested' = nested /\ pending' = pending /\ next_id' = next_id + 1
  BY DEF Keyboard!DeadChar, Keyboard!window, Keyboard!user
<1>2. Spelling
  BY <1>1, Stages
<1>3. event_info # None /\ event_info.key \in Pressable
  BY <1>2 DEF Spelling
<1>4. /\ heard' = <<e>> /\ app_down' = Keyboard!After(app_down, <<e>>) /\ event_info' = None /\ panicked' = panicked
  BY <1>3 DEF Keyboard!DeadChar, Keyboard!Dispatch
<1>5. posted \in Seq(CharMessages) /\ posted[1] = Head(posted) /\ 1 \in DOMAIN posted
  <2>1. posted \in Seq(CharMessages)
    BY <1>0 DEF KeysTyped
  <2> QED BY <1>1, <2>1
<1>6. posted = <<Keyboard!Message("deadchar", event_info.key)>> /\ Kinds[event_info.key] = "dead"
  <2>1. posted[1] # Keyboard!Message("char", event_info.key)
    BY <1>1, <1>5 DEF Keyboard!Message
  <2> QED BY <1>2, <1>5, <2>1 DEF Spelling
<1>7. posted' = <<>>
  BY <1>1, <1>6
<1>8. event_info.key \in Keyboard!Keys
  BY <1>3, KeyFacts
<1>9. e \in KeyEvents /\ e.key = event_info.key /\ e.state = "pressed" /\ WholeText(e)
  <2>1. Units(event_info.key) = 0
    BY <1>6 DEF Units
  <2>2. e \in KeyEvents /\ e.key = event_info.key /\ e.state = "pressed" /\ e.chars = 0
    BY <1>8 DEF Keyboard!KeyEvent, KeyEvents
  <2> HIDE DEF e
  <2> QED BY <2>1, <2>2 DEF WholeText
<1> HIDE DEF e
<1>10. \A k : k \in app_down' <=> k = event_info.key \/ k \in app_down
  <2> DEFINE es == <<e>>
  <2>1. es \in Seq(KeyEvents) /\ DOMAIN es = {1} /\ es[1] = e
    BY <1>9
  <2>2. app_down' = Keyboard!After(app_down, es)
    BY <1>4
  <2> HIDE DEF es
  <2>3. \A k : k \in app_down' <=>
           \/ k \in app_down /\ \A i \in DOMAIN es : es[i].key # k
           \/ \E i \in DOMAIN es : /\ es[i].key = k /\ es[i].state = "pressed"
                                   /\ \A j \in DOMAIN es : j > i => es[j].key # k
    BY <2>1, <2>2, AfterIs
  <2>4. ~(1 > 1)
    OBVIOUS
  <2> QED BY <1>9, <2>1, <2>3, <2>4
<1>11. pending = <<>> /\ pending' = <<>>
  BY <1>0, <1>1 DEF Queueing
<1>12. heard' \in Seq(KeyEvents) /\ \A i \in DOMAIN heard' : WholeText(heard'[i])
  <2>1. DOMAIN <<e>> = {1} /\ <<e>>[1] = e /\ <<e>> \in Seq(KeyEvents)
    BY <1>9
  <2> QED BY <1>4, <1>9, <2>1
<1>13. KeysTyped'
  <2>1. app_down' \subseteq Keyboard!Keys
    BY <1>0, <1>8, <1>10 DEF KeysTyped
  <2>2. posted' \in Seq(CharMessages)
    BY <1>7
  <2>3. next_id' \in Nat
    BY <1>0, <1>1 DEF KeysTyped
  <2> QED BY <1>0, <1>1, <1>4, <1>12, <2>1, <2>2, <2>3 DEF KeysTyped
<1>14. Queueing' /\ SentInside'
  <2>1. \A i, j \in DOMAIN nested' : FALSE
    BY <1>1
  <2>2. \A i, j \in DOMAIN pending' : FALSE
    BY <1>11
  <2>3. ~panicked'
    BY <1>1, <1>4
  <2> QED BY <1>1, <1>11, <2>1, <2>2, <2>3 DEF Queueing, SentInside
<1>15. Wordless'
  BY <1>1, <1>4, <1>7 DEF Wordless
<1>16. Texts'
  <2>1. \A i \in DOMAIN pending' : FALSE
    BY <1>11
  <2> QED BY <1>1, <1>4, <1>7, <1>12, <1>15, <2>1 DEF Texts
<1>17. /\ FocusTold' /\ Leading' /\ Paired' /\ Apiece'
       /\ Focused' <=> Focused
       /\ Gaining' <=> Gaining
       /\ Gained' <=> Gained
       /\ Losing' <=> Losing
       /\ Lost' <=> Lost
       /\ Unfocused' <=> Unfocused
       /\ \A q : Meant(q)' <=> Meant(q)
  BY <1>1, OthersSame
<1>18. Truthful'
  <2>1. \A q : ~Spoken(pending, q) /\ ~Spoken(pending, q)'
    BY <1>11 DEF Spoken
  <2>2. \A q : Outlook(q) <=> IF event_info.key = q THEN TRUE ELSE q \in app_down
    BY <1>1, <1>2, <2>1 DEF Outlook, Underway
  <2>3. ~Spelling' /\ \A q : ~Underway(q)'
    BY <1>1, <1>4 DEF Spelling, Underway
  <2>4. \A q : Outlook(q)' <=> q \in app_down'
    BY <2>1, <2>3 DEF Outlook
  <2>5. \A q \in Pressable : Outlook(q)' <=> Outlook(q)
    BY <1>10, <2>2, <2>4
  <2> QED BY <1>1, <1>17, <2>5, TruthKept
<1> QED BY <1>13, <1>14, <1>16, <1>17, <1>18 DEF KeyInv

----
(* Messages end *)

\* What the end of a message leaves alone.
LEMMA FinishesIs ==
  ASSUME Keyboard!Finishes
  PROVE  /\ nested' = Tail(nested) /\ next_id' = next_id /\ is_active' = is_active /\ is_focused' = is_focused
         /\ modifiers_state' = modifiers_state /\ kbd_state' = kbd_state /\ posted' = posted /\ input' = input
         /\ sent' = sent /\ foreground' = foreground /\ down' = down /\ env' = env
         /\ app_modifiers' = app_modifiers
BY DEF Keyboard!Finishes, Keyboard!window, Keyboard!queue, Keyboard!user

\* Inside another: a key that was sent, with what it may make of the characters of the other.
LEMMA FinishedInside ==
  ASSUME Typable, KeyInv, nested # <<>>, Len(nested) # 1, sent = <<>>, Keyboard!Finishes,
         \/ Keyboard!RemovePending(Head(nested).token)
         \/ \E e \in KeyEvents : e.key \in SentKeys /\ WholeText(e) /\ Keyboard!CompletePending(Head(nested).token, e),
         \/ event_info' = event_info
         \/ event_info' = None /\ posted = <<>>
         \/ event_info' \in Infos /\ posted # <<>>
  PROVE  KeyInv'
<1>0. KeysTyped /\ Queueing /\ SentInside /\ Texts
  BY DEF KeyInv
<1>1. /\ nested' = Tail(nested) /\ next_id' = next_id /\ is_active' = is_active /\ is_focused' = is_focused
      /\ modifiers_state' = modifiers_state /\ kbd_state' = kbd_state /\ posted' = posted /\ input' = input
      /\ sent' = sent /\ foreground' = foreground /\ down' = down /\ env' = env
      /\ app_modifiers' = app_modifiers
  BY FinishesIs
<1>2. \A i \in DOMAIN pending : pending[i].event # None => WholeText(pending[i].event)
  BY <1>0 DEF Texts
<1>3. /\ pending' \in Seq(PendingEntries) /\ panicked' = panicked /\ heard' = <<>> /\ app_down' = app_down
      /\ Queueing' /\ SentInside'
      /\ \A i \in DOMAIN pending' : pending'[i].event # None => WholeText(pending'[i].event)
      /\ \A k \in Pressable : Alike(k)
  <2>1. CASE Keyboard!RemovePending(Head(nested).token)
    BY <1>0, <1>1, <1>2, <2>1, RemovesInside
  <2>2. ASSUME NEW e \in KeyEvents, e.key \in SentKeys, WholeText(e), Keyboard!CompletePending(Head(nested).token, e)
        PROVE  /\ pending' \in Seq(PendingEntries) /\ panicked' = panicked /\ heard' = <<>> /\ app_down' = app_down
               /\ Queueing' /\ SentInside'
               /\ \A i \in DOMAIN pending' : pending'[i].event # None => WholeText(pending'[i].event)
               /\ \A k \in Pressable : Alike(k)
    BY <1>0, <1>1, <1>2, <2>2, CompletesInside
  <2> QED BY <2>1, <2>2
<1>4. /\ Tail(nested) \in Seq(KeyFrames) /\ Tail(nested) # <<>> /\ Tail(nested)[Len(Tail(nested))] = Outermost
  BY <1>0, UnderwayIs
<1>5. Outermost' = Outermost /\ nested' # <<>> /\ nested' \in Seq(KeyFrames)
  BY <1>1, <1>4 DEF Outermost
<1>6. ~Spelling /\ (Wordless \/ Translated) /\ Outermost.kind # "char"
  <2>1. ~Spelling
    BY DEF Spelling
  <2> QED BY <1>0, <2>1 DEF Texts, Wordless, Translated
<1>7. ~Spelling'
  <2>1. Len(nested') = 1 => nested'[1] = Outermost'
    BY DEF Outermost
  <2> QED BY <1>5, <1>6, <2>1 DEF Spelling
<1>8. KeysTyped'
  <2>1. event_info' \in {None} \cup Infos
    BY <1>0 DEF KeysTyped
  <2>2. heard' \in Seq(KeyEvents)
    BY <1>3
  <2> QED BY <1>0, <1>1, <1>3, <1>5, <2>1, <2>2 DEF KeysTyped
<1>9. Texts'
  <2>1. Wordless => Wordless'
    BY <1>1, <1>5 DEF Wordless
  <2>2. Translated => Translated'
    <3>1. Keyboard!Characters(Outermost)' = Keyboard!Characters(Outermost)
      BY <1>5 DEF Keyboard!Characters
    <3> QED BY <1>1, <1>5, <3>1 DEF Translated
  <2>3. posted' # <<>> \/ event_info' # None => \A k \in Pressable : ~Spoken(pending', k)
    <3>1. posted' # <<>> \/ event_info' # None => posted # <<>> \/ event_info # None
      BY <1>1
    <3> QED BY <1>0, <1>3, <3>1 DEF Texts, Alike
  <2>4. \A i \in DOMAIN heard' : WholeText(heard'[i])
    BY <1>3
  <2> QED BY <1>1, <1>3, <1>6, <2>1, <2>2, <2>3, <2>4 DEF Texts
<1>10. /\ FocusTold' /\ Leading' /\ Paired' /\ Apiece'
       /\ Focused' <=> Focused
       /\ Gaining' <=> Gaining
       /\ Gained' <=> Gained
       /\ Losing' <=> Losing
       /\ Lost' <=> Lost
       /\ Unfocused' <=> Unfocused
       /\ \A q : Meant(q)' <=> Meant(q)
  BY <1>1, OthersSame
<1>11. Truthful'
  <2>1. NextIsAltGr' <=> NextIsAltGr
    BY <1>1 DEF NextIsAltGr
  <2>2. \A q : Underway(q)' <=> Underway(q)
    BY <1>5, <2>1 DEF Underway
  <2>3. \A q \in Pressable : (Spoken(pending, q)' <=> Spoken(pending, q)) /\ (SpokenDown(pending, q)' <=> SpokenDown(pending, q))
    BY <1>3 DEF Alike
  <2>4. \A q \in Pressable : Outlook(q)' <=> Outlook(q)
    BY <1>3, <1>5, <1>6, <1>7, <2>2, <2>3 DEF Outlook
  <2> QED BY <1>1, <1>5, <1>10, <2>3, <2>4, TruthKept
<1> QED BY <1>3, <1>8, <1>9, <1>10, <1>11 DEF KeyInv

\* The last one: the queue is told.
LEMMA FinishedLast ==
  ASSUME Typable, KeyInv, nested # <<>>, Len(nested) = 1, sent = <<>>, Keyboard!Finishes,
         pending' = <<>>, panicked' = panicked, heard' \in Seq(KeyEvents), app_down' \subseteq Keyboard!Keys,
         \A i \in DOMAIN heard' : WholeText(heard'[i]),
         event_info' \in {None} \cup Infos, Wordless' \/ Spelling',
         \A q \in Pressable : Outlook(q) <=> (Spelling' /\ event_info'.key = q) \/ q \in app_down'
  PROVE  KeyInv'
<1>0. KeysTyped /\ Queueing /\ SentInside /\ Texts
  BY DEF KeyInv
<1>1. /\ nested' = Tail(nested) /\ next_id' = next_id /\ is_active' = is_active /\ is_focused' = is_focused
      /\ modifiers_state' = modifiers_state /\ kbd_state' = kbd_state /\ posted' = posted /\ input' = input
      /\ sent' = sent /\ foreground' = foreground /\ down' = down /\ env' = env
      /\ app_modifiers' = app_modifiers
  BY FinishesIs
<1>2. nested' = <<>>
  BY <1>0, <1>1, UnderwayIs
<1>3. KeysTyped'
  BY <1>0, <1>1, <1>2 DEF KeysTyped
<1>4. (\A i, j \in DOMAIN nested' : FALSE) /\ (\A i, j \in DOMAIN pending' : FALSE)
  BY <1>2
<1>5. Queueing' /\ SentInside'
  <2>1. ~panicked'
    BY <1>0 DEF Queueing
  <2> QED BY <1>2, <1>4, <2>1 DEF Queueing, SentInside
<1>6. \A q : ~Spoken(pending', q)
  BY <1>4 DEF Spoken
<1>7. Texts'
  BY <1>1, <1>4, <1>6 DEF Texts
<1>8. /\ FocusTold' /\ Leading' /\ Paired' /\ Apiece'
      /\ Focused' <=> Focused
      /\ Gaining' <=> Gaining
      /\ Gained' <=> Gained
      /\ Losing' <=> Losing
      /\ Lost' <=> Lost
      /\ Unfocused' <=> Unfocused
      /\ \A q : Meant(q)' <=> Meant(q)
  BY <1>1, OthersSame
<1>9. Truthful'
  <2>1. \A q : ~Underway(q)' /\ ~Spoken(pending, q)'
    BY <1>2, <1>6 DEF Underway
  <2>2. \A q \in Pressable : Outlook(q)' <=> (Spelling' /\ event_info'.key = q) \/ q \in app_down'
    BY <2>1 DEF Outlook
  <2>3. \A q \in Pressable : Outlook(q)' <=> Outlook(q)
    BY <2>2
  <2> QED BY <1>1, <1>2, <1>8, <2>3, TruthKept
<1> QED BY <1>3, <1>5, <1>7, <1>8, <1>9 DEF KeyInv

\* What the message that ends is, and what comes next.
LEMMA TopIs ==
  ASSUME Typable, KeyInv, NEW kind, Keyboard!Top(kind)
  PROVE  /\ nested # <<>> /\ sent = <<>> /\ Head(nested).kind = kind /\ Head(nested).key \in Keyboard!Keys
         /\ Len(nested) = 1 => Outermost = Head(nested)
         /\ Len(nested) # 1 => Head(nested).key \in SentKeys /\ kind # "char"
         /\ Keyboard!NextIs({"char", "deadchar"}) <=> posted # <<>>
         /\ posted = <<>> => (Keyboard!IsCurrentFake <=> Head(nested).key = Keyboard!Ctrl /\ NextIsAltGr)
         /\ Keyboard!IsCurrentFake => Head(nested).key = Keyboard!Ctrl
         /\ Keyboard!NextIs({"char"}) => posted # <<>>
<1>0. KeysTyped /\ Queueing /\ SentInside
  BY DEF KeyInv
<1>1. nested # <<>> /\ sent = <<>> /\ Head(nested).kind = kind
  BY DEF Keyboard!Top
<1>2. /\ Head(nested) \in KeyFrames
      /\ Len(nested) = 1 => Outermost = Head(nested)
      /\ Len(nested) # 1 => Head(nested).key \in SentKeys /\ Head(nested).kind # "char"
  BY <1>0, <1>1, UnderwayIs
<1>3. Head(nested).key \in Keyboard!Keys
  BY <1>2 DEF KeyFrames
<1>4. input \in Seq(InputMessages) /\ posted \in Seq(CharMessages)
  BY <1>0 DEF KeysTyped
<1> DEFINE r == posted \o input
<1>5. posted # <<>> => r # <<>> /\ Head(r) = posted[1] /\ posted[1].kind \in {"char", "deadchar"}
  <2> SUFFICES ASSUME posted # <<>> PROVE r # <<>> /\ Head(r) = posted[1] /\ posted[1].kind \in {"char", "deadchar"}
    OBVIOUS
  <2>1. posted[1] \in CharMessages
    BY <1>4
  <2>2. posted[1].kind \in {"char", "deadchar"}
    BY <2>1 DEF CharMessages
  <2>3. r # <<>> /\ Head(r) = posted[1]
    <3>1. posted \in Seq(CharMessages \cup InputMessages) /\ input \in Seq(CharMessages \cup InputMessages)
      BY <1>4
    <3>2. Len(r) = Len(posted) + Len(input) /\ r \in Seq(CharMessages \cup InputMessages)
      BY <3>1, ConcatProperties
    <3>3. Len(posted) \in Nat \ {0} /\ Len(input) \in Nat
      BY <1>4
    <3>4. r[1] = posted[1]
      <4>1. 1 \in 1 .. Len(posted) + Len(input) /\ 1 <= Len(posted)
        BY <3>3
      <4> QED BY <3>1, <4>1, ConcatProperties
    <3>5. Len(r) # 0
      BY <3>2, <3>3
    <3> HIDE DEF r
    <3>6. r # <<>>
      BY <3>5
    <3> QED BY <3>2, <3>4, <3>6
  <2> QED BY <2>2, <2>3
<1>6. posted = <<>> => r = input
  <2>1. posted = <<>> => r = <<>> \o input
    OBVIOUS
  <2>2. <<>> \o input = input
    BY <1>4
  <2> QED BY <2>1, <2>2
<1>7. input # <<>> => Head(input) = input[1] /\ input[1].kind \in {"keydown", "keyup"}
  <2> SUFFICES ASSUME input # <<>> PROVE Head(input) = input[1] /\ input[1].kind \in {"keydown", "keyup"}
    OBVIOUS
  <2>1. input[1] \in InputMessages /\ Head(input) = input[1]
    BY <1>4
  <2> QED BY <2>1 DEF InputMessages
<1> HIDE DEF r
<1>8. \A kinds : Keyboard!NextIs(kinds) <=> r # <<>> /\ Head(r).kind \in kinds
  BY DEF Keyboard!NextIs, r
<1>9. Keyboard!NextIs({"char", "deadchar"}) <=> posted # <<>>
  BY <1>5, <1>6, <1>7, <1>8
<1>10. Keyboard!NextIs({"char"}) => posted # <<>>
  BY <1>6, <1>7, <1>8
<1>11. Keyboard!IsCurrentFake <=> /\ Head(nested).key = Keyboard!Ctrl
                                  /\ r # <<>> /\ Head(r).kind \in {"keydown", "keyup"}
                                  /\ Kinds[Head(r).key] = "altgr"
  BY <1>8 DEF Keyboard!IsCurrentFake, Keyboard!TheKey, r
<1>12. posted = <<>> => (Keyboard!IsCurrentFake <=> Head(nested).key = Keyboard!Ctrl /\ NextIsAltGr)
  <2> SUFFICES ASSUME posted = <<>>
               PROVE  Keyboard!IsCurrentFake <=> Head(nested).key = Keyboard!Ctrl /\ NextIsAltGr
    OBVIOUS
  <2>1. input # <<>> => input[1].key \in Keyboard!Keys
    <3>1. input # <<>> => input[1] \in InputMessages
      BY <1>4
    <3> QED BY <3>1, KeyFacts DEF InputMessages
  <2>2. input # <<>> => (Kinds[input[1].key] = "altgr" <=> input[1].key \in AltGrs)
    BY <2>1, KeyFacts
  <2> QED BY <1>6, <1>7, <1>11, <2>2 DEF NextIsAltGr
<1> QED BY <1>1, <1>2, <1>3, <1>9, <1>10, <1>11, <1>12

\* The press or release of a key, without text.
LEMMA PlainIs ==
  ASSUME NEW k \in Keyboard!Keys, NEW state \in {"pressed", "released"}
  PROVE  LET e == Keyboard!KeyEvent(k, state, FALSE, 0)
         IN  /\ e \in KeyEvents /\ e.key = k /\ e.state = state
             /\ (state = "pressed" => Kinds[k] \notin Textual) => WholeText(e)
<1> DEFINE e == Keyboard!KeyEvent(k, state, FALSE, 0)
<1>1. e = [key |-> k, state |-> state, is_synthetic |-> FALSE, chars |-> 0]
  BY DEF Keyboard!KeyEvent
<1> HIDE DEF e
<1>2. e \in KeyEvents /\ e.key = k /\ e.state = state /\ e.chars = 0 /\ e.is_synthetic = FALSE
  BY <1>1 DEF KeyEvents
<1>3. (state = "pressed" => Kinds[k] \notin Textual) => WholeText(e)
  <2>1. Kinds[k] \notin Textual => Units(k) = 0
    BY DEF Units, Textual
  <2> QED BY <1>2, <2>1 DEF WholeText
<1> QED BY <1>2, <1>3 DEF e

LEMMA DownDone ==
  ASSUME Typable, KeyInv, Keyboard!KeyDown
  PROVE  KeyInv'
<1>0. KeysTyped /\ Queueing /\ SentInside /\ Texts
  BY DEF KeyInv
<1> DEFINE k == Head(nested).key
           token == Head(nested).token
           e == Keyboard!KeyEvent(k, "pressed", FALSE, 0)
<1>1. Keyboard!Top("keydown") /\ Keyboard!Finishes
  BY DEF Keyboard!KeyDown
<1>2. /\ nested # <<>> /\ sent = <<>> /\ Head(nested).kind = "keydown" /\ k \in Keyboard!Keys
      /\ Len(nested) = 1 => Outermost = Head(nested)
      /\ Len(nested) # 1 => k \in SentKeys
      /\ Keyboard!NextIs({"char", "deadchar"}) <=> posted # <<>>
      /\ posted = <<>> => (Keyboard!IsCurrentFake <=> k = Keyboard!Ctrl /\ NextIsAltGr)
  BY <1>1, TopIs
<1>3. /\ posted # <<>> => event_info' = [key |-> k, chars |-> 0] /\ Keyboard!RemovePending(token)
      /\ posted = <<>> => /\ event_info' = None
                          /\ IF k = Keyboard!Ctrl /\ NextIsAltGr THEN Keyboard!RemovePending(token)
                             ELSE Keyboard!CompletePending(token, e)
  BY <1>2 DEF Keyboard!KeyDown, Keyboard!TheKey, Keyboard!TheToken
<1>4. e \in KeyEvents /\ e.key = k /\ e.state = "pressed" /\ (Kinds[k] \notin Textual => WholeText(e))
  BY <1>2, PlainIs
<1>5. [key |-> k, chars |-> 0] \in Infos
  BY <1>2 DEF Infos
<1>6. \A i \in DOMAIN pending : pending[i].event # None => WholeText(pending[i].event)
  BY <1>0 DEF Texts
<1>7. CASE Len(nested) # 1
  <2>1. Kinds[k] \notin Textual
    BY <1>2, <1>7, KeyFacts DEF Textual
  <2> HIDE DEF e, token, k
  <2>2. CASE posted # <<>>
    BY <1>1, <1>2, <1>3, <1>5, <1>7, <2>2, FinishedInside DEF token
  <2>3. CASE posted = <<>>
    <3>1. \/ Keyboard!RemovePending(token)
          \/ e.key \in SentKeys /\ WholeText(e) /\ Keyboard!CompletePending(token, e)
      BY <1>2, <1>3, <1>4, <1>7, <2>1, <2>3
    <3>2. event_info' = None
      BY <1>3, <2>3
    <3> QED BY <1>1, <1>2, <1>4, <1>7, <2>3, <3>1, <3>2, FinishedInside DEF token
  <2> QED BY <2>2, <2>3
<1>8. CASE Len(nested) = 1
  <2>1. Outermost.kind = "keydown" /\ Outermost.key = k
    BY <1>2, <1>8
  <2>2. ~Spelling
    <3>1. Outermost = nested[1]
      BY <1>8 DEF Outermost
    <3> QED BY <1>2, <2>1, <3>1 DEF Spelling
  <2>3. nested' = <<>> /\ posted' = posted
    BY <1>0, <1>1, <1>2, <1>8, FinishesIs, UnderwayIs
  <2> HIDE DEF e, token, k
  <2>4. \A q : Outlook(q) <=> ToldOf(q, IF k = q /\ ~(q = Keyboard!Ctrl /\ NextIsAltGr) THEN TRUE ELSE q \in app_down)
    BY <1>2, <2>1, <2>2 DEF Outlook, Underway, ToldOf
  <2>5. CASE posted # <<>>
    <3>1. Translated
      BY <1>0, <2>2, <2>5 DEF Texts, Wordless
    <3>2. Keyboard!RemovePending(token) /\ event_info' = [key |-> k, chars |-> 0]
      BY <1>3, <2>5
    <3>3. /\ pending' = <<>> /\ panicked' = panicked /\ heard' \in Seq(KeyEvents) /\ app_down' \subseteq Keyboard!Keys
          /\ \A i \in DOMAIN heard' : WholeText(heard'[i])
          /\ \A q : q \in app_down' <=> ToldOf(q, q \in app_down)
      BY <1>0, <1>2, <1>6, <1>8, <3>2, RemovesLast DEF token
    <3>4. \A q \in Pressable : q \in app_down' <=> q \in app_down
      BY <1>0, <2>5, <3>3 DEF Texts, ToldOf
    <3>5. \A q \in Pressable : Outlook(q) <=> q = k \/ q \in app_down
      BY <1>0, <2>4, <2>5 DEF Texts, ToldOf, NextIsAltGr
    <3>6. event_info'.key = k /\ event_info'.chars = 0 /\ event_info' \in Infos
      BY <1>5, <3>2
    <3>7. event_info' # None
      BY <3>6 DEF Typable
    <3>8. posted = Keyboard!Characters(Outermost)
      BY <3>1 DEF Translated
    <3> DEFINE C(kind) == Keyboard!Message(kind, k)
    <3>9. /\ Kinds[k] = "letter" => posted = <<C("char")>>
          /\ Kinds[k] = "pair" => posted = <<C("char"), C("char")>>
          /\ Kinds[k] = "dead" => posted = <<C("deadchar")>>
          /\ Kinds[k] \notin Textual => posted = <<>>
      <4>1. Keyboard!Characters(Outermost) =
              CASE Kinds[k] = "letter" -> <<C("char")>>
                [] Kinds[k] = "pair" -> <<C("char"), C("char")>>
                [] Kinds[k] = "dead" -> <<C("deadchar")>>
                [] OTHER -> <<>>
        BY <2>1 DEF Keyboard!Characters
      <4> HIDE DEF C
      <4>2. Kinds[k] = "letter" => posted = <<C("char")>>
        BY <3>8, <4>1
      <4>3. Kinds[k] = "pair" => posted = <<C("char"), C("char")>>
        BY <3>8, <4>1
      <4>4. Kinds[k] = "dead" => posted = <<C("deadchar")>>
        BY <3>8, <4>1
      <4>5. Kinds[k] \notin Textual => posted = <<>>
        BY <3>8, <4>1 DEF Textual
      <4> QED BY <4>2, <4>3, <4>4, <4>5
    <3>10. Kinds[k] \in Textual /\ k \in Pressable
      <4>1. Kinds[k] \in Textual
        BY <2>5, <3>9
      <4>2. k \notin SentKeys
        BY <4>1, KeyFacts DEF Textual
      <4> QED BY <1>2, <4>1, <4>2, KeyFacts
    <3>11. Spelling'
      <4>1. \/ /\ \A i \in DOMAIN posted' : posted'[i] = C("char")
               /\ event_info'.chars + Len(posted') = Units(k)
            \/ /\ posted' = <<C("deadchar")>> /\ event_info'.chars = 0 /\ nested' = <<>> /\ Kinds[k] = "dead"
        <5> HIDE DEF C
        <5>1. CASE Kinds[k] = "letter"
          <6>1. Units(k) = 1 /\ DOMAIN posted' = {1} /\ posted'[1] = C("char") /\ Len(posted') = 1
            BY <2>3, <3>9, <5>1 DEF Units
          <6> QED BY <3>6, <6>1
        <5>2. CASE Kinds[k] = "pair"
          <6>1. Units(k) = 2 /\ Len(posted') = 2
            BY <2>3, <3>9, <5>2 DEF Units
          <6>2. DOMAIN posted' = {1, 2} /\ posted'[1] = C("char") /\ posted'[2] = C("char")
            BY <2>3, <3>9, <5>2
          <6> QED BY <3>6, <6>1, <6>2
        <5>3. CASE Kinds[k] = "dead"
          BY <2>3, <3>6, <3>9, <5>3
        <5> QED BY <3>10, <5>1, <5>2, <5>3 DEF Textual
      <4> QED BY <2>3, <2>5, <3>6, <3>7, <3>10, <4>1 DEF Spelling
    <3>12. \A q \in Pressable : Outlook(q) <=> (Spelling' /\ event_info'.key = q) \/ q \in app_down'
      BY <3>4, <3>5, <3>6, <3>11
    <3> QED BY <1>1, <1>2, <1>8, <3>3, <3>6, <3>11, <3>12, FinishedLast
  <2>6. CASE posted = <<>>
    <3>1. Wordless /\ Kinds[k] \notin Textual
      BY <1>0, <1>2, <2>1, <2>2, <2>6 DEF Texts, Translated, Wordless
    <3>2. event_info' = None
      BY <1>3, <2>6
    <3>3. /\ pending' = <<>> /\ panicked' = panicked /\ heard' \in Seq(KeyEvents) /\ app_down' \subseteq Keyboard!Keys
          /\ \A i \in DOMAIN heard' : WholeText(heard'[i])
          /\ \A q : q \in app_down' <=> Outlook(q)
      <4>1. CASE k = Keyboard!Ctrl /\ NextIsAltGr
        <5>1. Keyboard!RemovePending(token)
          BY <1>3, <2>6, <4>1
        <5>2. /\ pending' = <<>> /\ panicked' = panicked /\ heard' \in Seq(KeyEvents) /\ app_down' \subseteq Keyboard!Keys
              /\ \A i \in DOMAIN heard' : WholeText(heard'[i])
              /\ \A q : q \in app_down' <=> ToldOf(q, q \in app_down)
          BY <1>0, <1>2, <1>6, <1>8, <5>1, RemovesLast DEF token
        <5> QED BY <2>4, <4>1, <5>2 DEF ToldOf
      <4>2. CASE ~(k = Keyboard!Ctrl /\ NextIsAltGr)
        <5>1. Keyboard!CompletePending(token, e) /\ WholeText(e)
          BY <1>3, <1>4, <2>6, <3>1, <4>2
        <5>2. /\ pending' = <<>> /\ panicked' = panicked /\ heard' \in Seq(KeyEvents) /\ app_down' \subseteq Keyboard!Keys
              /\ \A i \in DOMAIN heard' : WholeText(heard'[i])
              /\ \A q : q \in app_down' <=> ToldOf(q, IF e.key = q THEN e.state = "pressed" ELSE q \in app_down)
          BY <1>0, <1>2, <1>4, <1>6, <1>8, <5>1, CompletesLast DEF token
        <5> QED BY <1>4, <2>4, <4>2, <5>2 DEF ToldOf
      <4> QED BY <4>1, <4>2
    <3>4. Wordless' /\ ~Spelling'
      BY <2>3, <2>6, <3>2 DEF Wordless, Spelling
    <3>5. \A q \in Pressable : Outlook(q) <=> (Spelling' /\ event_info'.key = q) \/ q \in app_down'
      BY <3>3, <3>4
    <3> QED BY <1>1, <1>2, <1>8, <3>2, <3>3, <3>4, <3>5, FinishedLast
  <2> QED BY <2>5, <2>6
<1> QED BY <1>7, <1>8

LEMMA UpDone ==
  ASSUME Typable, KeyInv, Keyboard!KeyUp
  PROVE  KeyInv'
<1>0. KeysTyped /\ Queueing /\ SentInside /\ Texts
  BY DEF KeyInv
<1> DEFINE k == Head(nested).key
           token == Head(nested).token
           e == Keyboard!KeyEvent(k, "released", FALSE, 0)
<1>1. Keyboard!Top("keyup") /\ Keyboard!Finishes /\ event_info' = event_info
  BY DEF Keyboard!KeyUp
<1>2. /\ nested # <<>> /\ sent = <<>> /\ Head(nested).kind = "keyup" /\ k \in Keyboard!Keys
      /\ Len(nested) = 1 => Outermost = Head(nested)
      /\ Len(nested) # 1 => k \in SentKeys
      /\ posted = <<>> => (Keyboard!IsCurrentFake <=> k = Keyboard!Ctrl /\ NextIsAltGr)
  BY <1>1, TopIs
<1>3. IF Keyboard!IsCurrentFake THEN Keyboard!RemovePending(token) ELSE Keyboard!CompletePending(token, e)
  BY DEF Keyboard!KeyUp, Keyboard!TheKey, Keyboard!TheToken
<1>4. e \in KeyEvents /\ e.key = k /\ e.state = "released" /\ WholeText(e)
  BY <1>2, PlainIs
<1>6. \A i \in DOMAIN pending : pending[i].event # None => WholeText(pending[i].event)
  BY <1>0 DEF Texts
<1> HIDE DEF e, token, k
<1>7. CASE Len(nested) # 1
  <2>1. \/ Keyboard!RemovePending(token)
        \/ e.key \in SentKeys /\ WholeText(e) /\ Keyboard!CompletePending(token, e)
    BY <1>2, <1>3, <1>4, <1>7
  <2> QED BY <1>1, <1>2, <1>4, <1>7, <2>1, FinishedInside DEF token
<1>8. CASE Len(nested) = 1
  <2>1. Outermost.kind = "keyup" /\ Outermost.key = k
    BY <1>2, <1>8 DEF k
  <2>2. ~Spelling /\ Wordless
    <3>1. Outermost = nested[1]
      BY <1>8 DEF Outermost
    <3> QED BY <1>0, <1>2, <2>1, <3>1 DEF Texts, Spelling, Translated
  <2>3. nested' = <<>> /\ posted' = posted /\ posted = <<>> /\ event_info = None
    BY <1>0, <1>1, <1>2, <1>8, <2>2, FinishesIs, UnderwayIs DEF Wordless
  <2>4. \A q : Outlook(q) <=> ToldOf(q, IF k = q /\ ~(q = Keyboard!Ctrl /\ NextIsAltGr) THEN FALSE ELSE q \in app_down)
    BY <1>2, <2>1, <2>2 DEF Outlook, Underway, ToldOf
  <2>5. /\ pending' = <<>> /\ panicked' = panicked /\ heard' \in Seq(KeyEvents) /\ app_down' \subseteq Keyboard!Keys
        /\ \A i \in DOMAIN heard' : WholeText(heard'[i])
        /\ \A q : q \in app_down' <=> Outlook(q)
    <3>1. CASE k = Keyboard!Ctrl /\ NextIsAltGr
      <4>1. Keyboard!RemovePending(token)
        BY <1>2, <1>3, <2>3, <3>1
      <4>2. /\ pending' = <<>> /\ panicked' = panicked /\ heard' \in Seq(KeyEvents) /\ app_down' \subseteq Keyboard!Keys
            /\ \A i \in DOMAIN heard' : WholeText(heard'[i])
            /\ \A q : q \in app_down' <=> ToldOf(q, q \in app_down)
        BY <1>0, <1>2, <1>6, <1>8, <4>1, RemovesLast DEF token
      <4> QED BY <2>4, <3>1, <4>2 DEF ToldOf
    <3>2. CASE ~(k = Keyboard!Ctrl /\ NextIsAltGr)
      <4>1. Keyboard!CompletePending(token, e)
        BY <1>2, <1>3, <2>3, <3>2
      <4>2. /\ pending' = <<>> /\ panicked' = panicked /\ heard' \in Seq(KeyEvents) /\ app_down' \subseteq Keyboard!Keys
            /\ \A i \in DOMAIN heard' : WholeText(heard'[i])
            /\ \A q : q \in app_down' <=> ToldOf(q, IF e.key = q THEN e.state = "pressed" ELSE q \in app_down)
        BY <1>0, <1>2, <1>4, <1>6, <1>8, <4>1, CompletesLast DEF token
      <4>3. e.state # "pressed"
        BY <1>4
      <4> QED BY <1>4, <2>4, <3>2, <4>2, <4>3 DEF ToldOf
    <3> QED BY <3>1, <3>2
  <2>6. Wordless' /\ ~Spelling' /\ event_info' = None
    BY <1>1, <2>3 DEF Wordless, Spelling
  <2>7. \A q \in Pressable : Outlook(q) <=> (Spelling' /\ event_info'.key = q) \/ q \in app_down'
    BY <2>5, <2>6
  <2> QED BY <1>1, <1>2, <1>8, <2>5, <2>6, <2>7, FinishedLast
<1> QED BY <1>7, <1>8

LEMMA CharDone ==
  ASSUME Typable, KeyInv, Keyboard!Char
  PROVE  KeyInv'
<1>0. KeysTyped /\ Queueing /\ SentInside /\ Texts
  BY DEF KeyInv
<1> DEFINE token == Head(nested).token
           e == Keyboard!KeyEvent(event_info.key, "pressed", FALSE, event_info.chars)
<1>1. Keyboard!Top("char") /\ Keyboard!Finishes
  BY DEF Keyboard!Char
<1>2. /\ nested # <<>> /\ sent = <<>> /\ Len(nested) = 1
      /\ Outermost = Head(nested) /\ Outermost.kind = "char" /\ Outermost = nested[1]
      /\ Keyboard!NextIs({"char"}) => posted # <<>>
  <2>1. /\ nested # <<>> /\ sent = <<>> /\ Head(nested).kind = "char"
        /\ Len(nested) = 1 => Outermost = Head(nested)
        /\ Len(nested) = 1
        /\ Keyboard!NextIs({"char"}) => posted # <<>>
    BY <1>1, TopIs
  <2> QED BY <2>1 DEF Outermost
<1>3. Spelling
  BY <1>0, <1>2 DEF Texts, Wordless, Translated
<1>4. /\ event_info # None /\ event_info.key \in Pressable /\ event_info \in Infos /\ event_info.chars \in Nat
      /\ \A i \in DOMAIN posted : posted[i] = Keyboard!Message("char", event_info.key)
      /\ event_info.chars + Len(posted) = Units(event_info.key)
  <2>1. event_info \in Infos /\ event_info # None
    BY <1>0, <1>3 DEF Spelling, KeysTyped
  <2>2. event_info.chars \in Nat
    BY <2>1 DEF Infos
  <2> QED BY <1>2, <1>3, <2>1, <2>2 DEF Spelling
<1>5. nested' = <<>> /\ posted' = posted
  BY <1>0, <1>1, <1>2, FinishesIs, UnderwayIs
<1>6. \A i \in DOMAIN pending : pending[i].event # None => WholeText(pending[i].event)
  BY <1>0 DEF Texts
<1>7. Keyboard!NextIs({"char"}) <=> posted # <<>>
  <2>1. posted # <<>> => posted[1].kind = "char" /\ 1 \in DOMAIN posted
    <3>1. posted # <<>> => 1 \in DOMAIN posted
      BY <1>0 DEF KeysTyped
    <3> QED BY <1>4, <3>1 DEF Keyboard!Message
  <2>2. posted # <<>> => posted \o input # <<>> /\ Head(posted \o input) = posted[1]
    <3> SUFFICES ASSUME posted # <<>> PROVE posted \o input # <<>> /\ Head(posted \o input) = posted[1]
      OBVIOUS
    <3> DEFINE S == CharMessages \cup InputMessages
               r == posted \o input
    <3>1. posted \in Seq(S) /\ input \in Seq(S)
      BY <1>0 DEF KeysTyped
    <3> HIDE DEF S
    <3>2. Len(posted) \in Nat \ {0} /\ Len(input) \in Nat
      BY <3>1
    <3>3. r \in Seq(S) /\ Len(r) = Len(posted) + Len(input) /\ r[1] = posted[1]
      <4>1. 1 \in 1 .. Len(posted) + Len(input) /\ 1 <= Len(posted)
        BY <3>2
      <4> QED BY <3>1, <4>1, ConcatProperties
    <3> HIDE DEF r
    <3>4. r # <<>> /\ Head(r) = r[1]
      BY <3>2, <3>3
    <3> QED BY <3>3, <3>4 DEF r
  <2> QED BY <1>2, <2>1, <2>2 DEF Keyboard!NextIs
<1>8. /\ posted # <<>> => event_info' = event_info /\ Keyboard!RemovePending(token)
      /\ posted = <<>> => event_info' = None /\ Keyboard!CompletePending(token, e)
  BY <1>4, <1>7 DEF Keyboard!Char, Keyboard!TheToken
<1>9. \A q : Outlook(q) <=> ToldOf(q, IF event_info.key = q THEN TRUE ELSE q \in app_down)
  BY <1>2, <1>3 DEF Outlook, Underway, ToldOf
<1>10. \A q \in Pressable : ~Spoken(pending, q)
  BY <1>0, <1>4 DEF Texts
<1>11. CASE posted # <<>>
  <2> HIDE DEF token
  <2>1. /\ pending' = <<>> /\ panicked' = panicked /\ heard' \in Seq(KeyEvents) /\ app_down' \subseteq Keyboard!Keys
        /\ \A i \in DOMAIN heard' : WholeText(heard'[i])
        /\ \A q : q \in app_down' <=> ToldOf(q, q \in app_down)
    BY <1>0, <1>2, <1>6, <1>8, <1>11, RemovesLast DEF token
  <2>2. event_info' = event_info
    BY <1>8, <1>11
  <2>3. Spelling'
    BY <1>4, <1>5, <1>11, <2>2 DEF Spelling
  <2>4. \A q \in Pressable : Outlook(q) <=> (Spelling' /\ event_info'.key = q) \/ q \in app_down'
    BY <1>9, <1>10, <2>1, <2>2, <2>3 DEF ToldOf
  <2> QED BY <1>1, <1>2, <1>4, <2>1, <2>2, <2>3, <2>4, FinishedLast
<1>12. CASE posted = <<>>
  <2>1. event_info.key \in Keyboard!Keys
    BY <1>4, KeyFacts
  <2>2. e \in KeyEvents /\ e.key = event_info.key /\ e.state = "pressed" /\ e.chars = event_info.chars
    BY <1>4, <2>1 DEF Keyboard!KeyEvent, KeyEvents
  <2> HIDE DEF e, token
  <2>3. event_info.chars = Units(event_info.key)
    <3>1. Len(posted) = 0
      BY <1>12
    <3> QED BY <1>4, <3>1
  <2>4. WholeText(e)
    BY <2>2, <2>3 DEF WholeText
  <2>5. /\ pending' = <<>> /\ panicked' = panicked /\ heard' \in Seq(KeyEvents) /\ app_down' \subseteq Keyboard!Keys
        /\ \A i \in DOMAIN heard' : WholeText(heard'[i])
        /\ \A q : q \in app_down' <=> ToldOf(q, IF e.key = q THEN e.state = "pressed" ELSE q \in app_down)
    BY <1>0, <1>2, <1>6, <1>8, <1>12, <2>2, <2>4, CompletesLast DEF token
  <2>6. event_info' = None /\ Wordless' /\ ~Spelling'
    BY <1>5, <1>8, <1>12 DEF Wordless, Spelling
  <2>7. \A q \in Pressable : Outlook(q) <=> (Spelling' /\ event_info'.key = q) \/ q \in app_down'
    BY <1>9, <2>2, <2>5, <2>6 DEF ToldOf
  <2> QED BY <1>1, <1>2, <2>5, <2>6, <2>7, FinishedLast
<1> QED BY <1>11, <1>12

----
(* Messages that are sent *)

\* The first message that was sent says where the focus is.
LEMMA HeadIs ==
  ASSUME Typable, KeyInv, sent # <<>>
  PROVE  /\ Head(sent).kind = "active" => Gaining /\ Wordless
         /\ Head(sent).kind = "inactive" => Losing /\ Wordless
         /\ Head(sent).kind = "setfocus" => Gained /\ Wordless
         /\ Head(sent).kind = "killfocus" => Lost /\ Wordless
         /\ Head(sent).kind \in {"keydown", "keyup"} =>
              Focused /\ Head(sent) \in SentPresses /\ Tail(sent) \in Seq(SentPresses)
<1>1. sent \in Seq(SentPresses \cup FocusMessages)
  BY DEF KeyInv, KeysTyped
<1>2. Head(sent) \in SentPresses \cup FocusMessages
  BY <1>1
<1>3. FocusTold /\ (Focused \/ Gaining \/ Gained \/ Losing \/ Lost \/ Unfocused)
  BY DEF KeyInv, FocusTold
<1>4. Focused => Head(sent) \in SentPresses /\ Tail(sent) \in Seq(SentPresses)
  BY DEF Focused
<1>5. Focused => Head(sent).kind \in {"keydown", "keyup"}
  BY <1>4 DEF SentPresses
<1>6. Gaining => Head(sent).kind = "active"
  BY DEF Gaining, Keyboard!Message
<1>7. Gained => Head(sent).kind = "setfocus"
  BY DEF Gained, Keyboard!Message
<1>8. Losing => Head(sent).kind = "inactive"
  BY DEF Losing, Keyboard!Message
<1>9. Lost => Head(sent).kind = "killfocus"
  BY DEF Lost, Keyboard!Message
<1>10. ~Unfocused
  BY DEF Unfocused
<1>11. Head(sent).kind \in {"active", "inactive", "setfocus", "killfocus"} => Wordless
  <2>1. Head(sent).kind \in {"active", "inactive", "setfocus", "killfocus"} => Head(sent) \in FocusMessages
    BY <1>2 DEF SentPresses
  <2> QED BY <2>1, Stages
<1> QED BY <1>3, <1>4, <1>5, <1>6, <1>7, <1>8, <1>9, <1>10, <1>11

\* The window becomes active, or is no longer: the focus itself is yet to come, or to go.
LEMMA ActiveChanged ==
  ASSUME Typable, KeyInv, NEW kind \in {"active", "inactive"}, Keyboard!NcActivate(kind)
  PROVE  KeyInv'
<1>0. KeysTyped /\ Queueing /\ SentInside /\ Texts /\ FocusTold /\ Leading /\ Paired /\ Apiece /\ Truthful
  BY DEF KeyInv
<1>1. /\ sent # <<>> /\ Head(sent).kind = kind /\ sent' = Tail(sent) /\ heard' = <<>>
      /\ event_info' = event_info /\ pending' = pending /\ next_id' = next_id /\ panicked' = panicked
      /\ nested' = nested /\ kbd_state' = kbd_state /\ posted' = posted /\ input' = input
      /\ foreground' = foreground /\ down' = down /\ env' = env /\ app_down' = app_down
      /\ Keyboard!ActiveFocus(kind = "active", is_focused, kbd_state)
  BY DEF Keyboard!NcActivate, Keyboard!Arrives, Keyboard!builder, Keyboard!user
<1>2. /\ kind = "active" => Gaining
      /\ kind = "inactive" => Losing
      /\ Wordless
  BY <1>1, HeadIs
<1>3. is_active' = (kind = "active") /\ is_focused' = is_focused /\ (is_focused <=> kind = "inactive")
      /\ (is_active <=> kind = "inactive") /\ is_active \in BOOLEAN /\ is_focused \in BOOLEAN
  BY <1>0, <1>1, <1>2 DEF Keyboard!ActiveFocus, Gaining, Losing, KeysTyped
<1>4. modifiers_state' = {} /\ app_modifiers' = {}
  <2>1. CASE kind = "active"
    <3>1. modifiers_state = {} /\ app_modifiers = {}
      BY <1>0, <1>3, <2>1 DEF FocusTold
    <3>2. Keyboard!HasActiveFocus = ((kind = "active") /\ is_focused)
      BY <1>3, <2>1 DEF Keyboard!HasActiveFocus
    <3> QED BY <1>1, <3>1, <3>2 DEF Keyboard!ActiveFocus
  <2>2. CASE kind = "inactive"
    <3>1. Keyboard!HasActiveFocus # ((kind = "active") /\ is_focused) /\ ~((kind = "active") /\ is_focused)
      BY <1>3, <2>2 DEF Keyboard!HasActiveFocus
    <3> QED BY <1>1, <3>1 DEF Keyboard!ActiveFocus
  <2> QED BY <2>1, <2>2
<1> DEFINE M(name) == Keyboard!Message(name, None)
<1>5. /\ \A name \in {"active", "inactive", "setfocus", "killfocus"} : M(name) \in FocusMessages /\ M(name) \notin SentPresses
      /\ M("setfocus") # M("killfocus")
  BY DEF Keyboard!Message, FocusMessages, SentPresses
<1>6. sent' = IF kind = "active" THEN <<M("setfocus")>> ELSE <<M("killfocus")>>
  <2>1. sent = IF kind = "active" THEN <<M("active"), M("setfocus")>> ELSE <<M("inactive"), M("killfocus")>>
    BY <1>2 DEF Gaining, Losing
  <2> HIDE DEF M
  <2>2. \A a, b : Tail(<<a, b>>) = <<b>>
    OBVIOUS
  <2> QED BY <1>1, <2>1, <2>2
<1> HIDE DEF M
<1>7. /\ sent' \in Seq(SentPresses \cup FocusMessages) /\ sent' # <<>> /\ Len(sent') = 1
      /\ Head(sent') = IF kind = "active" THEN M("setfocus") ELSE M("killfocus")
      /\ Tail(sent') = <<>>
  <2> DEFINE m == IF kind = "active" THEN M("setfocus") ELSE M("killfocus")
  <2>1. sent' = <<m>> /\ m \in SentPresses \cup FocusMessages
    BY <1>5, <1>6
  <2> HIDE DEF m
  <2>2. /\ sent' \in Seq(SentPresses \cup FocusMessages) /\ sent' # <<>> /\ Len(sent') = 1
        /\ Head(sent') = m /\ Tail(sent') = <<>>
    BY <2>1
  <2> QED BY <2>2 DEF m
<1>8. /\ kind = "active" => Gained'
      /\ kind = "inactive" => Lost'
  <2>1. <<>> \in Seq(SentPresses)
    OBVIOUS
  <2> QED BY <1>1, <1>2, <1>3, <1>6, <1>7, <2>1 DEF Gained, Lost, Gaining, Losing, M
<1>9. ~Focused' /\ ~Gaining' /\ ~Losing' /\ ~Unfocused'
      /\ (kind = "active" => ~Lost')
      /\ (kind = "inactive" => ~Gained')
  <2>1. ~(is_active' /\ is_focused')
    BY <1>3
  <2>2. kind = "active" => is_active' /\ ~is_focused'
    BY <1>3
  <2>3. kind = "inactive" => is_focused' /\ ~is_active'
    BY <1>3
  <2> QED BY <1>7, <2>1, <2>2, <2>3 DEF Focused, Gaining, Losing, Unfocused, Lost, Gained
<1>10. KeysTyped'
  BY <1>0, <1>1, <1>3, <1>7 DEF KeysTyped
<1>11. Queueing' /\ SentInside'
  BY <1>0, <1>1 DEF Queueing, SentInside, Outermost
<1>12. Texts'
  <2>1. Wordless'
    BY <1>1, <1>2, StageSame
  <2>2. posted = <<>> /\ event_info = None
    BY <1>2 DEF Wordless
  <2> QED BY <1>0, <1>1, <2>1, <2>2 DEF Texts
<1>13. FocusTold'
  <2>1. ~(is_active' /\ is_focused')
    BY <1>3
  <2> QED BY <1>0, <1>1, <1>4, <1>8, <2>1 DEF FocusTold
<1>14. Leading'
  <2>1. Keyboard!Async' = Keyboard!Async
    BY <1>1 DEF Keyboard!Async
  <2>2. \A q : DownAt(kbd_state', input', Len(input'), q) <=> DownAt(kbd_state, input, Len(input), q)
    BY <1>1
  <2> QED BY <1>0, <1>1, <1>9, <2>1, <2>2 DEF Leading
<1>15. Paired'
  BY <1>0, <1>1 DEF Paired
<1>16. Apiece'
  <2>1. \A i, q : DownAt(kbd_state', input', i, q) <=> DownAt(kbd_state, input, i, q)
    BY <1>1
  <2>2. \A i : AltGrAt(kbd_state', input', i) <=> AltGrAt(kbd_state, input, i)
    BY <1>1
  <2>3. \A i : FakeAt(input', i) <=> FakeAt(input, i)
    BY <1>1
  <2>4. Gained' => Gaining
    BY <1>2, <1>9
  <2> QED BY <1>0, <1>1, <1>9, <2>1, <2>2, <2>3, <2>4 DEF Apiece
<1>17. Truthful'
  <2>1. NextIsAltGr' <=> NextIsAltGr
    BY <1>1 DEF NextIsAltGr
  <2>2. \A q : Outlook(q)' <=> Outlook(q)
    BY <1>1, <2>1, OutlookSame
  <2>3. Gained' => Gaining
    BY <1>2, <1>9
  <2>4. Lost' => Losing
    BY <1>2, <1>9
  <2> QED BY <1>0, <1>1, <1>9, <2>2, <2>3, <2>4 DEF Truthful
<1> QED BY <1>10, <1>11, <1>12, <1>13, <1>14, <1>15, <1>16, <1>17 DEF KeyInv

\* The focus is gained: the keys that are held are told.
LEMMA FocusGained ==
  ASSUME Typable, KeyInv, Keyboard!SetFocus
  PROVE  KeyInv'
<1>0. KeysTyped /\ Queueing /\ SentInside /\ Texts /\ FocusTold /\ Leading /\ Paired /\ Apiece /\ Truthful
  BY DEF KeyInv
<1> DEFINE held == Keyboard!Async
<1>1. /\ sent # <<>> /\ Head(sent).kind = "setfocus" /\ sent' = Tail(sent) /\ ~panicked
      /\ kbd_state' = held /\ Keyboard!CompleteMulti(Keyboard!Synthesized(held, "pressed"))
      /\ event_info' = event_info /\ panicked' = panicked /\ nested' = nested /\ posted' = posted /\ input' = input
      /\ foreground' = foreground /\ down' = down /\ env' = env
      /\ Keyboard!ActiveFocus(is_active, TRUE, kbd_state')
  BY DEF Keyboard!SetFocus, Keyboard!Arrives, Keyboard!user
<1>2. Gained /\ Wordless
  BY <1>1, HeadIs
<1>3. down \cap AltGrs = {} /\ \A i \in DOMAIN input : input[i].key \notin AltGrs
  BY <1>0, <1>2 DEF Apiece
<1>4. held = down /\ held \subseteq Pressable
  BY <1>0, <1>3 DEF Keyboard!Async, AltGrs, KeysTyped
<1>5. is_active /\ ~is_focused /\ foreground /\ Tail(sent) \in Seq(SentPresses)
      /\ is_active \in BOOLEAN /\ is_focused \in BOOLEAN
  BY <1>0, <1>2 DEF Gained, KeysTyped
<1>6. is_active' = is_active /\ is_focused' = TRUE
      /\ modifiers_state' = Keyboard!AgnosticMods(kbd_state') /\ app_modifiers' = modifiers_state'
  <2>1. Keyboard!HasActiveFocus # (is_active /\ TRUE)
    BY <1>5 DEF Keyboard!HasActiveFocus
  <2>2. Keyboard!UpdateModifiers(kbd_state') /\ is_active' = is_active /\ is_focused' = TRUE
    BY <1>1, <1>5, <2>1 DEF Keyboard!ActiveFocus
  <2>3. modifiers_state = app_modifiers
    BY <1>0 DEF FocusTold
  <2> QED BY <2>2, <2>3 DEF Keyboard!UpdateModifiers
<1>7. Focused'
  BY <1>1, <1>5, <1>6 DEF Focused
<1>8. ~Gaining' /\ ~Gained' /\ ~Losing' /\ ~Lost' /\ ~Unfocused'
  <2>1. is_active' /\ is_focused' /\ foreground'
    BY <1>1, <1>5, <1>6
  <2> QED BY <2>1 DEF Gaining, Gained, Losing, Lost, Unfocused
<1>9. posted = <<>> /\ event_info = None
  BY <1>2 DEF Wordless
<1> HIDE DEF held
<1>10. /\ pending' \in Seq(PendingEntries) /\ next_id' \in Nat
       /\ heard' \in Seq(KeyEvents) /\ app_down' \subseteq Keyboard!Keys
       /\ \A i \in DOMAIN heard' : WholeText(heard'[i])
       /\ \A i \in DOMAIN pending' : pending'[i].event # None => WholeText(pending'[i].event)
       /\ Queueing' /\ SentInside'
       /\ nested = <<>> => pending = <<>> /\ pending' = <<>>
       /\ nested = <<>> => \A k : k \in app_down' <=> IF k \in held THEN TRUE ELSE k \in app_down
       /\ nested # <<>> => /\ app_down' = app_down
                           /\ \A k : Spoken(pending', k) <=> Spoken(pending, k) \/ k \in held
                           /\ \A k : SpokenDown(pending', k) <=>
                                IF k \in held THEN TRUE ELSE SpokenDown(pending, k)
  <2>1. \A i \in DOMAIN pending : pending[i].event # None => WholeText(pending[i].event)
    BY <1>0 DEF Texts
  <2> QED BY <1>0, <1>1, <1>4, <2>1, Multi
<1>11. KeysTyped'
  <2>1. sent' \in Seq(SentPresses \cup FocusMessages)
    BY <1>1, <1>5
  <2> QED BY <1>0, <1>1, <1>4, <1>6, <1>10, <2>1 DEF KeysTyped
<1>12. Texts'
  <2>1. Wordless'
    BY <1>1, <1>2, StageSame
  <2> QED BY <1>1, <1>9, <1>10, <2>1 DEF Texts
<1>13. FocusTold'
  <2>1. Keyboard!AgnosticMods(kbd_state)' = Keyboard!AgnosticMods(kbd_state')
    BY DEF Keyboard!AgnosticMods
  <2>2. is_active' /\ is_focused' /\ foreground'
    BY <1>1, <1>5, <1>6
  <2> QED BY <1>6, <1>7, <2>1, <2>2 DEF FocusTold
<1>14. input \in Seq(InputMessages) /\ DOMAIN input = 1 .. Len(input) /\ Len(input) \in Nat
       /\ (input # <<>> => 1 \in DOMAIN input)
  <2>1. input \in Seq(InputMessages)
    BY <1>0 DEF KeysTyped
  <2> QED BY <2>1, EmptySeq
<1>15. Leading'
  <2>1. Keyboard!Async' = held
    BY <1>1 DEF Keyboard!Async, held
  <2> SUFFICES ASSUME NEW k \in Pressable PROVE DownAt(held, input, Len(input), k) <=> k \in held
    BY <1>1, <2>1 DEF Leading
  <2>2. CASE \E i \in DOMAIN input : input[i].key = k
    <3>1. DownAt(held, input, Len(input), k) <=> DownAt(kbd_state, input, Len(input), k)
      BY <1>14, <2>2 DEF DownAt
    <3>2. DownAt(kbd_state, input, Len(input), k) <=> k \in held
      BY <1>0, <1>5, <2>2 DEF Leading, held
    <3> QED BY <3>1, <3>2
  <2>3. CASE ~\E i \in DOMAIN input : input[i].key = k
    BY <1>14, <2>3 DEF DownAt
  <2> QED BY <2>2, <2>3
<1>16. Paired'
  BY <1>1, <1>3, <1>14 DEF Paired
<1>17. Apiece'
  <2>1. \A i \in DOMAIN input : ~FakeAt(input, i)
    <3>1. \A i \in DOMAIN input : i < Len(input) => i + 1 \in DOMAIN input
      BY <1>14
    <3> QED BY <1>3, <3>1 DEF FakeAt
  <2>2. \A i \in DOMAIN input : ~AltGrAt(held, input, i - 1)
    <3> SUFFICES ASSUME NEW i \in DOMAIN input, NEW q \in AltGrs, DownAt(held, input, i - 1, q) PROVE FALSE
      BY DEF AltGrAt
    <3>1. q \notin held
      BY <1>3, <1>4
    <3>2. \A j \in 1 .. i - 1 : j \in DOMAIN input
      BY <1>14
    <3> QED BY <1>3, <3>1, <3>2 DEF DownAt
  <2>3. \A q \in AltGrs : q \in down' => Keyboard!Ctrl \notin down'
    BY <1>0, <1>1 DEF Apiece
  <2> QED BY <1>1, <1>8, <2>1, <2>2, <2>3 DEF Apiece
<1>18. ~NextIsAltGr /\ ~NextIsAltGr' /\ ~Beside'
  <2>1. ~(input # <<>> /\ input[1].key \in AltGrs)
    BY <1>3, <1>14
  <2>2. held \cap AltGrs = {}
    BY <1>3, <1>4
  <2> QED BY <1>1, <2>1, <2>2 DEF NextIsAltGr, Beside
<1>19. ~Spelling /\ ~Spelling' /\ Outermost' = Outermost
  BY <1>1, <1>9 DEF Spelling, Outermost
<1>20. Truthful'
  <2> SUFFICES ASSUME NEW k \in Pressable
               PROVE  /\ Outlook(k)' <=> k \in held
                      /\ nested # <<>> /\ Outermost.kind # "char" /\ Outermost.key = k /\ ~Spoken(pending', k) =>
                           (Outermost.kind = "keydown" <=> k \in held)
    <3>1. \A q : Meant(q)' <=> q \in held
      BY <1>1, <1>18 DEF Meant
    <3> QED BY <1>1, <1>8, <1>19, <3>1 DEF Truthful
  <2>1. ~Outlook(k)
    BY <1>0, <1>2 DEF Truthful
  <2>2. CASE nested = <<>>
    <3>1. ~Spoken(pending, k) /\ ~Spoken(pending', k)
      BY <1>10, <2>2 DEF Spoken
    <3>2. k \notin app_down
      BY <1>19, <2>1, <2>2, <3>1 DEF Outlook, Underway
    <3>3. k \in app_down' <=> k \in held
      BY <1>10, <2>2, <3>2
    <3>4. Outlook(k)' <=> k \in app_down'
      BY <1>1, <1>19, <2>2, <3>1 DEF Outlook, Underway
    <3> QED BY <2>2, <3>3, <3>4
  <2>3. CASE nested # <<>>
    <3>1. Spoken(pending', k) <=> Spoken(pending, k) \/ k \in held
      BY <1>10, <2>3
    <3>2. SpokenDown(pending', k) <=> IF k \in held THEN TRUE ELSE SpokenDown(pending, k)
      BY <1>10, <2>3
    <3>3. Underway(k)' <=> Underway(k)
      BY <1>1, <1>18, <1>19 DEF Underway
    <3>4. CASE k \in held
      <4>1. Outlook(k)' <=> TRUE
        BY <3>1, <3>2, <3>4 DEF Outlook
      <4> QED BY <3>1, <3>4, <4>1
    <3>5. CASE k \notin held
      <4>1. Outlook(k)' <=> Outlook(k)
        BY <1>10, <1>19, <2>3, <3>1, <3>2, <3>3, <3>5 DEF Outlook
      <4>2. ASSUME Outermost.kind # "char", Outermost.key = k, ~Spoken(pending', k) PROVE Outermost.kind # "keydown"
        <5>1. Underway(k) /\ ~Spoken(pending, k)
          BY <1>18, <2>3, <3>1, <4>2 DEF Underway
        <5> QED BY <1>19, <2>1, <5>1 DEF Outlook
      <4> QED BY <2>1, <3>5, <4>1, <4>2
    <3> QED BY <3>4, <3>5
  <2> QED BY <2>2, <2>3
<1> QED BY <1>10, <1>11, <1>12, <1>13, <1>15, <1>16, <1>17, <1>20 DEF KeyInv

\* The focus is lost: every key is told to be up.
LEMMA FocusLost ==
  ASSUME Typable, KeyInv, Keyboard!KillFocus
  PROVE  KeyInv'
<1>0. KeysTyped /\ Queueing /\ SentInside /\ Texts /\ FocusTold /\ Leading /\ Paired /\ Apiece /\ Truthful
  BY DEF KeyInv
<1>1. /\ sent # <<>> /\ Head(sent).kind = "killfocus" /\ sent' = Tail(sent) /\ ~panicked
      /\ kbd_state' = kbd_state /\ Keyboard!CompleteMulti(Keyboard!Synthesized(kbd_state, "released"))
      /\ event_info' = event_info /\ panicked' = panicked /\ nested' = nested /\ posted' = posted /\ input' = input
      /\ foreground' = foreground /\ down' = down /\ env' = env
      /\ Keyboard!ActiveFocus(is_active, FALSE, kbd_state)
  BY DEF Keyboard!KillFocus, Keyboard!Arrives, Keyboard!user
<1>2. Lost /\ Wordless
  BY <1>1, HeadIs
<1>3. ~is_active /\ is_focused /\ ~foreground /\ input = <<>> /\ is_active \in BOOLEAN /\ is_focused \in BOOLEAN
      /\ kbd_state \subseteq Pressable
  BY <1>0, <1>2 DEF Lost, FocusTold, KeysTyped
<1>4. sent' = <<>>
  <2>1. \A a : Tail(<<a>>) = <<>>
    OBVIOUS
  <2> QED BY <1>1, <1>2, <2>1 DEF Lost
<1>5. is_active' = is_active /\ is_focused' = FALSE /\ modifiers_state' = {} /\ app_modifiers' = {}
  <2>1. Keyboard!HasActiveFocus = (is_active /\ FALSE)
    BY <1>3 DEF Keyboard!HasActiveFocus
  <2>2. modifiers_state = {} /\ app_modifiers = {}
    BY <1>0, <1>3 DEF FocusTold
  <2> QED BY <1>1, <2>1, <2>2 DEF Keyboard!ActiveFocus
<1>6. Unfocused' /\ ~Focused' /\ ~Gaining' /\ ~Gained' /\ ~Losing' /\ ~Lost'
  <2>1. ~is_active' /\ ~is_focused' /\ ~foreground'
    BY <1>1, <1>3, <1>5
  <2> QED BY <1>4, <2>1 DEF Unfocused, Focused, Gaining, Gained, Losing, Lost
<1>7. posted = <<>> /\ event_info = None
  BY <1>2 DEF Wordless
<1>8. /\ pending' \in Seq(PendingEntries) /\ next_id' \in Nat
      /\ heard' \in Seq(KeyEvents) /\ app_down' \subseteq Keyboard!Keys
      /\ \A i \in DOMAIN heard' : WholeText(heard'[i])
      /\ \A i \in DOMAIN pending' : pending'[i].event # None => WholeText(pending'[i].event)
      /\ Queueing' /\ SentInside'
      /\ nested = <<>> => pending = <<>> /\ pending' = <<>>
      /\ nested = <<>> => \A k : k \in app_down' <=> IF k \in kbd_state THEN FALSE ELSE k \in app_down
      /\ nested # <<>> => /\ app_down' = app_down
                          /\ \A k : Spoken(pending', k) <=> Spoken(pending, k) \/ k \in kbd_state
                          /\ \A k : SpokenDown(pending', k) <=>
                               IF k \in kbd_state THEN FALSE ELSE SpokenDown(pending, k)
  <2>1. \A i \in DOMAIN pending : pending[i].event # None => WholeText(pending[i].event)
    BY <1>0 DEF Texts
  <2>2. ~("released" = "pressed")
    OBVIOUS
  <2> QED BY <1>0, <1>1, <1>3, <2>1, <2>2, Multi
<1>9. KeysTyped'
  <2>1. sent' \in Seq(SentPresses \cup FocusMessages)
    BY <1>4
  <2> QED BY <1>0, <1>1, <1>5, <1>8, <2>1 DEF KeysTyped
<1>10. Texts'
  <2>1. Wordless'
    BY <1>1, <1>2, StageSame
  <2> QED BY <1>1, <1>7, <1>8, <2>1 DEF Texts
<1>11. FocusTold'
  BY <1>1, <1>3, <1>5, <1>6 DEF FocusTold
<1>12. Leading' /\ Paired'
  BY <1>1, <1>3 DEF Leading, Paired
<1>13. Apiece'
  <2>1. \A q \in AltGrs : q \in down' => Keyboard!Ctrl \notin down'
    BY <1>0, <1>1 DEF Apiece
  <2> QED BY <1>1, <1>3, <1>6, <2>1 DEF Apiece
<1>14. ~NextIsAltGr /\ ~NextIsAltGr' /\ ~Spelling /\ ~Spelling' /\ Outermost' = Outermost
  BY <1>1, <1>3, <1>7 DEF NextIsAltGr, Spelling, Outermost
<1>15. Truthful'
  <2> SUFFICES ASSUME NEW k \in Pressable PROVE ~Outlook(k)'
    BY <1>6 DEF Truthful
  <2>1. Outlook(k) => k \in kbd_state
    BY <1>0, <1>2 DEF Truthful
  <2>2. CASE nested = <<>>
    <3>1. ~Spoken(pending, k) /\ ~Spoken(pending', k)
      BY <1>8, <2>2 DEF Spoken
    <3>2. k \in app_down => k \in kbd_state
      BY <1>14, <2>1, <2>2, <3>1 DEF Outlook, Underway
    <3>3. k \notin app_down'
      BY <1>8, <2>2, <3>2
    <3>4. Outlook(k)' <=> k \in app_down'
      BY <1>1, <1>14, <2>2, <3>1 DEF Outlook, Underway
    <3> QED BY <3>3, <3>4
  <2>3. CASE nested # <<>>
    <3>1. Spoken(pending', k) <=> Spoken(pending, k) \/ k \in kbd_state
      BY <1>8, <2>3
    <3>2. SpokenDown(pending', k) <=> IF k \in kbd_state THEN FALSE ELSE SpokenDown(pending, k)
      BY <1>8, <2>3
    <3>3. Underway(k)' <=> Underway(k)
      BY <1>1, <1>14 DEF Underway
    <3>4. CASE k \in kbd_state
      BY <3>1, <3>2, <3>4 DEF Outlook
    <3>5. CASE k \notin kbd_state
      <4>1. Outlook(k)' <=> Outlook(k)
        BY <1>8, <1>14, <2>3, <3>1, <3>2, <3>3, <3>5 DEF Outlook
      <4> QED BY <2>1, <3>5, <4>1
    <3> QED BY <3>4, <3>5
  <2> QED BY <2>2, <2>3
<1> QED BY <1>8, <1>9, <1>10, <1>11, <1>12, <1>13, <1>15 DEF KeyInv

\* A key that another program sent begins, inside whatever is under way.
LEMMA SentBegun ==
  ASSUME Typable, KeyInv, Keyboard!SentKey
  PROVE  KeyInv'
<1>0. KeysTyped /\ Queueing /\ SentInside /\ Texts /\ FocusTold /\ Leading /\ Paired /\ Apiece /\ Truthful
  BY DEF KeyInv
<1> DEFINE m == Head(sent)
           f == [kind |-> m.kind, key |-> m.key, token |-> next_id]
<1>1. /\ sent # <<>> /\ m.kind \in {"keydown", "keyup"} /\ sent' = Tail(sent) /\ ~panicked
      /\ event_info' = event_info /\ is_active' = is_active /\ is_focused' = is_focused
      /\ kbd_state' = kbd_state /\ posted' = posted /\ input' = input
      /\ foreground' = foreground /\ down' = down /\ env' = env
  BY DEF Keyboard!SentKey, Keyboard!Arrives, Keyboard!user
<1>2. /\ pending' = Keyboard!AddPending /\ next_id' = next_id + 1 /\ nested' = <<f>> \o nested
      /\ Keyboard!UpdateModifiers(kbd_state) /\ heard' = <<>> /\ panicked' = panicked /\ app_down' = app_down
  BY DEF Keyboard!SentKey, Keyboard!Begins
<1>3. Focused /\ m \in SentPresses /\ sent' \in Seq(SentPresses)
  BY <1>1, HeadIs
<1>4. m.key \in SentKeys /\ m.key \in Keyboard!Keys /\ m.key \notin Pressable /\ Kinds[m.key] = "sent"
  BY <1>3, KeyFacts DEF SentPresses
<1>5. f \in KeyFrames /\ f.token = next_id /\ f.kind = m.kind /\ f.key = m.key
  BY <1>0, <1>1, <1>4 DEF KeyFrames, KeysTyped
<1>6. event_info = None /\ (nested = <<>> => Wordless) /\ (Wordless \/ Translated)
  <2>1. event_info = None
    BY <1>1, Stages
  <2>2. ~Spelling
    BY <2>1 DEF Spelling
  <2> QED BY <1>0, <2>1, <2>2, Stages DEF Texts
<1> HIDE DEF f
<1>7. /\ nested' \in Seq(KeyFrames) /\ pending' \in Seq(PendingEntries) /\ next_id' \in Nat
      /\ nested' # <<>> /\ Outermost' = IF nested = <<>> THEN f ELSE Outermost
      /\ Queueing' /\ SentInside'
      /\ \A i \in DOMAIN pending' : pending'[i].event # None => WholeText(pending'[i].event)
      /\ \A k : Alike(k)
  <2>1. \A i \in DOMAIN pending : pending[i].event # None => WholeText(pending[i].event)
    BY <1>0 DEF Texts
  <2>2. f.key \in SentKeys /\ f.kind # "char"
    BY <1>1, <1>4, <1>5
  <2> QED BY <1>0, <1>2, <1>5, <2>1, <2>2, Begun
<1>8. modifiers_state' = modifiers_state /\ app_modifiers' = app_modifiers
  <2>1. modifiers_state = Keyboard!AgnosticMods(kbd_state)
    BY <1>0, <1>3 DEF FocusTold, Focused
  <2> QED BY <1>2, <2>1 DEF Keyboard!UpdateModifiers
<1>9. Focused' /\ ~Gaining' /\ ~Gained' /\ ~Losing' /\ ~Lost' /\ ~Unfocused'
      /\ ~Gaining /\ ~Gained /\ ~Losing /\ ~Lost /\ ~Unfocused
  <2>1. is_active' /\ is_focused' /\ foreground'
    BY <1>1, <1>3 DEF Focused
  <2>2. is_active /\ is_focused /\ foreground
    BY <1>3 DEF Focused
  <2> QED BY <1>3, <2>1, <2>2 DEF Focused, Gaining, Gained, Losing, Lost, Unfocused
<1>10. KeysTyped'
  <2>1. sent' \in Seq(SentPresses \cup FocusMessages)
    BY <1>3
  <2> QED BY <1>0, <1>1, <1>2, <1>7, <2>1 DEF KeysTyped
<1>11. Texts'
  <2>1. Wordless' \/ Translated'
    <3>1. CASE Wordless
      <4>1. CASE nested = <<>>
        <5>1. Outermost' = f /\ f.kind # "char" /\ Kinds[f.key] \notin Textual
          BY <1>1, <1>4, <1>5, <1>7, <4>1 DEF Textual
        <5> QED BY <1>1, <3>1, <5>1 DEF Wordless
      <4>2. CASE nested # <<>>
        BY <1>1, <1>7, <3>1, <4>2 DEF Wordless
      <4> QED BY <4>1, <4>2
    <3>2. CASE Translated
      <4>1. nested # <<>> /\ Outermost' = Outermost
        BY <1>7, <3>2 DEF Translated
      <4>2. Keyboard!Characters(Outermost)' = Keyboard!Characters(Outermost)
        BY <4>1 DEF Keyboard!Characters
      <4> QED BY <1>1, <1>3, <1>7, <3>2, <4>1, <4>2 DEF Translated
    <3> QED BY <1>6, <3>1, <3>2
  <2>2. posted' # <<>> \/ event_info' # None => \A k \in Pressable : ~Spoken(pending', k)
    BY <1>0, <1>1, <1>7 DEF Texts, Alike
  <2>3. \A i \in DOMAIN heard' : WholeText(heard'[i])
    BY <1>2
  <2> QED BY <1>1, <1>6, <1>7, <2>1, <2>2, <2>3 DEF Texts
<1>12. FocusTold'
  <2>1. Keyboard!AgnosticMods(kbd_state)' = Keyboard!AgnosticMods(kbd_state)
    BY <1>1 DEF Keyboard!AgnosticMods
  <2> QED BY <1>0, <1>1, <1>8, <1>9, <2>1 DEF FocusTold
<1>13. Leading'
  <2>1. Keyboard!Async' = Keyboard!Async
    BY <1>1 DEF Keyboard!Async
  <2>2. \A q : DownAt(kbd_state', input', Len(input'), q) <=> DownAt(kbd_state, input, Len(input), q)
    BY <1>1
  <2> QED BY <1>0, <1>1, <1>3, <1>9, <2>1, <2>2 DEF Leading
<1>14. Paired'
  BY <1>0, <1>1 DEF Paired
<1>15. Apiece'
  <2>1. \A i, q : DownAt(kbd_state', input', i, q) <=> DownAt(kbd_state, input, i, q)
    BY <1>1
  <2>2. \A i : AltGrAt(kbd_state', input', i) <=> AltGrAt(kbd_state, input, i)
    BY <1>1
  <2>3. \A i : FakeAt(input', i) <=> FakeAt(input, i)
    BY <1>1
  <2> QED BY <1>0, <1>1, <1>3, <1>9, <2>1, <2>2, <2>3 DEF Apiece
<1>16. (NextIsAltGr' <=> NextIsAltGr) /\ (Beside' <=> Beside) /\ ~Spelling /\ ~Spelling'
  BY <1>1, <1>6 DEF NextIsAltGr, Beside, Spelling
<1>17. Truthful'
  <2>1. \A q : Meant(q)' <=> Meant(q)
    BY <1>1, <1>16 DEF Meant
  <2>2. ASSUME NEW q \in Pressable PROVE Outlook(q)' <=> Outlook(q)
    <3>1. (Spoken(pending, q)' <=> Spoken(pending, q)) /\ (SpokenDown(pending, q)' <=> SpokenDown(pending, q))
      <4>1. Alike(q)
        BY <1>7
      <4> QED BY <4>1 DEF Alike
    <3>2. Underway(q)' <=> Underway(q)
      BY <1>4, <1>5, <1>7, <1>16, <2>2 DEF Underway
    <3>3. Underway(q) => Outermost' = Outermost
      BY <1>7 DEF Underway
    <3> QED BY <1>2, <1>16, <3>1, <3>2, <3>3 DEF Outlook
  <2>3. ASSUME NEW q \in Pressable, Outermost'.key = q, ~Spoken(pending', q)
        PROVE  nested # <<>> /\ Outermost = Outermost' /\ ~Spoken(pending, q)
    <3>1. Alike(q)
      BY <1>7
    <3> QED BY <1>4, <1>5, <1>7, <2>3, <3>1 DEF Alike
  <2> QED BY <1>1, <1>3, <1>9, <2>1, <2>2, <2>3, TruthKept
<1> QED BY <1>7, <1>10, <1>11, <1>12, <1>13, <1>14, <1>15, <1>17 DEF KeyInv

----
(* What is proved of the keyboard *)

\* A key is pressed.
LEMMA KeyPressed ==
  ASSUME Typable, KeyInv, NEW k \in Keyboard!Keys, Keyboard!Press(k)
  PROVE  KeyInv'
<1>1. env \in KeyEnvironments
  BY DEF KeyInv, KeysTyped
<1>2. env.holds = FALSE /\ env.mixes = FALSE
  BY <1>1 DEF Typable
<1>3. k \in Pressable
  BY DEF Keyboard!Press, Pressable
<1>4. down' = down \cup {k}
  BY DEF Keyboard!Press
<1>5. k = Keyboard!Ctrl => down \cap AltGrs = {}
  BY <1>2, KeyFacts DEF Keyboard!Press, AltGrs
<1>6. k \in AltGrs => Keyboard!Ctrl \notin down /\ sent = <<>>
  BY <1>2, KeyFacts DEF Keyboard!Press
<1>7. input' = IF foreground THEN input \o Keyboard!Hardware("keydown", k) ELSE input
  BY DEF Keyboard!Press
<1>8. /\ heard' = <<>> /\ event_info' = event_info /\ pending' = pending /\ next_id' = next_id
      /\ panicked' = panicked /\ nested' = nested /\ is_active' = is_active /\ is_focused' = is_focused
      /\ modifiers_state' = modifiers_state /\ kbd_state' = kbd_state /\ posted' = posted /\ sent' = sent
      /\ foreground' = foreground /\ env' = env /\ app_down' = app_down /\ app_modifiers' = app_modifiers
  BY DEF Keyboard!Press, Keyboard!Stroke, Keyboard!builder, Keyboard!window
<1>9. "keydown" # "keyup" /\ "keydown" \in {"keydown", "keyup"}
  OBVIOUS
<1> QED BY <1>3, <1>4, <1>5, <1>6, <1>7, <1>8, <1>9, Struck

\* A key is released.
LEMMA KeyReleased ==
  ASSUME Typable, KeyInv, NEW k \in Keyboard!Keys, Keyboard!Release(k)
  PROVE  KeyInv'
<1>1. k \in down /\ down' = down \ {k}
  BY DEF Keyboard!Release
<1>2. k \in Pressable
  BY <1>1 DEF KeyInv, KeysTyped
<1>3. input' = IF foreground THEN input \o Keyboard!Hardware("keyup", k) ELSE input
  BY DEF Keyboard!Release
<1>4. /\ heard' = <<>> /\ event_info' = event_info /\ pending' = pending /\ next_id' = next_id
      /\ panicked' = panicked /\ nested' = nested /\ is_active' = is_active /\ is_focused' = is_focused
      /\ modifiers_state' = modifiers_state /\ kbd_state' = kbd_state /\ posted' = posted /\ sent' = sent
      /\ foreground' = foreground /\ env' = env /\ app_down' = app_down /\ app_modifiers' = app_modifiers
  BY DEF Keyboard!Release, Keyboard!builder, Keyboard!window
<1>5. "keyup" # "keydown" /\ "keyup" \in {"keydown", "keyup"}
  OBVIOUS
<1> QED BY <1>1, <1>2, <1>3, <1>4, <1>5, Struck

\* Every step keeps the invariant.
LEMMA KeySteps ==
  ASSUME Typable, KeyInv, Keyboard!Next
  PROVE  KeyInv'
<1>1. ASSUME NEW k \in Keyboard!Keys,
             Keyboard!Press(k) \/ Keyboard!Release(k) \/ Keyboard!KeySent(k, "keydown") \/ Keyboard!KeySent(k, "keyup")
      PROVE  KeyInv'
  BY <1>1, KeyPressed, KeyReleased, KeyWasSent
<1>2. CASE Keyboard!FocusMoves
  BY <1>2, FocusMoved
<1>3. CASE Keyboard!Thread
  <2>1. CASE Keyboard!KeyMessage
    BY <2>1, Received
  <2>2. CASE Keyboard!CharMessage
    BY <2>2, Composed
  <2>3. CASE Keyboard!DeadChar
    BY <2>3, DeadHeard
  <2>4. CASE Keyboard!KeyDown
    BY <2>4, DownDone
  <2>5. CASE Keyboard!Char
    BY <2>5, CharDone
  <2>6. CASE Keyboard!KeyUp
    BY <2>6, UpDone
  <2>7. CASE Keyboard!NcActivate("active") \/ Keyboard!NcActivate("inactive")
    BY <2>7, ActiveChanged
  <2>8. CASE Keyboard!SetFocus
    BY <2>8, FocusGained
  <2>9. CASE Keyboard!KillFocus
    BY <2>9, FocusLost
  <2>10. CASE Keyboard!SentKey
    BY <2>10, SentBegun
  <2> QED BY <1>3, <2>1, <2>2, <2>3, <2>4, <2>5, <2>6, <2>7, <2>8, <2>9, <2>10 DEF Keyboard!Thread
<1> QED BY <1>1, <1>2, <1>3 DEF Keyboard!Next

\* At first no key is down and the window has no focus.
LEMMA KeysStart ==
  ASSUME Typable, Keyboard!Init
  PROVE  KeyInv
<1>1. /\ event_info = None /\ pending = <<>> /\ next_id = 0 /\ panicked = FALSE /\ nested = <<>>
      /\ is_active = FALSE /\ is_focused = FALSE /\ modifiers_state = {}
      /\ kbd_state = {} /\ posted = <<>> /\ input = <<>> /\ sent = <<>>
      /\ foreground = FALSE /\ down = {} /\ env \in KeyEnvironments
      /\ app_down = {} /\ app_modifiers = {} /\ heard = <<>>
  BY DEF Keyboard!Init
<1>2. KeysTyped
  <2>1. \A S : <<>> \in Seq(S)
    OBVIOUS
  <2>2. \A S : {} \subseteq S
    OBVIOUS
  <2>3. FALSE \in BOOLEAN /\ 0 \in Nat /\ None \in {None} \cup Infos
    OBVIOUS
  <2>4. /\ nested \in Seq(KeyFrames) /\ pending \in Seq(PendingEntries) /\ heard \in Seq(KeyEvents)
        /\ input \in Seq(InputMessages) /\ posted \in Seq(CharMessages)
        /\ sent \in Seq(SentPresses \cup FocusMessages)
    BY <1>1, <2>1, Zenon
  <2> QED BY <1>1, <2>2, <2>3, <2>4 DEF KeysTyped
<1>3. (\A i, j \in DOMAIN pending : FALSE) /\ (\A i, j \in DOMAIN nested : FALSE)
      /\ (\A i \in DOMAIN input : FALSE) /\ (\A i \in DOMAIN heard : FALSE)
  BY <1>1
<1>4. Queueing /\ SentInside
  BY <1>1, <1>3 DEF Queueing, SentInside
<1>5. Wordless
  BY <1>1 DEF Wordless
<1>6. Texts
  BY <1>1, <1>3, <1>5 DEF Texts
<1>7. Unfocused /\ ~Focused /\ ~Gaining /\ ~Gained /\ ~Losing /\ ~Lost
  BY <1>1 DEF Unfocused, Focused, Gaining, Gained, Losing, Lost
<1>8. FocusTold
  BY <1>1, <1>7 DEF FocusTold
<1>9. Leading /\ Paired
  BY <1>1, <1>3 DEF Leading, Paired
<1>10. Apiece
  BY <1>1, <1>3, <1>7 DEF Apiece
<1>11. Truthful
  <2>1. \A k : ~Spoken(pending, k)
    BY <1>3 DEF Spoken
  <2>2. \A k : ~Outlook(k)
    BY <1>1, <2>1 DEF Outlook, Underway, Spelling
  <2> QED BY <1>1, <1>7, <2>2 DEF Truthful
<1> QED BY <1>2, <1>4, <1>6, <1>8, <1>9, <1>10, <1>11 DEF KeyInv

\* The invariant implies the four properties.
LEMMA KeysTell ==
  ASSUME Typable, KeyInv
  PROVE  Keyboard!KeysAgree /\ Keyboard!ModifiersAgree /\ Keyboard!TextWhole /\ Keyboard!Ordered
<1>0. KeysTyped /\ Queueing /\ SentInside /\ Texts /\ FocusTold /\ Leading /\ Paired /\ Apiece /\ Truthful
  BY DEF KeyInv
<1>1. ASSUME Keyboard!Quiet
      PROVE  /\ nested = <<>> /\ posted = <<>> /\ input = <<>> /\ sent = <<>> /\ pending = <<>>
             /\ event_info = None
             /\ \A k \in Pressable : Outlook(k) <=> k \in app_down
  <2>1. nested = <<>> /\ posted = <<>> /\ input = <<>> /\ sent = <<>>
    BY <1>1 DEF Keyboard!Quiet
  <2>2. pending = <<>> /\ event_info = None
    BY <1>0, <2>1, Stages DEF Queueing
  <2>3. \A k : ~Spoken(pending, k)
    BY <2>2 DEF Spoken
  <2> QED BY <2>1, <2>2, <2>3 DEF Outlook, Underway, Spelling
<1>2. ASSUME Keyboard!Quiet, ~foreground
      PROVE  Unfocused /\ app_down \cap Pressable = {} /\ modifiers_state = {}
  <2>1. Unfocused
    BY <1>0, <1>1, <1>2, FocusIs DEF Focused
  <2> QED BY <1>0, <1>1, <1>2, <2>1 DEF Truthful, FocusTold, Unfocused
<1>3. ASSUME Keyboard!Quiet, foreground
      PROVE  /\ app_down \cap Pressable = down
             /\ modifiers_state = Keyboard!AgnosticMods(down)
  <2>1. Focused
    BY <1>0, <1>1, <1>3, FocusIs DEF Unfocused
  <2>2. ASSUME NEW k \in Pressable PROVE k \in kbd_state <=> k \in Keyboard!Async
    <3>1. DownAt(kbd_state, input, 0, k) <=> k \in kbd_state
      BY DownAtFirst
    <3>2. Len(input) = 0
      BY <1>1, <1>3
    <3> QED BY <1>0, <1>3, <2>1, <2>2, <3>1, <3>2 DEF Leading
  <2>3. /\ Keyboard!Ctrl \notin AltGrs /\ AltGrs \subseteq Pressable /\ Keyboard!Ctrl \in Pressable
        /\ AltGrs = Keyboard!KeysOf("altgr") /\ down \subseteq Pressable
    BY <1>0, KeyFacts DEF AltGrs, KeysTyped
  <2>4. \A k \in Pressable : k \in kbd_state <=> k \in down \/ (k = Keyboard!Ctrl /\ down \cap AltGrs # {})
    BY <2>2, <2>3 DEF Keyboard!Async
  <2>5. kbd_state \cap AltGrs = down \cap AltGrs
    BY <2>3, <2>4
  <2>6. down \cap AltGrs # {} => Keyboard!Ctrl \notin down
    BY <1>0 DEF Apiece
  <2>7. Beside <=> down \cap AltGrs # {}
    BY <1>1, <1>3, <2>5 DEF Beside
  <2>8. \A k \in Pressable : Meant(k) <=> k \in down
    BY <2>4, <2>6, <2>7 DEF Meant
  <2>9. app_down \cap Pressable = down
    BY <1>0, <1>1, <1>3, <2>1, <2>3, <2>8 DEF Truthful
  <2>10. modifiers_state = Keyboard!AgnosticMods(down)
    <3>1. modifiers_state = Keyboard!AgnosticMods(kbd_state)
      BY <1>0, <2>1 DEF FocusTold, Focused
    <3>2. down \cap AltGrs = {} => (Keyboard!Ctrl \in kbd_state <=> Keyboard!Ctrl \in down)
      BY <2>3, <2>4
    <3>3. Keyboard!AgnosticMods(kbd_state) = Keyboard!AgnosticMods(down)
      BY <2>3, <2>5, <3>2 DEF Keyboard!AgnosticMods
    <3> QED BY <3>1, <3>3
  <2> QED BY <2>9, <2>10
<1>4. Keyboard!KeysAgree
  <2>1. app_down \ Keyboard!KeysOf("sent") = app_down \cap Pressable
    BY <1>0, KeyFacts DEF SentKeys, KeysTyped
  <2> QED BY <1>2, <1>3, <2>1 DEF Keyboard!KeysAgree
<1>5. Keyboard!ModifiersAgree
  BY <1>0, <1>2, <1>3 DEF Keyboard!ModifiersAgree, FocusTold
<1>6. Keyboard!TextWhole
  BY <1>0, <1>1 DEF Keyboard!TextWhole, Texts, WholeText, Units
<1>7. Keyboard!Ordered
  BY <1>0 DEF Keyboard!Ordered, Queueing
<1> QED BY <1>4, <1>5, <1>6, <1>7

\* What the theorem is from: the invariant, and that other parts leave it alone.
KeysSound == part = "keys" => KeyInv

\* Nothing happens.
LEMMA KeysRest ==
  ASSUME KeyInv, UNCHANGED <<typing, nested, posted, panicked, env>>
  PROVE  KeyInv'
<1>1. /\ event_info' = event_info /\ pending' = pending /\ next_id' = next_id /\ is_active' = is_active
      /\ is_focused' = is_focused /\ modifiers_state' = modifiers_state /\ kbd_state' = kbd_state
      /\ input' = input /\ sent' = sent /\ foreground' = foreground /\ down' = down
      /\ app_down' = app_down /\ app_modifiers' = app_modifiers /\ heard' = heard
      /\ nested' = nested /\ posted' = posted /\ panicked' = panicked /\ env' = env
  BY DEF typing
<1>2. KeysTyped' /\ Queueing' /\ SentInside'
  BY <1>1 DEF KeyInv, KeysTyped, Queueing, SentInside, Outermost
<1>3. /\ FocusTold' /\ Leading' /\ Paired' /\ Apiece'
      /\ Focused' <=> Focused
      /\ Gaining' <=> Gaining
      /\ Gained' <=> Gained
      /\ Losing' <=> Losing
      /\ Lost' <=> Lost
      /\ Unfocused' <=> Unfocused
      /\ \A q : Meant(q)' <=> Meant(q)
  BY <1>1, OthersSame
<1>4. Texts'
  BY <1>1, StageSame DEF KeyInv, Texts
<1>5. Truthful'
  <2>1. NextIsAltGr' <=> NextIsAltGr
    BY <1>1 DEF NextIsAltGr
  <2>2. \A q : (Outlook(q)' <=> Outlook(q)) /\ (Spoken(pending, q)' <=> Spoken(pending, q))
    BY <1>1, <2>1, OutlookSame
  <2> QED BY <1>1, <1>3, <2>2, StageSame, TruthKept
<1> QED BY <1>2, <1>3, <1>4, <1>5 DEF KeyInv

\* At first and after every step of the composition.
LEMMA KeysSoundKept ==
  ASSUME Typable
  PROVE  /\ InputInit => KeysSound
         /\ KeysSound /\ [InputNext]_<<part, dragging, anchoring, typing, shared>> => KeysSound'
<1>1. ASSUME InputInit PROVE KeysSound
  BY <1>1, KeysStart DEF InputInit, KeysSound
<1>2. ASSUME KeysSound, [InputNext]_<<part, dragging, anchoring, typing, shared>> PROVE KeysSound'
  <2>1. CASE part' = "keys"
    <3>1. part = "keys" /\ KeyInv
      BY <1>2, <2>1 DEF InputNext, KeysSound
    <3>2. CASE InputNext
      BY <3>1, <3>2, KeySteps DEF InputNext, KeysSound
    <3>3. CASE UNCHANGED <<part, dragging, anchoring, typing, shared>>
      BY <3>1, <3>3, KeysRest DEF shared, KeysSound
    <3> QED BY <1>2, <3>2, <3>3
  <2>2. CASE part' # "keys"
    BY <2>2 DEF KeysSound
  <2> QED BY <2>1, <2>2
<1> QED BY <1>1, <1>2

\* Whatever is struck, sent and processed, the state of the keyboard input keeps its types.
THEOREM KeyTypeCorrectness == ASSUME Typable PROVE InputSpec => [](part = "keys" => Keyboard!TypeOK)
<1>1. InputInit => KeysSound
  BY KeysSoundKept
<1>2. KeysSound /\ [InputNext]_<<part, dragging, anchoring, typing, shared>> => KeysSound'
  BY KeysSoundKept
<1>3. KeysSound => (part = "keys" => Keyboard!TypeOK)
  <2> SUFFICES ASSUME KeyInv PROVE Keyboard!TypeOK
    BY DEF KeysSound
  <2>1. KeysTyped
    BY DEF KeyInv
  <2>2. event_info # None => event_info.key \in Keyboard!Keys
    BY <2>1 DEF KeysTyped, Infos
  <2>3. kbd_state \subseteq Keyboard!Keys /\ down \subseteq Keyboard!Keys /\ app_down \subseteq Keyboard!Keys
    BY <2>1, KeyFacts DEF KeysTyped
  <2>4. \A i \in DOMAIN nested : nested[i] \in KeyFrames
    BY <2>1 DEF KeysTyped
  <2> QED BY <2>2, <2>3, <2>4 DEF Keyboard!TypeOK, KeyFrames
<1> QED BY <1>1, <1>2, <1>3, PTL DEF InputSpec

\* Whatever the order in which keys are struck, sent and processed and the focus moves, a
\* window with nothing left to process has told of the keys that are held and their
\* modifiers, each press with all of its text, and the events came in order (keyboard.rs:732).
THEOREM KeysAreTold == ASSUME Typable PROVE InputSpec => []KeysTold
<1>1. InputInit => KeysSound
  BY KeysSoundKept
<1>2. KeysSound /\ [InputNext]_<<part, dragging, anchoring, typing, shared>> => KeysSound'
  BY KeysSoundKept
<1>3. KeysSound => KeysTold
  BY KeysTell DEF KeysSound, KeysTold
<1> QED BY <1>1, <1>2, <1>3, PTL DEF InputSpec
====

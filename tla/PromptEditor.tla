----------------------------- MODULE PromptEditor -----------------------------
(***************************************************************************)
(* The editor of the prompt, which two extensions change beside the user:  *)
(* draft-toggle parks its text in the session, and image-clipboard stands   *)
(* a numbered placeholder in it for each file that is pasted, to attach the *)
(* files to the message when it is submitted.                              *)
(***************************************************************************)
EXTENDS Naturals, Sequences, FiniteSets, SequencesExt

CONSTANTS
  Files,       \* image files; the user pastes each once
  MaxTexts,    \* bound: texts the user types
  MaxSending,  \* bound: messages submitted and not yet announced
  MaxFailures  \* bound: entries that cannot be appended

Nothing == 0 \* no text

VARIABLES
  text,     \* what the user typed, without the placeholders
  images,   \* the placeholders in the text: a number and the file it was given to
  parked,   \* draft of draft-toggle
  stored,   \* the draft that the branch tells
  aside,    \* the draft that another leaf of the session tree tells
  pending, nextNumber, \* ClipboardImageDraft, whose pending files have distinct numbers
  sending,  \* messages on their way to Pi
  pasted,   \* placeholders that were given to files
  wiped,    \* files in the editor that were detached: with another placeholder or
            \* message, or before their placeholder was brought back
  wanted,   \* texts the user has not replaced and Pi has not been given
  refused,  \* texts of messages that were dropped, for a file could not be read
  texts, failures

vars == <<text, images, parked, stored, aside, pending, nextNumber, sending, pasted,
          wiped, wanted, refused, texts, failures>>

Text == 0 .. MaxTexts
Placeholder == [number : Nat, file : Files]
Message == [text : Text, images : SUBSET Placeholder, step : {"submitted", "reading"},
            attached : SUBSET Files, cut : BOOLEAN]

FilesIn(placeholders) == {p.file : p \in placeholders}
Numbers(placeholders) == {p.number : p \in placeholders}

Init ==
  /\ text = Nothing /\ images = {} /\ parked = Nothing /\ stored = Nothing
  /\ aside = Nothing /\ pending = {} /\ nextNumber = 1 /\ sending = <<>>
  /\ pasted = {} /\ wiped = {} /\ wanted = {} /\ refused = {}
  /\ texts = 0 /\ failures = 0

(* Messages whose files are still to be read lose those not in files. *)
Cut(messages, files) ==
  [i \in DOMAIN messages |->
     [messages[i] EXCEPT !.cut = @ \/ (messages[i].step = "submitted"
                                       /\ ~(FilesIn(messages[i].images) \subseteq files))]]

Detached(kept) ==
  /\ pending' = kept
  /\ sending' = Cut(sending, FilesIn(kept))

(* reconcile: the files whose placeholders the text lacks are detached. *)
Reconcile(placeholders) ==
  Detached({p \in pending : p.number \in Numbers(placeholders)})

(* detach *)
Without(number) == {p \in pending : p.number # number}

Forget(placeholders) == wiped' = wiped \cap FilesIn(placeholders)

------------------------------------------------------------------------------
Type ==
  /\ texts < MaxTexts /\ texts' = texts + 1
  /\ text' = texts' /\ wanted' = (wanted \ {text}) \cup {texts'}
  /\ Reconcile(images)
  /\ UNCHANGED <<images, parked, stored, aside, nextNumber, pasted, wiped, refused,
                 failures>>

(* capture *)
Capture(file) ==
  LET placeholder == [number |-> nextNumber, file |-> file] IN
  /\ images' = images \cup {placeholder} /\ pending' = pending \cup {placeholder}
  /\ nextNumber' = nextNumber + 1

Paste(file) ==
  /\ file \notin FilesIn(pasted) /\ Capture(file)
  /\ pasted' = pasted \cup (images' \ images)
  /\ UNCHANGED <<text, parked, stored, aside, sending, wiped, wanted, refused, texts,
                 failures>>

(* A placeholder is deleted letter by letter or with one key, which detaches *)
(* its number also where another placeholder has the same.                  *)
Delete(placeholder) ==
  LET rest == images \ {placeholder}
      same == {p \in rest : p.number = placeholder.number}
  IN /\ images' = rest
     /\ \/ Reconcile(rest) /\ Forget(rest)
        \/ /\ Detached(Without(placeholder.number))
           /\ wiped' = (wiped \cap FilesIn(rest)) \cup FilesIn(same)
     /\ UNCHANGED <<text, parked, stored, aside, nextNumber, pasted, wanted, refused,
                    texts, failures>>

(* showImages: an attachment is removed, and its placeholders in the text.    *)
RemoveInPanel(attachment) ==
  LET rest == {p \in images : p.number # attachment.number} IN
  /\ images' = rest /\ Forget(rest)
  /\ Detached({p \in Without(attachment.number) : p.number \in Numbers(rest)})
  /\ UNCHANGED <<text, parked, stored, aside, nextNumber, pasted, wanted, refused, texts,
                 failures>>

(* Undo, a yank, the history of prompts or the user's own typing bring a      *)
(* placeholder back: as text, a file that was detached stays so.             *)
Restore(placeholder) ==
  /\ placeholder \notin images /\ images' = images \cup {placeholder}
  /\ Reconcile(images')
  /\ wiped' = IF placeholder \in pending THEN wiped ELSE wiped \cup {placeholder.file}
  /\ UNCHANGED <<text, parked, stored, aside, nextNumber, pasted, wanted, refused, texts,
                 failures>>

------------------------------------------------------------------------------
(* "Clipboard attachments belong to the live editor, not persisted drafts." *)
MayPark == images = {}

(* ctrl+shift+s: the draft and the text change places, once the branch tells *)
(* of it.                                                                  *)
Toggle ==
  /\ MayPark /\ (text # Nothing \/ parked # Nothing)
  /\ \/ /\ stored' = text /\ parked' = text /\ text' = parked
        /\ Reconcile({}) /\ UNCHANGED failures
     \/ /\ failures < MaxFailures /\ failures' = failures + 1
        /\ UNCHANGED <<stored, parked, text, pending, sending>>
  /\ UNCHANGED <<images, aside, nextNumber, pasted, wiped, wanted, refused, texts>>

(* session_tree *)
Tree ==
  /\ stored' = aside /\ aside' = stored /\ parked' = aside
  /\ UNCHANGED <<text, images, pending, nextNumber, sending, pasted, wiped, wanted,
                 refused, texts, failures>>

(* Mutant: only the numbers start again. *)
ResetNumber(rest) ==
  /\ nextNumber' = 1 /\ sending' = rest /\ UNCHANGED <<pending, wiped>>

(* reset *)
Reset(rest) ==
  /\ pending' = {} /\ nextNumber' = 1 /\ sending' = Cut(rest, {})
  /\ wiped' = FilesIn(images)

(* A reload leaves the text in the editor and starts the extensions anew. *)
Reload ==
  /\ sending = <<>> /\ images # {}
  /\ Reset(<<>>) /\ parked' = stored
  /\ UNCHANGED <<text, images, stored, aside, pasted, wanted, refused, texts, failures>>

------------------------------------------------------------------------------
(* The editor clears itself, and keeps the files for the message. *)
Submit ==
  /\ (text # Nothing \/ images # {}) /\ Len(sending) < MaxSending
  /\ sending' = Append(sending, [text |-> text, images |-> images, step |-> "submitted",
                                 attached |-> {}, cut |-> wiped # {}])
  /\ text' = Nothing /\ images' = {} /\ wiped' = {}
  /\ UNCHANGED <<parked, stored, aside, pending, nextNumber, pasted, wanted, refused,
                 texts, failures>>

(* input: attachmentsFor selects the files and begins to read them. *)
Input(i) ==
  /\ sending[i].step = "submitted"
  /\ sending' = [sending EXCEPT ![i].step = "reading", ![i].attached =
       FilesIn({p \in pending : p.number \in Numbers(sending[i].images)})]
  /\ UNCHANGED <<text, images, parked, stored, aside, pending, nextNumber, pasted,
                 wiped, wanted, refused, texts, failures>>

(* Pi is given the message, or it is dropped, for a file cannot be read.      *)
Read(i) ==
  /\ sending[i].step = "reading" /\ Reset(RemoveAt(sending, i))
  /\ \/ wanted' = wanted \ {sending[i].text} /\ UNCHANGED refused
     \/ /\ sending[i].attached # {}
        /\ refused' = refused \cup {sending[i].text} /\ UNCHANGED wanted
  /\ UNCHANGED <<text, images, parked, stored, aside, pasted, texts, failures>>

Next ==
  \/ Type \/ \E f \in Files : Paste(f)
  \/ (\E p \in images : Delete(p)) \/ (\E p \in pending : RemoveInPanel(p))
  \/ (\E p \in pasted : Restore(p))
  \/ Toggle \/ Tree \/ Reload \/ Submit
  \/ \E i \in 1 .. Len(sending) : Input(i) \/ Read(i)

Spec == Init /\ [][Next]_vars

------------------------------------------------------------------------------
TypeOK ==
  /\ {text, parked, stored, aside, texts} \subseteq Text
  /\ images \subseteq Placeholder /\ pending \subseteq Placeholder /\ nextNumber \in Nat
  /\ sending \in Seq(Message) /\ pasted \subseteq Placeholder /\ wiped \subseteq Files
  /\ wanted \subseteq Text /\ refused \subseteq Text /\ failures \in 0 .. MaxFailures

(* A message is sent with the files whose placeholders stood in it, after any *)
(* pasting, deleting and parking, unless a file in the editor was detached   *)
(* when the message before it was sent, with another placeholder of its      *)
(* number, or by a key pressed before Pi announced the message, or had been  *)
(* detached when its placeholder was brought back (image-clipboard/state.ts,  *)
(* 34-75).                                                                 *)
ImagesAsShown ==
  \A i \in 1 .. Len(sending) :
    sending[i].step = "reading" /\ ~sending[i].cut
    => sending[i].attached = FilesIn(sending[i].images)

(* What the user typed and did not replace is in the editor, parked on a leaf *)
(* ("a storage failure must not clear the editor", draft-toggle/index.ts,    *)
(* 53) or on its way, until Pi is given it or it is refused with a file that *)
(* cannot be read (image-clipboard/index.ts, 189-192).                      *)
NoTextLost ==
  wanted \subseteq {Nothing, text, stored, aside} \cup refused
                  \cup {sending[i].text : i \in 1 .. Len(sending)}

(* What the user put into the prompt is still there, or Pi is given it, with   *)
(* the files it shows; the exceptions are named above.                      *)
PromptKept == ImagesAsShown /\ NoTextLost
=============================================================================

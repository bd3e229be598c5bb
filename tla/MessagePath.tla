---------------------------- MODULE MessagePath ----------------------------
(***************************************************************************)
(* What becomes of one message on its way from the socket to the screen:   *)
(* the filter (packages/worker/src/ingest/filter.ts), the normaliser       *)
(* (normalize.ts), the shape the API gives it (packages/api/src/routes/    *)
(* messages.ts) and its bubble (packages/web/src/components/               *)
(* MessageBubble.tsx).  Pure functions, by the keys a message has; when a  *)
(* message is stored, announced and its media asked for is in Ingest.      *)
(*                                                                         *)
(* A message is a record of its key and its layers: layers[1] is the set   *)
(* of keys of raw.message, and if a layer has an envelope the next layer   *)
(* is the message inside; without one it is the last.  JSON, by which the  *)
(* message reaches the consumer, keeps all of this.  raw.text says whether  *)
(* the text, caption, name or emoji of the last layer's body is non-empty.  *)
(***************************************************************************)
EXTENDS Ingest

CONSTANT Raws \* the messages considered

\* SYSTEM_ONLY_KEYS.
SystemOnlyKeys == {"protocolMessage", "senderKeyDistributionMessage", "messageContextInfo"}

\* wrapperKeys.
WrapperKeys ==
    {"deviceSentMessage", "ephemeralMessage", "viewOnceMessage", "viewOnceMessageV2",
     "viewOnceMessageV2Extension"}

\* The keys extractBody knows, in the order it looks for them.
BodyKeys ==
    <<"conversation", "extendedTextMessage", "imageMessage", "videoMessage", "audioMessage",
      "documentMessage", "stickerMessage", "locationMessage", "contactMessage",
      "reactionMessage">>

Kinds ==
    <<"text", "text", "image", "video", "audio", "document", "sticker", "location",
      "contact", "reaction">>

\* Kinds that get a mediaMeta.
MediaKinds == {"image", "video", "audio", "document", "sticker"}

BodyKeySet == {BodyKeys[i] : i \in DOMAIN BodyKeys}

-----------------------------------------------------------------------------
(* The worker.                                                             *)

\* shouldIngest.
shouldIngest(raw) ==
    /\ raw.layers # <<>> /\ raw.layers[1] # {}
    /\ raw.chat # "broadcast"
    /\ ~raw.stub
    /\ raw.layers[1] \ SystemOnlyKeys # {}

\* unwrapEnvelope: the layer has an envelope with a message inside.
Unwraps(raw, i) == raw.layers[i] \cap WrapperKeys # {} /\ i < Len(raw.layers)

\* Mutant of Innermost: unwraps once.
InnermostOnce(raw) ==
    raw.layers[IF Unwraps(raw, 1) THEN 2 ELSE 1]

\* Where the recursion of extractBody ends.
Innermost(raw) ==
    raw.layers[CHOOSE i \in DOMAIN raw.layers :
                   ~Unwraps(raw, i) /\ \A j \in 1..(i - 1) : Unwraps(raw, j)]

\* extractBody: the first key it knows, or "unknown".
BodyKind(layer) ==
    IF layer \cap BodyKeySet = {} THEN "unknown"
    ELSE Kinds[CHOOSE i \in DOMAIN BodyKeys :
                   BodyKeys[i] \in layer /\ \A j \in 1..(i - 1) : BodyKeys[j] \notin layer]

\* normalize throws without a chat or an id.
Normal(raw) == raw.chat # "none" /\ raw.id

\* normalize: what is stored of a message; the worker asks for its media by the kind.
normalize(raw) ==
    [direction |-> IF raw.fromMe THEN "out" ELSE "in",
     from |-> IF raw.chat = "group"
              THEN IF raw.participant THEN "participant" ELSE "chat"
              ELSE IF raw.fromMe THEN "self" ELSE "chat",
     kind |-> BodyKind(Innermost(raw)),
     text |-> raw.text]

WantsMedia(raw) == normalize(raw).kind \in MediaKinds

\* A layer is a set of keys.
ASSUME LayerAssumption ==
    \A raw \in Raws \cup Msgs : raw.layers \in Seq(SUBSET STRING) /\ raw.text \in BOOLEAN

\* The messages of Ingest have passed the filter, and its sets are those of the
\* normaliser; encryption may reject others.
ASSUME PathAssumption ==
    /\ \A m \in Msgs : shouldIngest(m) /\ (Normal(m) \/ m \in Bad)
    /\ Media = {m \in Msgs : Normal(m) /\ WantsMedia(m)}

-----------------------------------------------------------------------------
(* The API and the page.                                                   *)

\* shapeMessage: a body that cannot be decrypted becomes null.
shapeMessage(stored, readable) ==
    [direction |-> stored.direction,
     from |-> stored.from,
     kind |-> IF readable THEN stored.kind ELSE "null",
     text |-> stored.text]

\* MediaBubble: what a tap opens.
MediaBubble(kind) == IF kind \in {"image", "video", "audio"} THEN kind ELSE "download"

\* Mutant of MessageBubble: a sticker falls through.
MessageBubbleSticker(msg) ==
    [side |-> IF msg.direction = "out" THEN "right" ELSE "left",
     label |-> IF msg.direction = "in" THEN msg.from ELSE "none",
     shows |-> CASE msg.kind = "text" -> IF msg.text THEN "text" ELSE "blank"
                 [] msg.kind \in {"location", "contact"} -> "text"
                 [] msg.kind = "reaction" -> IF msg.text THEN "text" ELSE "dash"
                 [] msg.kind \in {"unknown", "sticker"} -> "dash"
                 [] msg.kind = "null" -> "crash"
                 [] OTHER -> MediaBubble(msg.kind)]

\* MessageBubble: it reads properties of the body before anything else.  A location
\* and a contact are named as such even without a text.
MessageBubble(msg) ==
    [side |-> IF msg.direction = "out" THEN "right" ELSE "left",
     label |-> IF msg.direction = "in" THEN msg.from ELSE "none",
     shows |-> CASE msg.kind = "text" -> IF msg.text THEN "text" ELSE "blank"
                 [] msg.kind \in {"location", "contact"} -> "text"
                 [] msg.kind = "reaction" -> IF msg.text THEN "text" ELSE "dash"
                 [] msg.kind = "unknown" -> "dash"
                 [] msg.kind = "null" -> "crash"
                 [] OTHER -> MediaBubble(msg.kind)]

\* From the socket to the screen, with a key that fits.
Screen(raw) == MessageBubble(shapeMessage(normalize(raw), TRUE))

-----------------------------------------------------------------------------
(* Properties.                                                             *)

\* Bodies that are nothing but their text.
TextKeys == {"conversation", "extendedTextMessage", "reactionMessage"}

\* Messages of a chat with content that the normaliser knows, in however many of the
\* envelopes it knows, and with whatever plumbing beside them.  A reaction that was
\* taken back and a text without a character have none.
WithContent ==
    {raw \in Raws \cup Msgs :
        /\ raw.chat \in {"dm", "group"} /\ raw.id /\ ~raw.stub /\ raw.layers # <<>>
        /\ \A i \in DOMAIN raw.layers :
               i < Len(raw.layers) => raw.layers[i] \cap WrapperKeys # {}
        /\ LET body == raw.layers[Len(raw.layers)] IN
           /\ body \cap BodyKeySet # {}
           /\ body \cap TextKeys # {} => raw.text}

Opened   == {"image", "video", "audio", "download"}
Readable == {raw \in WithContent : Screen(raw).shows \in {"text"} \cup Opened}
Accepted == {raw \in Raws \cup Msgs : shouldIngest(raw) /\ Normal(raw)}
Fetched  == {raw \in Accepted : WantsMedia(raw)}
Offered  == {raw \in Accepted : Screen(raw).shows \in Opened}

EveryMessageReadable == WithContent \subseteq Accepted \cap Readable
FetchedAsOffered     == Fetched = Offered

\* What somebody wrote or sent is seen.  It passes the filter, which looks at the
\* outermost layer only, never shows as the dash of an unknown message, and once its
\* entry is acknowledged it has its row, unless it was given up on.
ContentArrives ==
    /\ EveryMessageReadable
    /\ \A e \in acked \ dlq : stream[e] \in WithContent => stream[e] \in rows \cap Readable

\* The worker fetches the media of exactly those messages that the page offers to
\* open, and has asked for it when the page hears of the message, unless ingest had
\* been stopped when the row was created.
MediaAgrees ==
    /\ FetchedAsOffered
    /\ \A m \in Msgs :
           /\ enqueued[m] > 0 => m \in Offered
           /\ notified[m] > 0 /\ m \in Offered => enqueued[m] > 0 \/ m \in unwired
=============================================================================

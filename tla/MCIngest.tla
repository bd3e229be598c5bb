------------------------------- MODULE MCIngest -------------------------------
(* Ingest for TLC, with messages of MessagePath: a disappearing photo sent  *)
(* from the user's own phone, and a message that can never be processed.    *)
(* Each may arrive again.                                                   *)
EXTENDS MessagePath

Raw(chat, stub, text, layers) ==
    [chat |-> chat, stub |-> stub, id |-> TRUE, fromMe |-> Len(layers) > 1,
     participant |-> TRUE, text |-> text, layers |-> layers]

Photo  == Raw("group", FALSE, FALSE,
              <<{"deviceSentMessage", "messageContextInfo"}, {"ephemeralMessage"},
                {"imageMessage"}>>)
Broken == Raw("none", FALSE, TRUE, <<{"conversation"}>>)

MCMsgs  == {m \in {Photo, Broken} : shouldIngest(m)}
MCMedia == {m \in MCMsgs : Normal(m) /\ WantsMedia(m)}
MCBad   == {m \in MCMsgs : ~Normal(m)}

\* Every body, with a text and without, alone and in up to two envelopes, one of
\* them unknown to the normaliser, with and without plumbing.
WithContext(keys) == {{k} \cup x : k \in keys, x \in {{}, {"messageContextInfo"}}}
Envelopes == WithContext(WrapperKeys \cup {"documentWithCaptionMessage"})
Cores == WithContext(BodyKeySet \cup {"protocolMessage", "pollCreationMessage"})
MCRaws ==
    {Raw(chat, stub, text, layers) :
        chat \in {"dm", "group", "broadcast"}, stub \in BOOLEAN, text \in BOOLEAN,
        layers \in {<<c>> : c \in Cores}
                   \cup {<<e, c>> : e \in Envelopes, c \in Cores}
                   \cup {<<e, f, c>> : e \in Envelopes, f \in Envelopes, c \in Cores}}
=============================================================================

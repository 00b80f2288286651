------------------------------ MODULE Content ------------------------------
(***************************************************************************)
(* Clipboard contents, how they are hashed for loop protection, how they   *)
(* travel on the wire, and what the Linux backends make of them.           *)
(*                                                                         *)
(* A payload is a member of Bodies.  The clipboard of the desktop holds an *)
(* offer: the MIME types its owner advertises, in order, and the payload.  *)
(* FNV-1a is modelled as injective, so a hash is the tuple of fields fed   *)
(* into it.                                                                *)
(***************************************************************************)
EXTENDS Naturals, Sequences, Functions

CONSTANTS
    Bodies,        \* payloads of copied texts and images
    EmptyBody,     \* the empty payload
    ImageMimes     \* the MIME types that start with "image/"

\* consts.DefaultImageMime; the text type tools advertise; an absent type.
DefaultImageMime == "image/png"
TextMime == "text/plain"
NoMime == ""

ASSUME ContentAssumption ==
    /\ EmptyBody \notin Bodies
    /\ DefaultImageMime \in ImageMimes
    /\ NoMime \notin ImageMimes
    /\ TextMime \notin ImageMimes

Backends == {"wayland", "xclip", "xsel"}

----------------------------------------------------------------------------
(* clip.Content and its hash *)

Text(b) == [kind |-> "text", body |-> b, mime |-> NoMime]
Image(b, m) == [kind |-> "image", body |-> b, mime |-> m]

\* What a read returns whose every tool failed: the empty text.
Blank == Text(EmptyBody)

\* The hash of a content (hashContent in clip and ContentKey in protocol are
\* the same function), and the zero value that stands for "no hash yet".
Hash(tag, b, m) == [tag |-> tag, body |-> b, mime |-> m]
hashContent(c) ==
    IF c.kind = "image" THEN Hash("image", c.body, c.mime)
                        ELSE Hash("text", c.body, NoMime)
NoHash == Hash("none", EmptyBody, NoMime)

----------------------------------------------------------------------------
(* The wire: protocol.ContentMsg and protocol.MsgToContent.  A base64 text *)
(* is the pair of a tag and the bytes it encodes; a text that is not       *)
(* base64 has another tag.                                                 *)

Base64(b) == [enc |-> "base64", of |-> b]
Plain(b) == [enc |-> "plain", of |-> b]

\* withMime gives an image without a type the default one.
withMime(m) == IF m = NoMime THEN DefaultImageMime ELSE m

ContentMsg(c) ==
    IF c.kind = "image"
    THEN [type |-> "image", payload |-> Base64(c.body), mime |-> withMime(c.mime)]
    ELSE [type |-> "text", payload |-> Plain(c.body), mime |-> NoMime]

\* MsgToContent accepts a message when it carries a payload it can decode.
Decodable(m) ==
    /\ m.payload.of # EmptyBody
    /\ m.type = "image" => m.payload.enc = "base64"
MsgToContent(m) ==
    IF m.type = "image" THEN Image(m.payload.of, withMime(m.mime))
                        ELSE Text(m.payload.of)

----------------------------------------------------------------------------
(* The Linux clipboard: linuxClip over one of three tool backends *)

Offer(ts, b) == [types |-> ts, body |-> b]

\* The default image type wins, then the first image type offered.
chooseImageType(types) ==
    LET images == {i \in DOMAIN types : types[i] \in ImageMimes}
    IN  IF DefaultImageMime \in Range(types) THEN DefaultImageMime
        ELSE IF images = {} THEN NoMime
        ELSE types[CHOOSE i \in images : \A j \in images : i <= j]

\* The image type the tools list; xsel is never asked.
Listed(backend, offer) ==
    IF backend = "xsel" THEN NoMime ELSE chooseImageType(offer.types)

\* readText, when one of its tools succeeds.  An offer without a text type
\* makes xclip and xsel fail, which gives the empty text, while wl-paste may
\* print the payload.
TextRead(backend, offer) ==
    IF TextMime \in Range(offer.types) THEN {Text(offer.body)}
    ELSE IF backend = "wayland" THEN {Blank, Text(offer.body)}
    ELSE {Blank}

\* What the tools then fetch when they succeed: the image, if its type is
\* still on offer, else the text.
Fetch(backend, mime, offer) ==
    IF mime # NoMime /\ mime \in Range(offer.types) THEN {Image(offer.body, mime)}
                                                    ELSE TextRead(backend, offer)

\* What they fetch when they do not: a tool that cannot list the types or
\* fetch the image, or fetches no bytes, leaves its place to the text, and
\* text tools that fail leave the empty text.
Misread(backend, offer) == TextRead(backend, offer) \cup {Blank}

\* What linuxClip.Read returns of a clipboard nobody takes meanwhile, when no
\* tool fails.
Read(backend, offer) == Fetch(backend, Listed(backend, offer), offer)

\* xsel refuses images; every other write can succeed.
CanWrite(backend, c) == backend # "xsel" \/ c.kind # "image"

\* Fault: an image is written without its type.
WrittenAsText(c) == Offer(<<TextMime>>, c.body)

\* What a successful linuxClip.Write leaves on the clipboard.
Written(c) ==
    IF c.kind = "image" THEN Offer(<<withMime(c.mime)>>, c.body)
                        ELSE Offer(<<TextMime>>, c.body)
=============================================================================

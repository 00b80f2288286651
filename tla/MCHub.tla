------------------------------- MODULE MCHub -------------------------------
(* Small instances of Hub for TLC. *)
EXTENDS Hub

CONSTANTS a, b, c1, c2, q

Mimes == {DefaultImageMime}
TextMsg(x) == ContentMsg(Text(x))
ImageMsg(x) == ContentMsg(Image(x, DefaultImageMime))
NotBase64 == [type |-> "image", payload |-> Plain(a), mime |-> DefaultImageMime]

TextA == {Text(a)}
PictureB == {Image(b, DefaultImageMime)}

MessagesMixed == {TextMsg(a), ImageMsg(b), NotBase64}
=============================================================================

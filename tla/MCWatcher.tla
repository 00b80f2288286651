----------------------------- MODULE MCWatcher -----------------------------
(* Small instances of Watcher for TLC. *)
EXTENDS Watcher

CONSTANTS a, b

\* Texts and one image, with the offers that carry them.
MCCopies == {Offer(<<TextMime>>, a), Offer(<<TextMime, "image/gif", DefaultImageMime>>, b)}
MCRemote == {Text(a), Image(b, DefaultImageMime)}

TextCopies == {Offer(<<TextMime>>, a), Offer(<<TextMime>>, b)}
TextRemote == {Text(a), Text(b)}
PictureRemote == {Image(a, DefaultImageMime)}
MCMimes == {DefaultImageMime, "image/gif"}
=============================================================================

------------------------------- MODULE MCApp -------------------------------
(* A small instance of App for TLC. *)
EXTENDS App

CONSTANTS garbage

Lines == <<"mdns", "watch", "token", "connection.mode", "discovery.mdns", "discovery.beacon">>
Bools == {"true", "false"}
Kept == [s \in Settings |->
    CASE s = "watch" -> {"300", "500"}
      [] s = "token" -> {"", "\\a"}
      [] s = "connection.mode" -> {"discover", "whitelist"}
      [] OTHER -> Bools]
Escaped == {"\\a"}
AllValues == UNION {Kept[s] : s \in Settings} \cup {"5"}
Defaults == [s \in Settings |->
    CASE s = "watch" -> "300" [] s = "token" -> "" [] s = "connection.mode" -> "discover" [] OTHER -> "true"]

\* An old file with both mdns keys, one that turns discovery off, one with
\* only the older one and a token that cannot be quoted, and one that is broken.
OldFile == [Empty EXCEPT !["mdns"] = "false", !["discovery.mdns"] = "true",
                         !["discovery.beacon"] = "false", !["watch"] = "5"]
Whitelisting == [Empty EXCEPT !["connection.mode"] = "whitelist", !["watch"] = "500"]
Unquoted == [Empty EXCEPT !["token"] = "\\a", !["mdns"] = "false"]
Files == {OldFile, Whitelisting, Unquoted, garbage}

\* Once the daemon runs, the command does not, and all the daemon looks at
\* again is what makes it discoverable.
Looked == [s \in {"connection.mode", Mdns, "discovery.beacon"} |-> cfg[s]]
Compared ==
    <<platform, noWatch, ctx, run, hook, watcher, feed, windows, services,
      IF run \in {"off", "new"} THEN <<configVars, cfg>> ELSE Looked>>
=============================================================================

-------------------------------- MODULE Detector --------------------------------
(***************************************************************************)
(* How the daemon guesses whether an upstream has a login of its own       *)
(* (internal/detector/detector.go).  A reply is what the HTTP client       *)
(* returns after following up to five redirects by itself, so a redirect   *)
(* is seen here only when there were more, or when it names no place.      *)
(***************************************************************************)

Statuses == {"ok", "denied", "redirect"}           \* 401 and 403 are "denied"
Places == {"nowhere", "login", "path", "elsewhere"} \* of the Location header
Types == {"html", "json", "other"}
Marks == {"password", "form", "cookie", "token"}

Reply == [status : Statuses, to : Places, type : Types, marks : SUBSET Marks]

\* The request fails, or takes longer than five seconds.
NoReply == [status |-> "none"]

\* An upstream's first reply, and that to one more request for the Location.
Page == [first : Reply, second : Reply \cup {NoReply}]
Closed == [first |-> NoReply, second |-> NoReply]

\* A password field, a form that posts to a login path or a session cookie
\* count in HTML only; a token in JSON only.
ShowsLogin(reply) ==
  \/ reply.type = "html" /\ reply.marks \cap {"password", "form", "cookie"} # {}
  \/ reply.type = "json" /\ "token" \in reply.marks

\* The reply whose body is searched: a path that is not a login is followed
\* once, and the status of what it leads to is not looked at.
Searched(page) ==
  IF page.first.status = "redirect" /\ page.first.to = "path" /\ page.second # NoReply
  THEN page.second
  ELSE page.first

\* Inspect returns a result, and one with HasAuth.
HasAuth(page) ==
  /\ page.first # NoReply
  /\ \/ page.first.status = "denied"
     \/ page.first.status = "redirect" /\ page.first.to = "login"
     \/ ShowsLogin(Searched(page))

RecommendedAuth(page) == IF HasAuth(page) THEN "none" ELSE "tailscale"
=============================================================================

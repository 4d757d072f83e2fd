----------------------------- MODULE MCServices -----------------------------
(***************************************************************************)
(* The services' read-then-write handlers for TLC, side by side: `part`    *)
(* says which module a behaviour is about and never changes, so the state  *)
(* spaces add up and do not multiply.                                      *)
(***************************************************************************)
EXTENDS Promo, Ratings, Chat, UserRecords, Menus, Tracking, Notifications,
        Login, Otp, RefreshTokens, Requests, Fare, Dashboard, AdminPages, TLC

CONSTANTS four, five

VARIABLE part

MCTerms == {[perUser |-> 1, total |-> 2], [perUser |-> 2, total |-> 0]}

Parts == {"promo", "ratings", "rooms", "messages", "addresses", "licenses", "menus",
          "tracking", "notifications", "login", "otp", "tokens", "requests", "fare",
          "dashboard", "pages"}

\* Tables of one module that no handler touches together are parts of their own.
Chats == {"rooms", "messages"}
Records == {"addresses", "licenses"}

Init ==
  /\ part \in Parts
  /\ PromoInit /\ RatingsInit /\ ChatInit /\ UserInit /\ MenusInit /\ TrackingInit
  /\ NotificationsInit /\ LoginInit /\ OtpInit /\ TokensInit /\ RequestsInit
  /\ FareInit /\ DashboardInit /\ PagesInit

\* The tables of the other modules stay as they are.
Only(p) ==
  /\ part = p /\ part' = p
  /\ p # "promo"   => UNCHANGED <<promo, uses>>
  /\ p # "ratings" => UNCHANGED <<rating, aggregate, review>>
  /\ p \notin Chats => UNCHANGED <<room, message, conversations>>
  /\ p \notin Records => UNCHANGED <<address, profile, licensed, document>>
  /\ p # "menus"   => UNCHANGED <<restaurant, category, item>>
  /\ p # "tracking" => UNCHANGED <<active, path, expires, unset>>
  /\ p # "notifications" => UNCHANGED <<queue, inbox, prefs, dead, delivering>>
  /\ p # "login"   => UNCHANGED account
  /\ p # "otp"     => UNCHANGED otp
  /\ p # "tokens"  => UNCHANGED <<token, second>>
  /\ p # "requests" => UNCHANGED <<count, ttl, admitted, cached, runs, lapses>>
  /\ p # "fare"    => UNCHANGED <<online, requested, ride>>
  /\ p # "dashboard" => UNCHANGED <<live, orders, shown>>
  /\ p # "pages"   => UNCHANGED <<route, entry, screen, dialog, submitting, told, overlapped>>

Next ==
  \/ Only("promo") /\ PromoNext
  \/ Only("ratings") /\ RatingsNext
  \/ Only("rooms") /\ ChatNext /\ UNCHANGED message
  \/ Only("messages") /\ ChatNext /\ UNCHANGED conversations
       /\ Cardinality({r \in Rooms : IsRoom(r)'}) <= 1
  \/ Only("addresses") /\ UserNext /\ UNCHANGED <<licensed, document>>
  \/ Only("licenses") /\ UserNext /\ UNCHANGED address
  \/ Only("menus") /\ MenusNext
  \/ Only("tracking") /\ TrackingNext
  \/ Only("notifications") /\ NotificationsNext
  \/ Only("login") /\ LoginNext
  \/ Only("otp") /\ OtpNext
  \/ Only("tokens") /\ TokensNext
  \/ Only("requests") /\ RequestsNext
  \/ Only("fare") /\ FareNext
  \/ Only("dashboard") /\ DashboardNext
  \/ Only("pages") /\ PagesNext

vars == <<part, job, promo, uses, rating, aggregate, review, room, message, conversations,
          address, profile, licensed, document, restaurant, category, item,
          active, path, expires, unset, queue, inbox, prefs, dead, delivering,
          account, otp, token, second, count, ttl, admitted, cached, runs, lapses,
          online, requested, ride, live, orders, shown,
          route, entry, screen, dialog, submitting, told, overlapped>>

Spec == Init /\ [][Next]_vars

\* Handlers are interchangeable.
Symmetry == Permutations(Slots)

\* Every module's tables and its handlers' locals have their types.
ServicesTypeOK ==
  /\ part = "promo"    => PromoTypeOK
  /\ part = "ratings"  => RatingsTypeOK
  /\ part \in Chats    => ChatTypeOK
  /\ part \in Records  => UserTypeOK
  /\ part = "menus"    => MenusTypeOK
  /\ part = "tracking" => TrackingTypeOK
  /\ part = "notifications" => NotificationsTypeOK
  /\ part = "login"    => LoginTypeOK
  /\ part = "otp"      => OtpTypeOK
  /\ part = "tokens"   => TokensTypeOK
  /\ part = "requests" => RequestsTypeOK
  /\ part = "fare"     => FareTypeOK
  /\ part = "dashboard" => DashboardTypeOK
  /\ part = "pages"    => PagesTypeOK

\* What a handler looks up before it writes is unique but for requests that
\* overlap: a reference's active room, the conversation of a group, the default
\* address, a registration, the document of a type.
DuplicatesWithinOverlap == RoomsWithinOverlap /\ UserRowsWithinOverlap

\* Guesses are limited up to what overlaps: the failures of a lockout, the tries
\* of a one-time password.
GuessesLimited == LockoutHolds /\ TriesBounded

\* What is rounded for display adds up: the parts of a fare to its total, the
\* types, hours and shares of the dashboard to the rides it lists.
RoundedSumsClose == FareAddsUp /\ DashboardAddsUp
=============================================================================

----------------------------- MODULE Passenger ------------------------------
(***************************************************************************)
(* The dialogue of one passenger: the part of bot/handlers.py that answers *)
(* his messages, with the states of bot/states_service.py, against what    *)
(* drivers, timers and the administration do to his requests meanwhile.    *)
(*                                                                         *)
(* His events are handled one at a time, each in one transaction.  That    *)
(* transaction reads his open request without a lock, and other            *)
(* transactions may commit before it writes: the handlers whose late write *)
(* matters, because they change the request or leave the dialogue in a     *)
(* state that listens, are two steps here, a reading and a writing one.    *)
(* He may press a button of the keyboard he sees, of the one it has just   *)
(* replaced through no action of his (the press is on its way: a bound of  *)
(* one keyboard), or of any card he was ever shown.                        *)
(*                                                                         *)
(* What a request or a booking says is abstracted to which of its parts    *)
(* are known; of stars only whether there are five.  The five requests in  *)
(* fifteen minutes that a passenger may make are all that he makes.        *)
(***************************************************************************)
EXTENDS Naturals, FiniteSets, Menus

CONSTANTS
  OrderLimit,   \* requests one passenger may make (5 in the code)
  Legacy        \* keyboards of earlier versions on his screen at the start

\* The last number is that of the ride of a booking; one of them departs.
Order  == 1..(OrderLimit + 1)
Booked == OrderLimit + 1

ASSUME LimitAssumption  == OrderLimit \in Nat \ {0}
ASSUME LegacyAssumption == Legacy \subseteq Keyboard

State ==
  {"main", "addr", "from", "to", "extras", "confirm",
   "delivery_from", "delivery_to", "delivery_what", "delivery_comment",
   "waiting", "queue_confirm", "delivery_confirm", "new_address",
   "in_ride", "arrived", "chat", "rate", "review_text", "price_route",
   "fake_call_lock", "booking_date", "booking_time", "booking_address",
   "booking_extras", "booking_comment", "booking_confirm"}

BookingPart == {"type", "date", "time", "route", "comment"}

\* The row of his dialogue: the state, and the keys of its JSON that handlers
\* read (0 and {}: the key is missing); the keyboards of the screen.
TalkRecord ==
  [state   : State,
   draft   : SUBSET {"from", "to"},
   booking : SUBSET BookingPart,
   review  : Order \union {0},
   order   : Order \union {0},
   menu    : Keyboard,
   before  : Keyboard]

\* "searching" is created, queued, searching and chat_search; "asked" is created
\* again while a better address is awaited; "departed" is assigned with an ETA;
\* "dropped" is cancelled in a way that leaves the dialogue as it is.
Stage == {"unborn", "searching", "asked", "reserved", "assigned", "departed",
          "arrived", "in_progress", "completed", "cancelled", "dropped"}
Open    == {"searching", "asked", "reserved", "assigned", "departed", "arrived",
            "in_progress"}
OnTrip  == {"assigned", "departed", "arrived", "in_progress"}
Closed  == {"completed", "cancelled"}

Stars == {4, 5}

VARIABLES
  talk,     \* the dialogue and the screen
  stage,    \* the stage of each of his requests
  stars,    \* the stars of his review of each request, 0 without one
  rating,   \* rating_sum and rating_count of the drivers he reviewed
  booking,  \* his booking: "none", "pending", "assigned", "en_route"
  ride,     \* the request of a booking that is en route, or 0
  created,  \* the parts of a booking that was saved, kept by no code
  cards,    \* cards with questions that he was ever shown
  debt,     \* he owes for a false call
  found     \* what a handler of his has found, and not yet acted upon

vars == <<talk, stage, stars, rating, booking, ride, created, cards, debt, found>>

Card == ({"confirm"} \X {0}) \union ({"poll", "price"} \X Order)

\* The handlers that are two steps, and the request that one of them has read.
Handler == {"chat", "reply", "address", "cancel", "falseCall"}
Nothing == [by |-> "none", order |-> 0]
Found == [by : Handler, order : Order] \union {Nothing}

TypeOK ==
  /\ found \in Found
  /\ talk \in TalkRecord
  /\ stage \in [Order -> Stage]
  /\ stars \in [Order -> Stars \union {0}]
  /\ rating \in [sum : Nat, count : Nat]
  /\ booking \in {"none", "pending", "assigned", "en_route"}
  /\ ride \in Order \union {0}
  /\ created \subseteq BookingPart
  /\ cards \subseteq Card
  /\ debt \in BOOLEAN

Init ==
  /\ \E k \in Legacy \union {"main"} :
       talk = [state |-> "main", draft |-> {}, booking |-> {}, review |-> 0,
               order |-> 0, menu |-> k, before |-> k]
  /\ stage = [o \in Order |-> "unborn"]
  /\ stars = [o \in Order |-> 0]
  /\ rating = [sum |-> 0, count |-> 0]
  /\ booking = "none"
  /\ ride = 0
  /\ created = BookingPart
  /\ cards = {}
  /\ debt = FALSE
  /\ found = Nothing

----------------------------------------------------------------------------
(* The dialogue.                                                            *)

\* active_order_for: the newest of his open requests, 0 without one.
Actives == {o \in Order : stage[o] \in Open}
Active == IF Actives = {} THEN 0 ELSE CHOOSE o \in Actives : \A p \in Actives : p <= o

Show(t, k) == [t EXCEPT !.before = k, !.menu = k]

\* set_state, and the number of a request that is stored with it: it is kept here
\* only while a better address is awaited, where alone it is read.
Goes(t, s)  == [t EXCEPT !.state = s, !.order = 0]
About(t, o) == IF t.state = "new_address" THEN [t EXCEPT !.order = o] ELSE t

Clean(t) == [t EXCEPT !.draft = {}, !.booking = {}, !.review = 0, !.order = 0]

\* show_main_menu keeps the data of the dialogue, reset() clears it.
MainMenu == IF booking = "none" THEN "main" ELSE "main_booked"
Home(t)  == Goes(Show(t, MainMenu), "main")
ResetTo(t, k) == Goes(Show(Clean(t), k), "main")

OnlyTalk == UNCHANGED <<stage, stars, rating, booking, ride, created, cards, debt>>
KeepOrders == UNCHANGED <<stage, stars, rating>>
KeepBooking == UNCHANGED <<booking, ride, created>>
Become(o, s) == stage' = [stage EXCEPT ![o] = s]

\* A passenger in debt gets no further than fake_calls_service lets him.
Pressed(cmd) ==
  /\ ~debt
  /\ cmd \in Buttons[talk.menu] \union Buttons[talk.before]
Types == ~debt
TypesIn(s) == ~debt /\ talk.state = s

\* The two steps of a handler: it finds a request, and acts upon it.
Finds(by, o) == found' = [by |-> by, order |-> o]
Acts(by)     == found.by = by /\ found' = Nothing

Idle == Active = 0
UnderWay == IF Idle THEN FALSE ELSE stage[Active] \in OnTrip

----------------------------------------------------------------------------
(* Menus and lists.                                                         *)

\* «меню», «начать»: with an open request only a notice is sent.
MenuWord ==
  /\ Types /\ Idle
  /\ talk' = Home(talk)
  /\ OnlyTalk

CancelFlow ==
  /\ Pressed("cancel_flow") \/ Pressed("booking_back")
  /\ talk' = Goes(Show(Clean(talk), MainMenu), "main")
  /\ OnlyTalk

ShowRules ==
  /\ Pressed("rules")
  /\ talk' = Show(talk, MainMenu)
  /\ OnlyTalk

ShowFreeDrivers ==
  /\ Pressed("drivers")
  /\ talk' = Show(talk, IF ~Idle THEN "waiting"
                        ELSE IF talk.state = "addr" THEN "entry" ELSE "main")
  /\ OnlyTalk

ShowPrice ==
  /\ Pressed("price") \/ Pressed("price_section")
  /\ Idle
  /\ talk' = Show(talk, "price")
  /\ OnlyTalk

PriceBack ==
  /\ Pressed("price_back") /\ Idle
  /\ talk' = Home(talk)
  /\ OnlyTalk

PriceCalculateStart ==
  /\ Pressed("price_calculate") /\ Idle
  /\ talk' = Goes(Show(Clean(talk), "price_back"), "price_route")
  /\ OnlyTalk

\* A route that is not recognised keeps the state; one that is ends it, with or
\* without an estimate.
PriceCalculateRoute ==
  /\ TypesIn("price_route")
  /\ talk' \in {Show(talk, "price_back"), ResetTo(talk, "price")}
  /\ OnlyTalk

\* History, support and reviews of an earlier main menu.
ShowOldSections ==
  /\ Pressed("history") \/ Pressed("support") \/ Pressed("my_reviews")
  /\ Idle
  /\ talk' = Show(talk, "main")
  /\ OnlyTalk

CheckSubscription ==
  /\ Pressed("check_subscription")
  /\ talk' = Home(talk)
  /\ OnlyTalk

OrderStatus ==
  /\ Pressed("order_status")
  /\ talk' = IF Idle THEN Home(talk)
             ELSE Show(talk, CASE stage[Active] \in {"searching", "asked"} -> "waiting"
                               [] stage[Active] = "in_progress" -> "in_ride"
                               [] stage[Active] = "assigned" -> "assigned"
                               [] OTHER -> "ride")
  /\ OnlyTalk

WaitRemaining ==
  /\ Pressed("driver_wait_remaining")
  /\ \/ Idle /\ talk' = Home(talk)
     \/ ~Idle /\ stage[Active] = "arrived" /\ talk' = Show(talk, "arrived")
  /\ OnlyTalk

----------------------------------------------------------------------------
(* Making a request.                                                        *)

LimitReached == stage[OrderLimit] # "unborn"
NextOrder == CHOOSE o \in Order : stage[o] = "unborn" /\ \A p \in 1..(o - 1) : stage[p] # "unborn"

\* start_new_order, after «Заказать авто» or with a draft that is not complete.
StartOrder(t) ==
  IF LimitReached THEN Show(t, "main")
  ELSE IF ~Idle THEN Show(t, "waiting")
  ELSE Goes(Show(Clean(t), "entry"), "addr")

NewOrder ==
  /\ Pressed("new_order") /\ Idle
  /\ talk' = StartOrder(talk)
  /\ OnlyTalk

\* create_passenger_order, for the draft of dialogue t.
CreateOrder(t) ==
  /\ UNCHANGED <<stars, rating, booking, ride, created, cards, debt>>
  /\ \/ /\ LimitReached
        /\ talk' = ResetTo(t, "main")
        /\ UNCHANGED stage
     \/ /\ ~LimitReached
        /\ t.draft # {"from", "to"}
        /\ talk' = StartOrder(t)
        /\ UNCHANGED stage
     \/ /\ ~LimitReached
        /\ t.draft = {"from", "to"}
        /\ talk' = Goes(Show(Clean(t), "waiting"), "waiting")
        /\ Become(NextOrder, "searching")

\* One free text, or a voice message, is a whole request.
SetAddresses ==
  /\ TypesIn("addr")
  /\ CreateOrder([Clean(talk) EXCEPT !.draft = {"from", "to"}])

\* «грузоперевозки»: the dispatcher takes these by telephone.
FreightText ==
  /\ TypesIn("addr")
  /\ talk' = ResetTo(talk, "main")
  /\ OnlyTalk

Captured == {"addr", "from", "to", "delivery_from", "delivery_to",
             "delivery_what", "delivery_comment", "arrived", "new_address", "chat",
             "review_text", "booking_time", "booking_date", "booking_address",
             "booking_comment", "price_route"}

\* Any other text of a passenger without a request is one, unless it is chatter.
TextOrder ==
  /\ Types /\ talk.state \notin Captured /\ Idle
  /\ \/ talk' = Home(talk) /\ OnlyTalk
     \/ /\ LimitReached
        /\ talk' = Show(talk, "main")
        /\ OnlyTalk
     \/ /\ ~LimitReached
        /\ CreateOrder([Clean(talk) EXCEPT !.draft = {"from", "to"}])

\* With a request that nobody has taken, text only brings the keyboard back.
TextWaits ==
  /\ Types /\ talk.state \notin Captured
  /\ ~Idle /\ stage[Active] \in {"searching", "asked"}
  /\ talk' = Show(talk, "waiting")
  /\ OnlyTalk

EditOrder ==
  /\ Pressed("edit_order")
  /\ talk' = [Goes(Show(Clean(talk), "entry"), "addr") EXCEPT !.draft = talk.draft]
  /\ OnlyTalk

ConfirmOrder == Pressed("confirm_order") /\ CreateOrder(talk)

\* A card of an earlier version, under a request of that time.
RepeatOrder ==
  /\ ~debt /\ "old_main" \in Legacy
  /\ \/ talk' = Home(talk) /\ OnlyTalk
     \/ ~Idle /\ talk' = Show(talk, "waiting") /\ OnlyTalk
     \/ Idle /\ LimitReached /\ talk' = Show(talk, "main") /\ OnlyTalk
     \/ Idle /\ ~LimitReached /\ CreateOrder([talk EXCEPT !.draft = {"from", "to"}])

----------------------------------------------------------------------------
(* The steps of earlier versions, still reached from old keyboards.         *)

ChooseOrderType ==
  /\ Pressed("set_order_type")
  /\ \/ talk' = [Goes(Show(Clean(talk), "entry"), "addr") EXCEPT !.draft = talk.draft]
     \/ talk' = [Goes(Show(Clean(talk), "cancel"), "delivery_from") EXCEPT !.draft = talk.draft]
  /\ OnlyTalk

\* Without drivers on the line the order is refused.
SetOrderCity ==
  /\ Pressed("pick_city")
  /\ talk' \in {ResetTo(talk, "main"), Goes(talk, "from")}
  /\ OnlyTalk

\* A step that adds one part to the draft and asks for the next.
DraftStep(s, part, next, k) ==
  /\ TypesIn(s)
  /\ talk' = [Goes(Show(talk, k), next) EXCEPT !.draft = @ \union part]
  /\ OnlyTalk

OrderSetFrom    == DraftStep("from", {"from"}, "to", talk.menu)
OrderSetTo ==
  /\ TypesIn("to")
  /\ talk' = [Goes(Show(Clean(talk), "extras"), "extras")
                EXCEPT !.draft = talk.draft \union {"to"}]
  /\ OnlyTalk
DeliverySetFrom == DraftStep("delivery_from", {"from"}, "delivery_to", "cancel")
DeliverySetTo   == DraftStep("delivery_to", {"to"}, "delivery_what", "cancel")
DeliverySetWhat == DraftStep("delivery_what", {}, "delivery_comment", "comment")

DeliverySetComment ==
  /\ TypesIn("delivery_comment") \/ Pressed("skip_comment")
  /\ CreateOrder(talk)

\* «Доп. услуги»: outside of a booking the buttons belong to a request.
ToggleService ==
  /\ Pressed("toggle_service") /\ talk.state # "booking_extras"
  /\ talk' = Goes(Show(talk, "extras"), "extras")
  /\ OnlyTalk

FinishExtras ==
  /\ Pressed("extras_done") /\ talk.state # "booking_extras"
  /\ talk' = Goes(Show(talk, "confirmation"), "confirm")
  /\ OnlyTalk

----------------------------------------------------------------------------
(* Cancelling.                                                              *)

\* passenger_cancel.  Later than two minutes after the driver left it is a
\* false call; the dialogue then stays where it is.  The lock comes after the
\* reading, and does not read again.
CancelActive ==
  /\ UNCHANGED <<stage, stars, rating, booking, ride, created, cards, debt>>
  /\ \/ Idle /\ talk' = Home(talk) /\ UNCHANGED found
     \/ /\ ~Idle /\ stage[Active] = "in_progress"
        /\ talk' = Show(talk, "in_ride")
        /\ UNCHANGED found
     \/ /\ ~Idle /\ stage[Active] # "in_progress"
        /\ Finds("cancel", Active)
        /\ UNCHANGED talk
     \/ /\ ~Idle /\ stage[Active] \in {"departed", "arrived"}
        /\ Finds("falseCall", Active)
        /\ UNCHANGED talk

CancelActs ==
  /\ \/ /\ Acts("cancel")
        /\ talk' = Goes(Show(Clean(talk), MainMenu), "main")
        /\ UNCHANGED debt
     \/ /\ Acts("falseCall")
        /\ talk' = Show(talk, "pay")
        /\ debt' = TRUE
  /\ Become(found.order, "cancelled")
  /\ UNCHANGED <<stars, rating, booking, ride, created, cards>>

\* passenger_cancel_request: he is warned of a false call.
CancelRequest ==
  \/ CancelActive
  \/ /\ ~Idle /\ stage[Active] \in {"departed", "arrived"}
     /\ cards' = cards \union {<<"confirm", 0>>}
     /\ KeepOrders /\ KeepBooking
     /\ UNCHANGED <<talk, debt, found>>

CancelOrder == Pressed("cancel_order") /\ CancelRequest

CancelConfirmed ==
  /\ ~debt /\ <<"confirm", 0>> \in cards
  /\ CancelActive

CancelWithdrawn ==
  /\ ~debt /\ <<"confirm", 0>> \in cards
  /\ talk' = IF Idle THEN Home(talk)
             ELSE Show(talk, IF stage[Active] = "in_progress" THEN "in_ride" ELSE "ride")
  /\ OnlyTalk

\* The card «Вы ждёте машинку?»; it carries no number.
DepartureResponse ==
  /\ ~debt
  /\ \E o \in Order : stage[o] \notin {"unborn", "searching", "asked", "reserved", "assigned"}
  /\ \/ /\ ~UnderWay
        /\ talk' = Home(talk)
        /\ OnlyTalk /\ UNCHANGED found
     \/ /\ UnderWay
        /\ talk' = About(Goes(Show(talk, "ride"), "in_ride"), Active)
        /\ OnlyTalk /\ UNCHANGED found
     \/ /\ UnderWay
        /\ CancelRequest

----------------------------------------------------------------------------
(* During a trip.                                                           *)

\* «Выхожу», «Подождать».  A column that keeps its value is not written.
ArrivedReply ==
  /\ Pressed("going_out") \/ Pressed("wait_more")
  /\ \/ Idle /\ talk' = Home(talk) /\ UNCHANGED found
     \/ /\ ~Idle /\ talk.state = "arrived"
        /\ talk' = Show(talk, "in_ride")
        /\ UNCHANGED found
     \/ /\ ~Idle /\ talk.state # "arrived"
        /\ Finds("reply", Active)
        /\ UNCHANGED talk
  /\ OnlyTalk

ArrivedReplyActs ==
  /\ Acts("reply")
  /\ talk' = Goes(Show(talk, "in_ride"), "arrived")
  /\ OnlyTalk

EnterChat ==
  /\ Pressed("chat")
  /\ \/ Idle /\ talk' = Home(talk) /\ UNCHANGED found
     \/ /\ ~Idle /\ talk.state # "chat"
        /\ Finds("chat", Active)
        /\ UNCHANGED talk
  /\ OnlyTalk

EnterChatActs ==
  /\ Acts("chat")
  /\ talk' = Goes(talk, "chat")
  /\ OnlyTalk

\* Text in these states goes to the driver; without a request it opens the menu.
ChatForward ==
  /\ Types /\ talk.state \in {"arrived", "chat"}
  /\ talk' = IF Idle THEN Home(talk) ELSE talk
  /\ OnlyTalk

ExitChat ==
  /\ Pressed("exit_chat")
  /\ talk' = IF Idle THEN Goes(Clean(talk), "main")
             ELSE About(Goes(talk, "in_ride"), Active)
  /\ OnlyTalk

\* passenger_update_address looks only at the number it was asked for, and at no
\* stage.
UpdateAddress ==
  /\ TypesIn("new_address")
  /\ LET o == IF talk.order # 0 THEN talk.order ELSE Active IN
       \/ o = 0 /\ talk' = Home(talk) /\ UNCHANGED found
       \/ o # 0 /\ Finds("address", o) /\ UNCHANGED talk
  /\ OnlyTalk

UpdateAddressActs ==
  /\ Acts("address")
  /\ Become(found.order, "searching")
  /\ talk' = Goes(Show(Clean(talk), "waiting"), "waiting")
  /\ UNCHANGED <<stars, rating, booking, ride, created, cards, debt>>

\* «Заявка ещё актуальна?»: confirm() of the waiting queue.  The row of the
\* queue is there only while the request waits.
QueueAnswer(o, actual) ==
  /\ ~debt /\ <<"poll", o>> \in cards
  /\ \/ /\ stage[o] # "searching"
        /\ talk' = ResetTo(talk, "main")
        /\ OnlyTalk
     \/ /\ stage[o] = "searching" /\ actual
        /\ talk' = About(Goes(Show(Clean(talk), "waiting"), "waiting"), o)
        /\ OnlyTalk
     \/ /\ stage[o] = "searching" /\ ~actual
        /\ Become(o, "cancelled")
        /\ talk' = ResetTo(talk, "after_cancel")
        /\ UNCHANGED <<stars, rating, booking, ride, created, cards, debt>>

\* An answer is taken at any time.
BrokenPriceAnswer(o, agree) ==
  /\ ~debt /\ <<"price", o>> \in cards
  /\ Become(o, IF agree THEN "assigned" ELSE "cancelled")
  /\ talk' = IF agree THEN About(Goes(Show(talk, "ride"), "in_ride"), o)
                      ELSE ResetTo(talk, "main")
  /\ UNCHANGED <<stars, rating, booking, ride, created, cards, debt>>

\* The price of a delivery is agreed to or refused.
PriceAnswer(o, agree) ==
  /\ ~debt /\ <<"price", o>> \in cards
  /\ stage[o] \in {"searching", "assigned"}
  /\ \/ /\ agree
        /\ Become(o, "assigned")
        /\ talk' = About(Goes(Show(talk, "ride"), "in_ride"), o)
     \/ /\ ~agree
        /\ Become(o, "cancelled")
        /\ talk' = ResetTo(talk, "main")
  /\ UNCHANGED <<stars, rating, booking, ride, created, cards, debt>>

----------------------------------------------------------------------------
(* Reviews.                                                                 *)

\* After fewer than five stars a comment is asked for.
Reviewed(o, n) ==
  IF n < 5 THEN About([Goes(Clean(talk), "review_text") EXCEPT !.review = o], o)
  ELSE ResetTo(talk, "main")

\* A second press of the stars counts again.
BrokenSaveRating(o, n) ==
  /\ ~debt /\ stage[o] = "completed"
  /\ stars' = [stars EXCEPT ![o] = n]
  /\ rating' = [sum |-> rating.sum + n, count |-> rating.count + 1]
  /\ talk' = Reviewed(o, n)
  /\ KeepBooking
  /\ UNCHANGED <<stage, cards, debt>>

SaveRating(o, n) ==
  /\ ~debt /\ stage[o] = "completed"
  /\ stars[o] = 0
  /\ stars' = [stars EXCEPT ![o] = n]
  /\ rating' = [sum |-> rating.sum + n, count |-> rating.count + 1]
  /\ talk' = Reviewed(o, n)
  /\ KeepBooking
  /\ UNCHANGED <<stage, cards, debt>>

SkipRating(o) ==
  /\ ~debt /\ stage[o] = "completed"
  /\ talk' = ResetTo(talk, "main")
  /\ OnlyTalk

\* The card of a review: write a comment, skip it, change the stars.
ReviewCardShown == \E o \in Order : stars[o] # 0

ReviewCommentPrompt ==
  /\ ~debt /\ ReviewCardShown
  /\ talk' = IF talk.review = 0 THEN Home(talk) ELSE Goes(talk, "review_text")
  /\ OnlyTalk

SaveReviewText ==
  /\ \/ TypesIn("review_text")
     \/ ~debt /\ ReviewCardShown
  /\ talk' = ResetTo(talk, "main")
  /\ OnlyTalk

\* passenger_review_rating_set.
ReviewRatingSet(o, n) ==
  /\ TypesIn("review_text") /\ stars[o] # 0
  /\ \/ /\ talk.review # o
        /\ talk' = Home(talk)
        /\ OnlyTalk
     \/ /\ talk.review = o
        /\ stars' = [stars EXCEPT ![o] = n]
        /\ rating' = [rating EXCEPT !.sum = @ + n - stars[o]]
        /\ talk' = Reviewed(o, n)
        /\ KeepBooking
        /\ UNCHANGED <<stage, cards, debt>>

----------------------------------------------------------------------------
(* Booking a long trip.                                                     *)

BookingAsks(s, parts, k) ==
  talk' = [Goes(Show(Clean(talk), k), s) EXCEPT !.booking = parts]

BookingFill == BookingAsks("booking_date", {"type"}, "date")

BookingStart ==
  /\ Pressed("booking_start") /\ booking = "none"
  /\ BookingFill
  /\ OnlyTalk

BookingOldButtons ==
  /\ Pressed("booking_fill") \/ Pressed("booking_type")
  /\ BookingFill
  /\ OnlyTalk

ShowBooking ==
  /\ Pressed("my_booking") /\ booking = "none"
  /\ talk' = Home(talk)
  /\ OnlyTalk

BookingDateCustom ==
  /\ Pressed("booking_date_custom")
  /\ BookingAsks("booking_date", talk.booking, "booking_back")
  /\ OnlyTalk

BookingDate ==
  /\ Pressed("booking_date_quick") \/ TypesIn("booking_date")
  /\ BookingAsks("booking_time", talk.booking \union {"date"}, "booking_back")
  /\ OnlyTalk

BookingTime ==
  /\ TypesIn("booking_time")
  /\ BookingAsks("booking_address", talk.booking \union {"time"}, "booking_back")
  /\ OnlyTalk

BookingAddress ==
  /\ TypesIn("booking_address")
  /\ BookingAsks("booking_extras", talk.booking \union {"route"}, "extras")
  /\ OnlyTalk

BookingToggleExtra ==
  /\ Pressed("toggle_service") /\ talk.state = "booking_extras"
  /\ talk' = Show(talk, "extras")
  /\ OnlyTalk

BookingExtrasDone ==
  /\ Pressed("extras_done") /\ talk.state = "booking_extras"
  /\ BookingAsks("booking_comment", talk.booking, "booking_comment")
  /\ OnlyTalk

BookingComment ==
  /\ Pressed("booking_comment_skip") \/ TypesIn("booking_comment")
  /\ IF "time" \in talk.booking
     THEN BookingAsks("booking_confirm", talk.booking \union {"comment"}, "booking_confirm")
     ELSE BookingFill
  /\ OnlyTalk

\* What is missing is not asked for.
BrokenBookingConfirm ==
  /\ Pressed("booking_confirm") /\ booking = "none"
  /\ booking' = "pending"
  /\ created' = talk.booking
  /\ talk' = Goes(Show(Clean(talk), "main_booked"), "main")
  /\ KeepOrders
  /\ UNCHANGED <<ride, cards, debt>>

BookingConfirm ==
  /\ Pressed("booking_confirm") /\ booking = "none"
  /\ \/ /\ talk.booking # BookingPart
        /\ BookingFill
        /\ OnlyTalk
     \/ /\ talk.booking = BookingPart
        /\ booking' = "pending"
        /\ created' = talk.booking
        /\ talk' = Goes(Show(Clean(talk), "main_booked"), "main")
        /\ KeepOrders
        /\ UNCHANGED <<ride, cards, debt>>

\* The card of the booking.  After the driver has left it is a false call.
CancelBooking ==
  /\ ~debt /\ booking # "none"
  /\ booking' = "none"
  /\ ride' = 0
  /\ UNCHANGED <<created, cards, stars, rating>>
  /\ \/ /\ booking # "en_route"
        /\ talk' = Goes(Show(Clean(talk), "main"), "main")
        /\ UNCHANGED <<stage, debt>>
     \/ /\ booking = "en_route"
        /\ Become(ride, "cancelled")
        /\ debt' = TRUE
        /\ talk' = Goes(Show(Clean(talk), "pay"), "fake_call_lock")

----------------------------------------------------------------------------
(* A false call.                                                            *)

\* «Я готов оплатить»; anything else is answered with that button again.
ReadyToPay ==
  /\ debt
  /\ talk' \in {Goes(Show(Clean(talk), "none"), "fake_call_lock"),
                Goes(Show(Clean(talk), "pay"), "fake_call_lock")}
  /\ OnlyTalk

\* The driver, or the administration, marks it as paid.
Paid ==
  /\ debt
  /\ debt' = FALSE
  /\ talk' = ResetTo(talk, "main")
  /\ KeepOrders /\ KeepBooking
  /\ UNCHANGED cards

----------------------------------------------------------------------------
(* What others do to his requests: drivers, timers, dispatch, the site.     *)

\* A keyboard that is replaced can still be pressed, if the new one has not all
\* of its buttons.
Told(t) ==
  talk' = [t EXCEPT !.before =
             IF Buttons[talk.menu] \subseteq Buttons[t.menu] THEN t.menu ELSE talk.menu]
Trip(o) == About(Goes(talk, "in_ride"), o)
OthersKeep == KeepBooking /\ UNCHANGED <<stars, rating, debt>>

\* Dispatch reports; a promotion also sets the dialogue back to waiting.
Searched(o) ==
  /\ stage[o] = "searching"
  /\ Told(Show(talk, "waiting"))
     \/ Told(About(Goes(Clean(talk), "waiting"), o))
     \/ Told(About(Goes(Show(Clean(talk), "waiting"), "waiting"), o))
  /\ OnlyTalk

\* «Она ещё актуальна?»
Polled(o) ==
  /\ stage[o] = "searching"
  /\ cards' = cards \union {<<"poll", o>>}
  /\ Told(About(Goes(talk, "queue_confirm"), o))
  /\ OthersKeep /\ UNCHANGED stage

\* A driver needs a better address.
AddressAsked(o) ==
  /\ stage[o] = "searching"
  /\ Become(o, "asked")
  /\ Told(About(Goes(Show(talk, "waiting"), "new_address"), o))
  /\ OthersKeep /\ UNCHANGED cards

\* A driver accepts, or takes it from the list of pending requests, where it is
\* also while its author is writing a better address.
Accepted(o) ==
  /\ stage[o] \in {"searching", "asked"}
  /\ Become(o, "assigned")
  /\ Told(Show(talk, "waiting"))
  /\ OthersKeep /\ UNCHANGED cards

\* A driver on the road reserves it, or gives it up again.
ReservedByDriver(o) ==
  /\ \/ stage[o] \in {"searching", "asked"} /\ Become(o, "reserved") /\ UNCHANGED talk
     \/ stage[o] = "reserved" /\ Become(o, "searching") /\ Told(Show(talk, "waiting"))
  /\ OthersKeep /\ UNCHANGED cards

ReservedStarts(o) ==
  /\ stage[o] = "reserved"
  /\ Become(o, "departed")
  /\ Told(Show(talk, "ride"))
  /\ OthersKeep /\ UNCHANGED cards

\* _apply_eta, with the card «Вы ждёте машинку?» or the keyboard of the ride.
Departed(o) ==
  /\ stage[o] = "assigned"
  /\ Become(o, "departed")
  /\ Told(Trip(o)) \/ Told([Trip(o) EXCEPT !.menu = "ride"])
  /\ OthersKeep /\ UNCHANGED cards

\* relay: a message of the driver opens the chat, unless a price is to be answered.
DriverWrites(o) ==
  /\ stage[o] \in OnTrip
  /\ talk.state # "delivery_confirm"
  /\ Told(Goes(talk, "chat"))
  /\ OthersKeep /\ UNCHANGED <<stage, cards>>

\* The ride of a booking is no delivery.
PriceOffered(o) ==
  /\ stage[o] = "assigned" /\ o # Booked
  /\ cards' = cards \union {<<"price", o>>}
  /\ Told(About(Goes(talk, "delivery_confirm"), o))
  /\ OthersKeep /\ UNCHANGED stage

\* driver_arrived looks at no stage.
ArrivedNow(o) ==
  /\ stage[o] \in OnTrip
  /\ Become(o, "arrived")
  /\ Told(About(Goes(Show(talk, "arrived"), "arrived"), o))
  /\ OthersKeep /\ UNCHANGED cards

Seated(o) ==
  /\ stage[o] \in OnTrip
  /\ Become(o, "in_progress")
  /\ Told([Trip(o) EXCEPT !.menu = "in_ride"])
  /\ OthersKeep /\ UNCHANGED cards

BookingEnds(o) == IF ride = o /\ booking = "en_route" THEN "none" ELSE booking

\* A ride ends in the main menu, a delivery in a state of its own.
Completed(o) ==
  /\ stage[o] \in OnTrip
  /\ Become(o, "completed")
  /\ booking' = BookingEnds(o)
  /\ ride' = IF booking' = "none" THEN 0 ELSE ride
  /\ \/ Told(Goes(Show(Clean(talk), IF booking' = "none" THEN "main" ELSE "main_booked"), "main"))
     \/ Told(About(Goes(talk, "rate"), o))
  /\ UNCHANGED <<stars, rating, created, cards, debt>>

\* The dialogue is not reset.
BrokenCancelledByOthers(o) ==
  /\ stage[o] \in Open
  /\ Become(o, "cancelled")
  /\ Told(Show(talk, MainMenu))
  /\ OthersKeep /\ UNCHANGED cards

\* Refused as a booking or as spam, not confirmed in time, nobody found, ended
\* by the driver, called off by the administration.
CancelledByOthers(o) ==
  /\ stage[o] \in Open
  /\ Become(o, "cancelled")
  /\ Told(ResetTo(talk, "main")) \/ Told(Goes(Show(Clean(talk), MainMenu), "main"))
  /\ OthersKeep /\ UNCHANGED cards

\* The driver reports that nobody came out, or that he was called off too late.
NoShow(o) ==
  /\ stage[o] \in OnTrip
  /\ Become(o, "cancelled")
  /\ debt' = TRUE
  /\ Told(Show(talk, "pay"))
  /\ KeepBooking
  /\ UNCHANGED <<stars, rating, cards>>

\* The car fails: the request is offered again.
CarFailed(o) ==
  /\ stage[o] \in OnTrip
  /\ Become(o, "searching")
  /\ Told(Show(talk, "waiting"))
  /\ OthersKeep /\ UNCHANGED cards

\* The same of a driver who was off the line and claimed it in the chat, where
\* no ride of a booking is: it ends, and its author gets one line of text.  If he
\* was writing a better address, that still brings it back: see the README.
CarFailedOffLine(o) ==
  /\ stage[o] \in OnTrip /\ o # Booked
  /\ Become(o, "dropped")
  /\ OthersKeep /\ UNCHANGED <<talk, cards>>

\* A driver takes the booking or gives it back; nobody tells the dialogue.
BookingTaken ==
  /\ \/ booking = "pending" /\ booking' = "assigned"
     \/ booking = "assigned" /\ booking' = "pending"
  /\ UNCHANGED <<ride, created, talk, cards, debt>> /\ KeepOrders

\* He departs: the booking becomes a request.
BookingDeparts ==
  /\ booking = "assigned"
  /\ stage[Booked] = "unborn"
  /\ booking' = "en_route"
  /\ ride' = Booked
  /\ Become(Booked, "assigned")
  /\ Told(About(Goes(Show(Clean(talk), "ride"), "in_ride"), Booked))
  /\ UNCHANGED <<stars, rating, created, cards, debt>>

----------------------------------------------------------------------------

Navigate ==
  \/ MenuWord \/ CancelFlow \/ ShowRules \/ ShowFreeDrivers
  \/ ShowPrice \/ PriceBack \/ PriceCalculateStart \/ PriceCalculateRoute
  \/ ShowOldSections \/ CheckSubscription \/ OrderStatus \/ WaitRemaining

Orders ==
  \/ NewOrder \/ SetAddresses \/ FreightText \/ TextOrder \/ TextWaits
  \/ EditOrder \/ ConfirmOrder \/ RepeatOrder \/ ToggleService \/ FinishExtras

OldSteps ==
  \/ ChooseOrderType \/ SetOrderCity \/ OrderSetFrom \/ OrderSetTo
  \/ DeliverySetFrom \/ DeliverySetTo \/ DeliverySetWhat
  \/ DeliverySetComment

Rides ==
  \/ CancelWithdrawn \/ ChatForward \/ ExitChat
  \/ \E o \in Order, answer \in BOOLEAN : QueueAnswer(o, answer) \/ PriceAnswer(o, answer)

Reviews ==
  \/ \E o \in Order, n \in Stars : SaveRating(o, n) \/ ReviewRatingSet(o, n)
  \/ \E o \in Order : SkipRating(o)
  \/ ReviewCommentPrompt \/ SaveReviewText

Bookings ==
  \/ BookingStart \/ BookingOldButtons \/ ShowBooking \/ BookingDateCustom
  \/ BookingDate \/ BookingTime \/ BookingAddress \/ BookingToggleExtra
  \/ BookingExtrasDone \/ BookingComment \/ BookingConfirm \/ CancelBooking

\* What he sends is handled, or begins to be: the rest follows.
His ==
  \/ /\ \/ Navigate \/ Orders \/ OldSteps \/ Rides \/ Reviews \/ Bookings
        \/ ReadyToPay
     /\ UNCHANGED found
  \/ CancelOrder \/ CancelConfirmed \/ DepartureResponse
  \/ ArrivedReply \/ EnterChat \/ UpdateAddress

Rests == CancelActs \/ ArrivedReplyActs \/ EnterChatActs \/ UpdateAddressActs

Others ==
  \/ \E o \in Order :
       \/ Searched(o) \/ Polled(o) \/ AddressAsked(o) \/ Accepted(o)
       \/ ReservedByDriver(o) \/ ReservedStarts(o) \/ Departed(o) \/ PriceOffered(o)
       \/ DriverWrites(o) \/ ArrivedNow(o) \/ Seated(o) \/ Completed(o) \/ CancelledByOthers(o)
       \/ NoShow(o) \/ CarFailed(o) \/ CarFailedOffLine(o)
  \/ BookingTaken \/ BookingDeparts \/ Paid

Next ==
  \/ found = Nothing /\ His
  \/ Rests
  \/ Others /\ UNCHANGED found

Spec == Init /\ [][Next]_vars

----------------------------------------------------------------------------
(* What must be true of it.                                                 *)

\* A request that is completed or cancelled stays so: nothing that he was asked
\* about it earlier, by a card or in a dialogue, brings it back, and no handler of
\* his takes it up; only one that has taken it up before, and acts too late, does
\* (see the findings of the README).  One that was dropped is not claimed to stay.
ClosedStaysClosed ==
  [][\A o \in Order : stage[o] \in Closed =>
       /\ found'.order = o => found.order = o
       /\ stage'[o] = stage[o] \/ (found.order = o /\ found' = Nothing)]_vars

\* The dialogues whose texts go to a driver or into a request, and the stages of a
\* request that they can be about: that one of his was dropped, no dialogue is told.
Attentive == {"new_address", "arrived", "chat"}
Live == Open \union {"dropped"}

\* He is heard: what he types is taken for a better address, or for a message to a
\* driver, only while a request of his is open, or a debt locks the dialogue.
Heard == talk.state \in Attentive => debt \/ \E o \in Order : stage[o] \in Live

\* He is heard at the start, and goes on to be, whoever ends a request and in
\* whatever dialogue he is, but for a chat, or an answer to «arrived», that his
\* handler opens for a request which has ended since it was read.
TextIsHeard ==
  /\ Heard
  /\ [][Heard => Heard' \/ (found.by \in {"chat", "reply"} /\ found' = Nothing)]_vars

Total(f) == LET sum[o \in 0..Booked] == IF o = 0 THEN 0 ELSE f[o] + sum[o - 1]
            IN  sum[Booked]

\* The drivers' totals are those of his reviews, however often he presses stars
\* or changes them.
RatingAddsUp ==
  /\ rating.sum = Total(stars)
  /\ rating.count = Cardinality({o \in Order : stars[o] # 0})

\* Whatever interrupts the dialogue, a booking is saved with all of its parts.
BookingIsComplete == created = BookingPart

=============================================================================

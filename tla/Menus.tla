------------------------------- MODULE Menus --------------------------------
(***************************************************************************)
(* The keyboards of a passenger (bot/keyboards.py).  A keyboard stands at  *)
(* the bottom of his screen until a message brings another one; cards hang *)
(* under one message each, stay there, and can be pressed later.           *)
(***************************************************************************)
EXTENDS TLC

MainMenus ==
  [main        |-> {"new_order", "drivers", "booking_start", "price", "rules"},
   main_booked |-> {"new_order", "drivers", "my_booking", "price", "rules"},
   price       |-> {"price_section", "price_calculate", "price_back"},
   price_back  |-> {"price_back"}]

OrderMenus ==
  [extras       |-> {"toggle_service", "extras_done", "cancel_order"},
   confirmation |-> {"confirm_order", "edit_order", "cancel_order"},
   comment      |-> {"skip_comment", "cancel_order"},
   cancel       |-> {"cancel_order"},
   entry        |-> {"drivers", "cancel_flow"},
   after_cancel |-> {"new_order"}]

RideMenus ==
  [waiting  |-> {"order_status", "drivers", "cancel_order"},
   assigned |-> {"chat", "cancel_order"},
   ride     |-> {"driver_wait_remaining", "chat", "cancel_order"},
   in_ride  |-> {"chat"},
   arrived  |-> {"going_out", "wait_more", "chat", "cancel_order"},
   pay      |-> {"fake_pay"},
   none     |-> {}]

BookingMenus ==
  [date            |-> {"booking_date_quick", "booking_date_custom", "booking_back"},
   booking_back    |-> {"booking_back"},
   booking_comment |-> {"booking_comment_skip", "booking_back"},
   booking_confirm |-> {"booking_confirm", "booking_back"}]

\* Keyboards that earlier versions have left on screens; handlers still accept
\* their buttons.
OldMenus ==
  [old_main     |-> {"history", "support", "my_reviews"},
   subscription |-> {"check_subscription"},
   cities       |-> {"pick_city", "cancel_order"},
   order_type   |-> {"set_order_type", "cancel_order"},
   chat_old     |-> {"exit_chat"},
   booking_old  |-> {"booking_fill", "booking_type", "booking_back"}]

Buttons == MainMenus @@ OrderMenus @@ RideMenus @@ BookingMenus @@ OldMenus

Keyboard == DOMAIN MainMenus \union DOMAIN OrderMenus \union DOMAIN RideMenus
              \union DOMAIN BookingMenus \union DOMAIN OldMenus
=============================================================================

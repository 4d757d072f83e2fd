------------------------------- MODULE Menus -------------------------------
(***************************************************************************)
(* Restaurants and menus (food-service, src/restaurants, src/menus).  The  *)
(* writes are single statements; getMenuTree() is a loop of queries, one   *)
(* for the categories and one for the items of each, with the writes of    *)
(* merchants in between.  Names, prices, places and ratings are data.      *)
(***************************************************************************)
EXTENDS Service

CONSTANTS
  Categories,  \* the categories of one restaurant
  Items        \* its menu items

VARIABLES
  restaurant,  \* table restaurants: "absent", "open" or "closed"
  category,    \* table menu_categories: "absent", "active" or "inactive"
  item         \* table menu_items: its category and isAvailable

menuVars == <<job, restaurant, category, item>>

RestaurantRow == {"absent", "open", "closed"}
CategoryRow == {"absent", "active", "inactive"}
NoItem == [available |-> FALSE]
ItemRow == [available : BOOLEAN, category : Categories]

\* A menu being read: the categories still to query, how often each item is
\* shown so far, and the rows written since the read began.
TreeJob == [step : {"items"}, left : SUBSET Categories,
            shown : [Items -> Nat], listed : SUBSET Categories,
            touched : SUBSET Items]

MenusInit ==
  /\ AllIdle
  /\ restaurant = "absent"
  /\ category = [c \in Categories |-> "absent"]
  /\ item = [i \in Items |-> NoItem]

IsItem(i) == item[i] # NoItem

\* The items a query of one category returns.
Offered(c) == {i \in Items : IsItem(i) /\ item[i].available /\ item[i].category = c}

Active == {c \in Categories : category[c] = "active"}

\* Every menu under way remembers that the item was written.
Touch(i) ==
  job' = [s \in Slots |-> IF IsIdle(s) THEN job[s]
                          ELSE [job[s] EXCEPT !.touched = @ \cup {i}]]

-----------------------------------------------------------------------------
(* Restaurants: create(), toggleOpen(), delete().  Menus have no foreign   *)
(* key: they stay when the restaurant goes.                                *)

SetRestaurant(st) ==
  /\ (restaurant = "absent") = (st = "new")
  /\ restaurant' = CASE st = "new" -> "open" [] st = "gone" -> "absent" [] OTHER -> st
  /\ UNCHANGED <<job, category, item>>

-----------------------------------------------------------------------------
(* Categories and items.                                                   *)

\* createCategory(); updateCategory() may make it active again.
OpenCategory(c) ==
  /\ category' = [category EXCEPT ![c] = "active"]
  /\ UNCHANGED <<job, restaurant, item>>

\* deleteCategory(): its items stay as they are.
HideCategory(c) ==
  /\ category[c] = "active"
  /\ category' = [category EXCEPT ![c] = "inactive"]
  /\ UNCHANGED <<job, restaurant, item>>

\* createItem(), and updateItem() of categoryId or isAvailable.  Nothing checks
\* that the category exists.
PutItem(i, c, on) ==
  /\ item' = [item EXCEPT ![i] = [available |-> on, category |-> c]]
  /\ Touch(i)
  /\ UNCHANGED <<restaurant, category>>

DeleteItem(i) ==
  /\ IsItem(i)
  /\ item' = [item EXCEPT ![i] = NoItem]
  /\ Touch(i)
  /\ UNCHANGED <<restaurant, category>>

-----------------------------------------------------------------------------
(* GET /menus/restaurant/:id/tree.                                         *)

\* listCategories().
ListCategories(s) ==
  /\ IsIdle(s)
  /\ Active # {}
  /\ Goto(s, [step |-> "items", left |-> Active, listed |-> Active,
              shown |-> [i \in Items |-> 0], touched |-> {}])
  /\ UNCHANGED <<restaurant, category, item>>

\* Mutant: the query of the items forgets the category.
ListItemsOfAll(s, c) ==
  /\ At(s, "items") /\ c \in job[s].left
  /\ Goto(s, [job[s] EXCEPT !.left = @ \ {c},
                !.shown = [i \in Items |-> IF IsItem(i) /\ item[i].available
                                           THEN @[i] + 1 ELSE @[i]]])
  /\ UNCHANGED <<restaurant, category, item>>

\* The items of the next category, as they are by now.
ListItems(s, c) ==
  /\ At(s, "items") /\ c \in job[s].left
  /\ Goto(s, [job[s] EXCEPT !.left = @ \ {c},
                !.shown = [i \in Items |-> IF i \in Offered(c) THEN @[i] + 1 ELSE @[i]]])
  /\ UNCHANGED <<restaurant, category, item>>

SendTree(s) ==
  /\ At(s, "items") /\ job[s].left = {}
  /\ Return(s)
  /\ UNCHANGED <<restaurant, category, item>>

-----------------------------------------------------------------------------
\* What each controller serves.
RestaurantRequests ==
  \E st \in {"new", "open", "closed", "gone"} : SetRestaurant(st)

MenuRequests ==
  \/ \E c \in Categories : OpenCategory(c) \/ HideCategory(c)
  \/ \E i \in Items : DeleteItem(i) \/ \E c \in Categories, on \in BOOLEAN : PutItem(i, c, on)
  \/ \E s \in Slots :
       \/ ListCategories(s) \/ SendTree(s)
       \/ \E c \in Categories : ListItems(s, c)

MenusNext == RestaurantRequests \/ MenuRequests

MenusSpec == MenusInit /\ [][MenusNext]_menuVars

-----------------------------------------------------------------------------
(* Properties.                                                             *)

\* The tables and the menus under way have their types.
MenusTypeOK ==
  /\ restaurant \in RestaurantRow
  /\ category \in [Categories -> CategoryRow]
  /\ item \in [Items -> ItemRow \cup {NoItem}]
  /\ job \in [Slots -> TreeJob \cup {Idle}]

\* An item moved while a menu is read may be shown twice or not at all; one
\* that was left alone is shown once if its category was listed and it is
\* available, and never otherwise.
UntouchedItemsShownOnce ==
  \A s \in Slots :
    At(s, "items") /\ job[s].left = {} =>
      \A i \in Items \ job[s].touched :
        job[s].shown[i] =
          IF IsItem(i) /\ item[i].available /\ item[i].category \in job[s].listed
          THEN 1 ELSE 0
=============================================================================

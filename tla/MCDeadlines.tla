---------------------------- MODULE MCDeadlines ----------------------------
\* Rules of the service catalogue over nineteen years, for two people of a firm.
EXTENDS Deadlines, TLC

MCUsers == Permutations(Users)

MCDays == {Date(y, 1, 15) : y \in {2024, 2026, 2027, 2031}}
              \cup {Date(2026, 10, 1)}
MCDeletable == {Date(y, 1, 31) : y \in 2024 .. 2032} \cup {Date(y, 12, 31) : y \in 2024 .. 2032}

Offset(months, days) ==
    [type |-> "offset_from_period_end", months |-> months, days |-> days,
     period_basis |-> "fiscal", observe_business_days |-> TRUE]
Fixed(month, day) ==
    [type |-> "fixed_date", month |-> month, day |-> day, year_offset |-> 1,
     period_basis |-> "calendar", observe_business_days |-> TRUE]

Of(frequency, month, day, rule) ==
    [frequency |-> frequency, yearEnd |-> [month |-> month, day |-> day], rule |-> rule]

MCTerms ==
    {Of("quarterly", 1, 31, Offset(1, 0)), Of("monthly", 12, 31, Offset(1, 0)),
     Of("semi_annual", 8, 31, Offset(0, 0)), Of("annual", 2, 28, Offset(0, 90)),
     Of("annual", 6, 30, Fixed(4, 30)), Of("quarterly", 6, 15, Offset(6, 0))}
============================================================================
